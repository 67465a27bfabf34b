# TLA+ specifications of shell.js

shell.js (`jssh`) runs JavaScript as a shell script: `main.c` feeds scripts or
typed lines to the v7 interpreter, and the libraries in `js-clib/` give them
files, pipes, directory commands and a web server. This directory holds models
of those libraries, the TLC runs that check them and TLAPS proofs about them.

All paths are relative to the repository.

## The system

| Part | State it keeps | Operations | Uses |
|---|---|---|---|
| **resource table** `js-clib/common.c` 156-286 | `struct res_mgn_`: a mutex, the counter `last_id`, a hash of nodes by id | `res_create`, `res_create_and_clone`, `res_get`, `res_release`, `res_release_all`, `res_any`, `res_create_management`, `res_release_management` | uthash, pthread |
| **managed threads** `js-clib/common.c` 59-152 | the table `_run_res_mgn`; in each node a `thread` record with its `pthread_t` and parameter | `run`, `run_cancel`, `run_done` over `run_thread`, `wait_thread`, `destroy_thread` | resource table |
| **stream handles** `js-clib/jsc_file.c` 335-565 | the table `opened_files` of `{type, FILE*}` | `fopen`, `popen`, `fclose`, `pclose`, `readline`, `writestring`; uninstall closes what is left | resource table, libc, v7 (`toString` of what is written) |
| **file commands** `js-clib/jsc_file.c` 50-332 | none of their own: the directories, the working directory, the descriptors | `ls`, `realpath`, `cat`, `echo`, `cd`, `pwd` | libc |
| **main** `main.c` | the interpreter, `argv` | read a script, drop its `#!` line, `v7_exec`; at the end `run_done`, uninstall, `v7_destroy` | all of the above |
| **httpd** `js-clib/jsc_net.c` | a mongoose manager per call, the port, the process's SIGPIPE | `httpd` starts a managed thread that binds the port and serves for ever | managed threads, mongoose |
| **sys** `js-clib/jsc_sys.c` | none | `exec`, a stub | v7 |
| **uthash** `js-clib/uthash.h` | elements linked in the order of addition and in buckets | find, add, delete, iterate; the buckets double | |
| **managed memory pool** `platform/plat_mgn_mem.h` | a hash of memories by address, each with a size and a retained count | `mgn_mem_alloc`, `ralloc`, `retain`, `release`, `autorelease`, `release_unused`, `release_all` | uthash, malloc |
| log, platform wrappers | none | printing, one-line wrappers of libc | |
| v7, mongoose, `platform/uthash.h` | third-party code | | |

How they interact. A script runs inside `v7_exec` on the main thread and calls
the libraries; `writestring` calls back into the script through `toString`
(`jsc_file.c:519`), so a library function can be entered while another one is
under way. `httpd` starts a thread, and `run_done` joins all threads before
`main` uninstalls the libraries, so that uninstalling happens alone. The
resource table is the only object written for use by several threads at once;
behind everyone's back the thread of `httpd` also changes the process, as
`mg_mgr_init` ignores SIGPIPE, which decides whether a write to the pipe of a
command that ended kills the shell.

What is hard in it, and what makes each part correct:

* *Resource table.* Several threads, a mutex, work done after the unlock
  (`common.c:216`, `common.c:230`), and an int counter that wraps. Correct: ids
  of live entries are distinct, a node is freed once, a call changes ids and
  nodes at one instant, an owner of an id keeps its entry, and what is copied
  into it after the unlock, the search for an id ends.
* *Stream handles.* Numbers held by scripts outlive the streams; negative ids
  are taken for failures; callbacks; `pclose` waits; a command may end before
  it gets its input. Correct: a number names
  the stream it was given for, libc gets open streams only, each stream is
  closed by the function that matches it, none is lost, the shell exits.
* *Managed threads.* Records must outlive threads, results of pthread calls
  are not looked at, the record is written past its node. Correct: records are
  freed after the join, no thread is joined twice or left behind.
* *Managed memory pool.* Shared ownership and failing allocations. Correct: the
  count is the number of owners, no owner holds freed memory, nothing is lost.
* *File commands.* Partial failure, descriptors that run out, memory that is not
  there, sizes cut to a `uint`, a working directory that a failed `cd` leaves
  where it was. Correct: what a command answers can be given back to another,
  also from elsewhere; what `cat` answers is closed, and fits its buffer.
* *main.* The `#!` line with any line end, the contract between a failing
  library function and the interpreter, and the order of the end: threads, then
  streams, then the interpreter. Correct: no server is left behind, and without
  one the shell ends with every stream closed.
* *httpd.* A port for one server only; a thread that changes its process.
* *uthash.* Two sets of links that each operation and each doubling of the
  buckets must keep in step, and a walk that deletes. Correct: it is a map that
  remembers the order of addition.

## The modules

| Module | Models | Lines of the code |
|---|---|---|
| `ResTable` | the resource table under concurrent callers, step by step | `common.c` 156-277 |
| `ResAtomic` | what the table promises: atomic calls on a partial map, and a late copy | abstract |
| `MCResTable` | `ResTable` for TLC (symmetry of the threads) | |
| `IdTable` | the table as its single-threaded users see it: one step a call | `common.c` 181-277 |
| `OrderedMap` | what the resource table expects of the hash under it | abstract |
| `UtHash`, `MCUtHash` | the hash: order, buckets, doubling, iteration | `js-clib/uthash.h` 106-260, 614-727, 889-892 |
| `Files` | stream handles, on `IdTable` | `jsc_file.c` 335-565 |
| `Runs` | managed threads and servers, on `IdTable` | `common.c` 59-152, `jsc_net.c` 38-60 |
| `MgnMem`, `MCMgnMem` | the managed memory pool | `plat_mgn_mem.h` 55-243 |
| `FsCmds` | `ls`, `realpath`, `cat`, `echo`, `cd`, `pwd` | `jsc_file.c` 50-332 |
| `Shell` | `main.c` and the error protocol of `cd`, `pwd`, `exec` | `main.c` 56-138, `jsc_file.c` 50-84, `jsc_sys.c`, `v7.c` 12154-12200 |
| `Jssh` | the process: `Shell`, `Files` and `Runs` composed | `main.c` 49-110, `jsc_net.c` 38-68, `mongoose.c` 2175-2191 |
| `ResTable_proofs` | proofs about `ResTable`, and that it implements `ResAtomic` | |
| `UtHash_proofs` | proofs about `UtHash`, and that it implements `OrderedMap` | |
| `IdTable_proofs` | what `res_create`, `res_get` and `res_any` return to a single caller | |
| `Files_proofs`, `Runs_proofs` | proofs about `Files` and `Runs`, on `IdTable_proofs` | |
| `Jssh_proofs` | proofs about `Jssh`, by instances of the last two | |
| `MgnMem_proofs`, `FsCmds_proofs` | proofs about `MgnMem` and `FsCmds` | |

Which is built on which: `Jssh` instantiates `Shell`, `Files` and `Runs`; the
last two extend `IdTable`, the sequential view of `ResTable`; `ResTable` refines
`ResAtomic`; the hash that `ResTable` takes for granted is `UtHash`, which
refines `OrderedMap`. `MgnMem` and `FsCmds` stand alone.

An operator marked "mutant" in a module is a plausible bug in the operator
below it. It is used by no specification; it exists so that each property can be
shown to fail when the code is changed that way.

### ResTable

A thread is in one call at a time; `pc` says where. A call is split exactly
where another thread can get in: `Acquire` is `pthread_mutex_lock`, `Probe` one
turn of the loop of `res_create` (`last_id++`, `HASH_FIND_INT`), `Add` the
allocation and `HASH_ADD_INT`, `Find` the lookup of `res_get` and
`res_release`, `Del` `HASH_DEL` with the free, `Iter` the walk of `res_any`,
`Drain` one turn of `res_release_all`, `Unlock`
`pthread_mutex_unlock`, and `Copy` the `plat_mem_copy` that
`res_create_and_clone` makes after it. A node is the serial number of its
allocation; uthash appends, so the order of the serial numbers is the order of
the hash walk, and `res_any` gives the newest. `Succ` is `last_id++` with the
wrap that the compiled increment makes.

With `Shared = TRUE` any thread may pass any id. With `Shared = FALSE` a thread
passes ids it created and did not release (the ghost `held`), which is how the
two tables of the program are used, and nobody empties the table.

`ResAtomic` has one step per call, between its invocation and its return, that
changes the table and decides the answer. It also keeps what is in the nodes
(`content`), and there a call of `res_create_and_clone` has a second effect: the
node is linked while it is zeroed, and filled later, as the call returns
(`Fills`). Between the two the others see the empty node, and may release it, so
that call is not atomic, and no property says it is; `CopiesIntoOwn` says what
the rule of `Shared = FALSE` makes of it. `ResTable!IsAtomic` maps `data` to
`content`, and a call to "done" once it is past the step that decides its answer;
`res_release_all` empties the abstract table when it gets the mutex.

### IdTable, Files and Runs

`opened_files` is used by the script thread alone and `_run_res_mgn` by the
thread that calls `run` and `run_done`, so there a call of the table is one
step: `NewId` and `LastAfter` are the whole search of `res_create`, `At` is
`res_get`, `AnyId` is `res_any`, `Unlinked` is the removal of `res_release`.
This is `ResTable` with one thread; the run `table_shared` shows that more
threads would not change what a caller sees.

In `Files` an open makes one FILE and one entry, and both carry its serial
number. `got[s]` is the number the script was given, `life[s]` what has
happened to the stream. `frames` is the stack of `writestring` calls under way,
each with the entry it looked up: an argument is converted by script code, which
may call the library, after which `WriteArg` uses the handle that it still
holds, whatever has become of it ("wild"). `pclose` is
split, because it waits. `dirty` are the streams with output in their buffer:
writing it, in `fprintf` or in the close, to a command that has ended
(`Broken`) kills the process unless SIGPIPE is ignored, as the parent of the
shell may have arranged.

In `Runs` the thread functions are abstract: one may return, or serve for ever
as `_httpd` does, once it has bound the port (`Bind`). `mg_bind` fails on a port
in use, by this process or another, and `_httpd` hands its NULL on to
`mg_set_protocol_http_websocket`, which writes through it. `thr[n] = "failed"` is a `pthread_create` whose result nobody
looked at. `run` asks `res_create` for
`sizeof(*thrd) + param_size>sizeof(void*)?param_size:sizeof(void*)` bytes
(`common.c:109`), which is never more than the parameter or one pointer: `Fill`
then writes past the node, and its outcome is a choice between a heap that
happened to have room and one that is broken. `Abort` is what any allocation or
free may then come to, here or, in `Jssh` (`HeapAborts`), in the streams, the
interpreter, the servers or the end of `main`: it may happen at any time.

### MgnMem

`pool` maps an address to its size and count; `live` is what malloc thinks is
allocated; the ghost `holds` says who owns what. Owners follow the header: only
an owner releases, autoreleases or extends, and only what it has not released.
`Move`, `MoveFails`, `Split` and `SplitFails` are the four outcomes of
`mgn_mem_ralloc` on a known memory. Sizes stay below 2^32, which is what
`plat_mem_allocate` takes. An autoreleased memory is one whose count came to zero
in `Autorelease`: `AutoreleasedStays` says that it is still in the pool after
that, and that a memory without owners leaves it in `ReleaseUnused` and
`ReleaseAll` only.

### UtHash

An element stands for its key, since `common.c` adds no key twice. `prev`,
`next`, `head` and the tail are the order of addition; `chains` holds the
buckets and `hh_prev`, `hh_next`. `Add` and `Delete` are the whole macros, with
the making and the dropping of the table; `Spread` and `Expanded` are
`HASH_EXPAND_BUCKETS`, with the accounts it keeps of ineffective doublings.
`HASH_ITER` is split into its steps, and each step may delete the element it
has reached, as `res_release_all` does. `Walk` follows links from an element on,
for at most one step more than there are links, so that it has a value also where
they run in a circle. The hash function is any function into
`Hashes`. `IsOrderedMap` maps the order to the walk along `next`, what is left
of an iteration to the walk from `el`, and the answers to `HASH_FIND` of every
key: the lookups are compared in every state and need no action.

### FsCmds

Two directories: "home" holds names, each a file of some length, a link or
nothing; "away" is empty, not writable, and may be removed, also while the shell
works in it. The answers of `ls`, `realpath` and `cat` are operators of the
directories, the working directory and the number of descriptors left open by
`_read_text_file`; `cat`, `echo` and `cd` have actions. `Those` keeps, of a list
in its order, what the code does not skip. `glob` and `realpath` of
libc, links and other processes are external. `_read_text_file` compares the
number of items `fread` returns (one at most) with the size
(`jsc_file.c:243`): `Passes` is that comparison, and what does not pass stays open
(`Leaks`). The buffer may not be had: `out` are the places of a list where the
allocation fails, and there the file is closed and gives no text (line 249).
`plat_mem_allocate` takes a `uint` (`plat_mem.h:38`), and is given the size and a
byte more (line 240): `Buffer` is what is left of that. For a text of 2^32 - 1
bytes or more it is too small, `fread` writes past it, and the heap is broken, or
the process dies at once (`DoCat`) or later (`Abort`). A directory opens for
reading; where the file system lets it be sought to its end (`DirSeeks`; ext4
does) its size of 2^63 - 1 leaves a buffer of no byte, and the failed read leaves
the directory open. In a removed directory `pwd` and `cd` return an
error, which ends the shell (`Shell`), so there `DoCd` has no step.

### Shell

A text is a sequence of the marks `main` looks at; `Body` is what is handed to
`v7_exec`. Of a script that is read, only the outcome matters to the rest of the
model, and `OnlyFirstLineGoes` quantifies over all texts. `Call`, `ExecConverts`,
`Throw`, `PerformThrow` and `ExecEnds` are `v7_exec` as far as the libraries
take part in it: a C function that returns anything but `V7_OK` sends the
interpreter to `bcode_perform_throw`, which asserts a thrown value. `exec` has
`v7_stringify` convert its argument into no buffer, which it does not survive
when `toString` throws (`ExecConverts`).

### Jssh

One process. `Shell` says which script runs, `Files` where the same thread is in
a stream call, `Runs` where it is in `run` or `run_done`; exactly one of the
three is under way, while servers (`Serve`) and commands (`Command`) go on
beside it. `InScript` is the condition under which a script can call anything.
Threads other than `_httpd`, and `run_cancel`, which no library function
reaches, are left to `Runs`. `Serve` is `mg_mgr_init` with `mg_bind`: it sets the
`ignored` of `Files`. `ServerHoldsTheShell` speaks of at most `IntMax + 1`
threads: with more, the newest record may have a negative id, which `run_done`
takes for an empty table (`common.c:142`), and the shell would leave its servers.

## The runs

| Run | Shows | Bounds |
|---|---|---|
| `table_shared` | `TypeOK`, `UniqueIds`, `FreesLinked`, `IsAtomic` when any thread may name any id | 2 threads, 4 ids (`IntMax = 1`), 5 nodes, 2 live |
| `table_owned` | `OwnersKeepTheirs`, `CopiesIntoOwn`, `OwnerGetsOwn`, `MutexComesBack` when threads keep to their ids | 2 threads, 4 ids, 5 nodes, 3 live |
| `uthash` | `TypeOK`, `Fsck`, `IsOrderedMap` under every hash function | 5 elements, 4 hash values, 1 to 16 buckets, threshold 1 |
| `files` | `TypeOK`, `NumberNamesItsStream`, `OnlyOpenToLibc`, `HeldUnlessClosed`, `ClosedByItsOwn`, `NothingLost`, `Exits` | 4 ids, 5 opens, 4 live, 2 nested writestrings |
| `runs` | `TypeOK`, `RecordOutlivesThread`, `JoinsOnce`, `NoneOutlives`, `RunDoneReturns`, `SecondServerDies` | 4 ids, 4 threads |
| `jssh` | `TypeOK`, `OnlyFirstLineGoes`, `ServerHoldsTheShell`, `ServerShieldsPipes`, `Finishes` of the whole process | 2 scripts of up to 5 marks, 2 opens, 1 writestring, 2 servers |
| `pool` | `TypeOK`, `CountsOwners`, `OwnedIsLive`, `PoolIsComplete`, `AutoreleasedStays` when allocations may fail | 3 owners, 3 addresses, sizes 1 and 2 |
| `commands` | `TypeOK`, `RealpathTwice`, `LsIsInOrder`, `CdLeadsBack`, `AnswersAndCloses`, `OnlyHugeTextsOverrun` | 2 names, lengths 0 to 3, the largest uint 3, 2 descriptors, lists of up to 2 arguments, 1 failed allocation a `cat` |
| `files_impossible`, `cat_text`, `pool_leak`, `shell_throws` | the findings below | |

Why the bounds are enough. What ids do depends on the counter reaching ids in
use, on the first negative id and on the wrap. With `IntMax = 1` there are four
ids, 0, 1, -2 and -1: two creations reach the sign change, four the wrap, and
five opens go past it with old entries still in the table. In `jssh` the
streams and servers are few, as the parts have runs of their own: what is new
there is the order of their steps. Two threads give every pair of overlapping calls, and the invariants relate at most two
threads and two nodes. The proofs below remove these bounds, and those of the
other runs, for every property but the liveness properties. Three
owners give a memory that is shared by two while a third comes and goes. Two
arguments give every answer of the commands: nothing, one, more, and a stop in
between. An array comes last in a list, with one single value before it at most:
what a command does with the values of a list, it does one after the other. 0, 1
and 2 are the lengths that `Passes` tells apart, and 3, the largest uint, is one
whose buffer is cut. Five marks hold
`#!`, a mixed line end and a character after it. The hash starts from one bucket
and doubles when a bucket has one element too many, where the code starts from
32 and allows 10: only so do a few elements fill chains, double the buckets
several times and reach the second ineffective doubling, after which `noexpand`
is set; the macros use these two numbers nowhere else. Four values of the hash
function give every way in which five elements can meet in up to four buckets.

`CHECK_DEADLOCK FALSE` stands in the runs where the program ends: the process
has exited or died (`Files`, `Runs`, `Shell`, `Jssh`), or every memory has been lost to
failed extensions (`pool`, `pool_leak`).

To repeat a run, in this directory: `tlc -config Files.cfg Files`, and likewise
for each pair of a cfg and a module that PROJECT.json lists; the
proofs: `tlapm` on each module whose name ends in `_proofs` (`Jssh_proofs` takes
the theorems of `Files_proofs` and `Runs_proofs` as they are stated; run it
after them).

### Fairness

* `ResTable`: weak fairness of the steps of a thread that owns the mutex
  (`Inside`) and of its copy. Such a thread waits for nothing, so the scheduler
  of the operating system runs it. Nothing is assumed of who gets the mutex, and
  nothing is claimed about it. `MutexComesBack` needs that some id is free,
  which `MaxLive` gives: a table with 2^32 nodes does not fit in memory.
* `Files`: weak fairness of closing and uninstalling. A command that `pclose`
  waits for ends: `pclose` has closed its end of the pipe. Without that, `pclose`
  and the exit of the shell would wait with the command. The script need not end,
  and reading or writing a stream may wait for ever.
* `Runs`: weak fairness of `run_done` and of each thread. A thread that serves
  is only ended by a cancel, and `RunDoneReturns` excludes it by name: with
  `httpd` running, `jssh` does not exit. A thread that serves comes to its
  `mg_bind` in the end.
* `Jssh`: weak fairness of the end of `main` (`RunDone`, `Uninstall`, `Finish`), of
  `Serve`, and of the end of the commands that `pclose` waits for, as above. The
  scripts may run for ever: `Finishes` starts where `main` has called `run_done`.

## Findings

1. `files_impossible`: `jsc_file.c:351` calls a handle that is neither file nor
   pipe "impossible". After `last_id` wraps, `res_create` returns negative ids,
   which `common.c:214` takes for failures: the entry stays in the table zeroed,
   the FILE is lost, and uninstalling meets the handle.
2. `cat_text`: `README.md:89` to `93` shows `cat` printing what `echo` wrote;
   the swapped arguments of `fread` at `jsc_file.c:243` make it `undefined` for
   every text of two bytes or more, and leave the file open. `CatGivesText` is of
   texts whose buffer has their size, less than 2^32 - 1 bytes.
3. `pool_leak`: `plat_mgn_mem.h:88` takes an entry out of the pool before the
   allocation that may fail, so "Release all memories" (line 44) leaves it.
4. `shell_throws`: `cd` with a bad argument, `pwd` in a removed directory and
   every `exec` return an error without throwing; `v7.c:12159` asserts that they
   threw, and the shell aborts.

One more difference needs no run: `README.md:70` and `71` shows `ls(".")`
answering `["."]`; `jsc_file.c:179` answers one match as the string itself
(`Pack` in `FsCmds`).

Some more facts are part of the models as outcomes and not findings, since
nothing in the repository says otherwise: a script whose `toString` closes the
stream that is being written makes `writestring` use freed memory (`"wild"`,
bounded by `HeldUnlessClosed`); `destroy_thread` cancels a thread that was
joined already; `jssh .` reads through NULL (`ReadFails`); `exec` of an object
whose `toString` throws writes through NULL (`ExecConverts`); a second `httpd()`
ends the process (`SecondServerDies`); `cat` of a text of 2^32 - 1 bytes or more
writes past its buffer (bounded by `OnlyHugeTextsOverrun`); output left for a command that has ended
kills the shell, unless a server has made it ignore SIGPIPE
(`ServerShieldsPipes`).

## The proofs

Every theorem holds for every value of the constants that the assumption of its
module allows. TLC checked each inductive invariant below on the run of its
module before it was proved. The proof that the steps preserve it has one step
per action.

| Module | Assumes | Theorem | States |
|---|---|---|---|
| `ResTable_proofs` | `TableAssumption` | `InductiveInvariant` | `IInv` |
| | | `TypeCorrect` | `TypeOK` |
| | | `IdsAreUnique` | `UniqueIds` |
| | | `NoDoubleFree` | `FreesLinked` |
| | | `OwnersKeep` | `OwnersKeepTheirs` |
| | | `CopiesAreOwn` | `CopiesIntoOwn` |
| | | `OwnersGet` | `OwnerGetsOwn` |
| | | `TableIsAtomic` | `IsAtomic`, the refinement |
| `UtHash_proofs` | `UtHashAssumption` | `IInvHolds` | `IInv` |
| | | `TypeCorrect` | `TypeOK` |
| | | `FsckHolds` | `Fsck` |
| | | `MapIsOrdered` | `IsOrderedMap`, the refinement |
| `IdTable_proofs` | `IntMaxAssumption` | `NewIdIsFree` | `res_create` finds a free id |
| `Files_proofs` | `FilesAssumption` | `InductiveInvariant` | `IInv` |
| | | `TypeCorrect` | `TypeOK` |
| | | `NumbersNameStreams` | `NumberNamesItsStream` |
| | | `OpenGoesToLibc` | `OnlyOpenToLibc` |
| | | `HeldStayLinked` | `HeldUnlessClosed` |
| | | `MatchingClose` | `ClosedByItsOwn` |
| | | `NothingIsLost` | `NothingLost` |
| `Runs_proofs` | `RunsAssumption` | `InductiveInvariant` | `IInv` |
| | | `TypeCorrect` | `TypeOK` |
| | | `RecordsOutliveThreads` | `RecordOutlivesThread` |
| | | `EachJoinedOnce` | `JoinsOnce` |
| | | `AllAreJoined` | `NoneOutlives` |
| `Jssh_proofs` | `JsshAssumption` | `InductiveInvariant` | `IInv` |
| | | `TypeCorrect` | `TypeOK` |
| | | `PartsHold` | the `IInv` of both parts |
| | | `FirstLineGoes` | `OnlyFirstLineGoes` |
| | | `ServerHolds` | `ServerHoldsTheShell` |
| | | `ServerShields` | `ServerShieldsPipes` |
| `MgnMem_proofs` | `MgnMemAssumption` | `InductiveInvariant` | `IInv` |
| | | `TypeCorrect` | `TypeOK` |
| | | `CountsAreOwners` | `CountsOwners` |
| | | `OwnedStaysLive` | `OwnedIsLive` |
| | | `PoolLacksOnlyTheLost` | `PoolIsComplete` |
| | | `AutoreleasedOutlives` | `AutoreleasedStays` |
| `FsCmds_proofs` | `FsAssumption` | `TypeCorrect` | `TypeOK` |
| | | `AnswersLeadBack` | `CdLeadsBack` |
| | | `RealpathIsIdempotent` | `RealpathTwice` |
| | | `LsKeepsOrder` | `LsIsInOrder` |
| | | `CatAnswersAndCloses` | `AnswersAndCloses` |
| | | `OnlyHugeBreak` | `OnlyHugeTextsOverrun` |

The assumptions are that bounds are natural numbers, that ghosts are distinct
from values, that the sets of keys and of hash values of `UtHash` are a finite
set and natural numbers, and one more: a table has no more entries than there are
ids (in `ResTable`, where the search runs step by step, fewer). With 2^32 ids,
more do not fit in memory.

**ResTable.** `UniqueIds` is not inductive: `Add` links a node under an id that
some earlier step found free. `FreshId` says that it still is. That needs
`Acquired`, that the mutex belongs to exactly the thread that is in its critical
section, so that nobody linked a node in between; `StepsOK` says which function
may be at which step; `HeapOK` that linked nodes were allocated and are not
freed, and that the nodes not yet allocated are zeroed. `IInv` is the
conjunction of these with `TypeOK`, `UniqueIds` and `FreesLinked` (which
`Acquired` carries from `Find` to `Del`).

The three ownership theorems need more, `Own`, proved on top of `IInv` for tables
whose ids are not shared. Between the unlock of a creation and its return the
node belongs to no `held` set yet: `Pending` names it, and `Apart` says that
held and pending nodes of different threads differ and that a pending node is
still zeroed. A release has given its node up when it is called and frees it
later: `Wanted` says that its id still leads to a node that nobody holds, and
`Separate` that two releases under way are of different ids. Then the node that
`Del` frees and the one that `Copy` fills are nobody else's: the latter is
pending, hence linked and zeroed, which is `CopiesIntoOwn`.

**ResAtomic.** The refinement adds `Locals` to `IInv`: the node that a release
is about to free is the one under the id it was given, a call that has
found no node has none to answer, and a copy is that of a clone with an id that is
not negative. For each action of `ResTable` there is a lemma
that names the step of `ResAtomic` it is. `Add`, `Find`, `Del`, `Iter` and the
first turn of `res_release_all` decide a call (`DecidingMove`); `Acquire`, a
`Probe` of a taken id, the later turns of `Drain`, and an `Unlock` that leaves a
copy to be made are hidden (`HiddenMove`); a call and a return are themselves,
and the return of a clone is its `Copy`, the only step that changes `content`.
What the abstract table holds at an id is a `Lookup` among the linked nodes,
which is a function of the id because `UniqueIds` holds. While `Draining`, the
abstract table is empty, and `Acquired` says that nobody else looks.

**UtHash.** The invariant speaks of lists, `Fsck` and the refinement of walks.
`IsList` says that links lead through a sequence without repetition and end,
`IsBack` that the other links lead back, `TwoWay` both. `WalkIs` joins the two:
where there is such a list, `Walk` finds it and nothing else. `HasOrder` says
that the order of addition is such a list of all elements and that the tail and
the number of items fit it; `HasChains`, that the buckets are lists, each of the
elements that `ToBkt` sends there, with the count of each; `IterOK`, that
`HASH_ITER` is at an element and has the next one in hand. For TLC, which cannot
enumerate sequences, the lists were the walks themselves.

Four lemmas change a list as the macros do: `AppendList` and `PushList` put an
element at the end and in front, `RemoveList` takes one out of any place, and
`SuffixIsList` is what is left from an element on. `AddKeeps` and `UnlinkKeeps`
apply them to the order and to one bucket, and `ChainsApart` says that the other
buckets do not notice. The doubling is `SpreadTable`: `FlattenGathers` says that
the old buckets one after the other hold each element once, and by induction
over their sequence each turn of the loop leaves a table of the elements moved
so far, `PushTable`. What the code counts during the doubling decides only
`ineffective` and `noexpand`, of which the invariant needs no more than a type.

The theorems of the library about induction and recursive functions cannot be
used, so `UpTo` is induction as a statement about a set of numbers, from the
well-foundedness of `<`, and `Recursion` is the existence of a function that is
defined from its predecessor; `Pow2`, `Walk` and `Spread` rest on the two.

For the refinement, `AnswerIs` says that `HASH_FIND` of each key answers what the
order contains, `OrderIs` and `LeftIs` that the two walks of the mapping are the
lists. Then each action is one of `OrderedMap`: an addition appends, a deletion
is the removal at one place (`WithoutIs`), a step of `HASH_ITER` reaches the
first of what is left, kept or deleted.

**IdTable.** A pigeonhole argument over the cardinalities: `PlusReaches` says that the
ids that follow `last_id`, wrap included, are all ids, and fewer entries than ids
leave one of them free (`FreeIdExists`). The least of them is where the search of
`res_create` ends, so `NewId` is a free int and `LastAfter` an int.

**Files.** `Handles` says that a handle is filled in, and its number returned,
exactly when the id is not negative: that is why `"nav"` handles come from the wrap
alone and why a call that found a number found an open stream (`NamedIsOpen`).
`LinkedOpen` and `GoneClosed` tie the table to the streams in both directions,
but for the one that a close under way is working on, of which `CurrentOK` knows
how far it is. `FramesOK` says what the nested writestrings hold; `FirstTurn`,
that ids are handed out in order until the wrap, gives what holds until then:
`NothingLost`, and that the number of a closed stream finds nothing.

**Runs.** Each record is in the table or freed (`Accounted`), freed only after the
join (`FreedAfterJoin`), and all in the table but the current one were started
and not joined (`OthersStarted`). So `run_done` never joins twice, and what it
leaves when it finds no more is nothing: until the wrap, by `FirstTurn`, a
negative answer means an empty table.

**Jssh.** The parts are proved once: `Files_proofs` and `Runs_proofs` are
instantiated with the variables of `Jssh`, `SameFiles` and `SameRuns` show that
the actions `Jssh` takes are actions of the instances, and `PartsProved` cites
their lemmas under `JsshAssumption`. What the process adds is `NoneEnds`
(servers do not end, and nobody cancels them), `EndsInOrder` (streams are closed
after `run_done` was called) and `ServersIgnore` (who has a port has made the
process ignore SIGPIPE). `ServerHoldsTheShell` is inductive with these:
`run_done` can only return after a join, which waits for a server, and
`NoneOutlives` excludes that it finds the table empty.

`FirstLineGoes` needs no invariant: it is about what `Body` does with a text of
any length. `FromSuffix` says that `From` of the end of a text is a later end
of it, from the first mark in the set on; twice applied it cuts the text at the end
of the first line and at the end of the line ends.

**MgnMem.** The four properties need each other: a count is positive because the
owner that gives it up is counted, and new memory has no owner because owned
memory is live. The rest is about the cardinality of the set of holders when one
is added or taken away, and about the three operators that change an entry. For
`AutoreleasedStays`, an autorelease keeps the entry (`AutoreleaseKeeps`), no call
but the two purges takes out an entry without owners (`StepKeepsUnused`), and the
counts of zero that a purge looks for are those of no owner (`UnusedAreUnowned`).

**FsCmds.** `CdLeadsBack` follows from the type invariant and the tables of what
exists, by cases on the kind of path. It says that `cd`'s answer resolves to
itself by means of `Resolves` and `RealOf`, of which `Realpath` is made.

The next three are about lists of any length. `ThoseIs` says that filtering a
list keeps as many elements as the set has places in it, and all of it when every
element is in the set; `PackedParts` that an answer packed as nothing, a string
or an array is read out again as the same list. For `RealpathTwice`, what
`realpath` answers is real and resolves to itself, so that the second filter
drops nothing (`RealAgain`). For `AnswersAndCloses`, the places that `cat` reads
and those that it leaves open are two disjoint sets of places that it could open
(`ReadOrLeft`, `NoneBoth`); the lengths that a filter gives are their cardinalities
(`CatAnswers`). While a descriptor is left there was one
for each file (`EnoughDescriptors`), and what is no longer than a byte passes the
test (`ShortPasses`). For `LsIsInOrder`, `ls` of
two arguments packs what each pattern finds, appended. `OnlyHugeTextsOverrun` is
about one file: a size below the largest `uint` leaves room for its terminator, and
of a directory nothing is written (`OverrunIsHuge`).

What stays with TLC: `MutexComesBack`, `Exits`, `RunDoneReturns`,
`SecondServerDies` and `Finishes`, which are liveness. Every invariant, action
property and refinement that the passing runs check has its theorem.

## Not modelled

* v7, mongoose and `platform/uthash.h`. They are third-party code and make up
  about 99% of the lines of the repository (v7 and mongoose are vendored whole,
  mongoose with its examples and their SQLite), so that the models map a small
  share of the repository and nearly all of the program's own code. Of v7 and
  mongoose the models hold what a library call of this program sets off:
  `bcode_perform_throw`, `mg_mgr_init`'s SIGPIPE, the outcome of `mg_bind`.
* The other macros of `js-clib/uthash.h` (sorting, selecting, replacing, the
  Bloom filter), which nothing uses; a failing allocation in the hash calls
  `exit`.
* The bytes of streams and texts, and what `readline` answers: `jsc_file.c:495`
  overwrites whatever it read with `undefined`.
* The parameter of `run`, which `run_thread` zeroes (`common.c:65`); the only
  caller passes none.
* NULL from `plat_mem_allocate` in `common.c`, which nothing looks at.
* `sum`, which keeps no state; the log and the platform wrappers, which have
  none.
* The working directory in `Shell`: a script with a relative path that is looked
  up after an earlier one has called `cd` is one of the outcomes of `ReadFails`.

## Plan

All of the program's own state is modelled. Two abstractions would be worth adding:

1. An abstract specification of the stream handles, a map from numbers to
   streams, implemented by `Files` until `last_id` wraps, with its proof from
   the `IInv` of `Files_proofs`.
2. That a call of `IdTable` is a call of `ResAtomic` when one thread makes it,
   so that `Files` and `Runs` rest on `TableIsAtomic` by proof.
