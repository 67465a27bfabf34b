-------------------------------- MODULE Files --------------------------------
(***************************************************************************)
(* The stream handles of js-clib/jsc_file.c: fopen, popen, fclose, pclose, *)
(* readline and writestring, the table opened_files behind them, and its   *)
(* emptying when the library is uninstalled.  Scripts run on one thread,   *)
(* so a call is split only where libc may keep it waiting (reading and     *)
(* writing a stream, and pclose, which waits for the command to end) and   *)
(* where it runs script code: writestring converts each argument with its  *)
(* toString, after it has looked the handle up.                            *)
(*                                                                         *)
(* Each successful open makes one FILE and one table entry; both carry the *)
(* serial number of the open, which is also the order of the entries in    *)
(* the table.  A call that fails, or names no entry, changes nothing and   *)
(* has no action.                                                          *)
(***************************************************************************)
EXTENDS IdTable, FiniteSets, Sequences

CONSTANTS
  MaxStreams,  \* bound: how many opens a behaviour may make
  MaxLive,     \* bound: how many entries may be in the table at a time
  MaxDepth,    \* bound: how many writestring calls may be under way
  Undefined    \* JavaScript's undefined

Streams == 1 .. MaxStreams

ASSUME FilesAssumption ==
  /\ MaxStreams \in Nat
  /\ MaxLive \in Nat
  /\ MaxLive <= 2 * IntMax + 2   \* no more entries than ids: 2^32 streams never fit
  /\ MaxDepth \in Nat
  /\ Undefined \notin Ids

VARIABLES
  lastId,   \* opened_files->last_id
  made,     \* how many streams were opened
  pipes,    \* the streams that popen made
  linked,   \* the entries in the table
  idOf,     \* entry -> its id
  type,     \* entry -> handle.type: "nav" while zeroed, "file" or "pfile"
  got,      \* stream -> what the open returned to the script
  life,     \* stream -> "none", "open", "waiting" (in pclose), "fclosed", "pclosed"
  ended,    \* the popen streams whose command has ended
  dirty,    \* the streams with output that is still in their buffer
  ignored,  \* is SIGPIPE ignored?
  frames,   \* the entries that the writestring calls under way hold, innermost last
  pc,       \* where the thread is
  cur       \* the entry the call works on

table   == <<lastId, linked, idOf, type>>
streams == <<made, pipes, got, life, ended, dirty, ignored>>
vars    == <<table, streams, frames, pc, cur>>

PCs == {"script", "read", "write", "wild", "dead", "close", "release", "uninstall", "shut", "free", "exit"}

-----------------------------------------------------------------------------
\* HASH_FIND_INT: the entry under i, or NULL.
Lookup(i) == At(linked, idOf, i)

Positive(id) == id > 0          \* mutant: the first id is taken for a failure
\* The test id>=0 of res_create_and_clone and of every caller.
Valid(id) == id >= 0

\* The close that jsc_file_close makes, by the type of the handle.
AlwaysFclose(n) == IF type[n] = "nav" THEN life[n] ELSE "fclosed"  \* mutant
CloseBy(n) == IF type[n] = "file" THEN "fclosed"
              ELSE IF type[n] = "pfile" THEN "waiting" ELSE life[n]

Init ==
  /\ lastId = 0 /\ made = 0 /\ pipes = {} /\ linked = {} /\ ended = {} /\ dirty = {}
  /\ ignored \in BOOLEAN        \* as the parent process left it
  /\ idOf = [n \in Streams |-> 0]
  /\ type = [n \in Streams |-> "nav"]
  /\ got = [s \in Streams |-> Undefined]
  /\ life = [s \in Streams |-> "none"]
  /\ frames = <<>> /\ pc = "script" /\ cur = NoNode

-----------------------------------------------------------------------------
(* What a script calls. *)

\* Script code is running: the program, or a toString that writestring called.
InScript == pc = "script"

\* jsc_fopen and jsc_popen once libc gave a FILE: an entry under the next free
\* id; the handle is copied into it and its id returned only when not negative.
Open(ty) ==
  /\ InScript
  /\ made < MaxStreams
  /\ Cardinality(linked) < MaxLive
  /\ LET s == made + 1
         id == NewId(linked, idOf, lastId)
     IN  /\ made' = s
         /\ lastId' = LastAfter(linked, idOf, lastId)
         /\ linked' = linked \cup {s}
         /\ idOf' = [idOf EXCEPT ![s] = id]
         /\ type' = IF Valid(id) THEN [type EXCEPT ![s] = ty] ELSE type
         /\ got' = IF Valid(id) THEN [got EXCEPT ![s] = id] ELSE got
         /\ life' = [life EXCEPT ![s] = "open"]
         /\ pipes' = IF ty = "pfile" THEN pipes \cup {s} ELSE pipes
  /\ UNCHANGED <<ended, dirty, ignored, frames, pc, cur>>

Fopen == Open("file")
Popen == Open("pfile")

\* The head of every other call: a number that is not negative and has an entry.
Named(i) == InScript /\ Valid(i) /\ Lookup(i) # NoNode

Enter(n, p) ==
  /\ cur' = n
  /\ pc' = p
  /\ UNCHANGED <<table, streams>>

\* jsc_readline: getline on the stream.
ReadLine == \E i \in Ids : Named(i) /\ Enter(Lookup(i), "read") /\ UNCHANGED frames

\* jsc_writestring looks the handle up and keeps the pointer.
WriteString == \E i \in Ids :
  /\ Named(i)
  /\ Len(frames) < MaxDepth
  /\ frames' = Append(frames, Lookup(i))
  /\ UNCHANGED <<table, streams, pc, cur>>

Holding == frames[Len(frames)]
\* An argument is converted: fprintf to the stream in the handle.  The entry
\* may have been freed by then, and the handle is what the memory now holds.
WriteArg ==
  /\ pc = "script"
  /\ frames # <<>>
  /\ Enter(Holding, IF Holding \in linked THEN "write" ELSE "wild")
  /\ frames' \in {frames, SubSeq(frames, 1, Len(frames) - 1)}   \* was it the last one?

\* External: writing to a pipe whose command has ended kills the process, unless
\* SIGPIPE is ignored.
Broken(s) == s \in pipes \cap ended /\ ~ignored

\* getline returns.  fprintf fails, leaves its text in the buffer, or writes the
\* buffer out.  The use of a FILE that is gone returns, or is not survived.
Used ==
  /\ cur' = NoNode
  /\ \/ pc \in {"read", "write", "wild"} /\ pc' = "script" /\ UNCHANGED dirty
     \/ pc = "wild" /\ pc' = "dead" /\ UNCHANGED dirty
     \/ pc = "write" /\ pc' = "script" /\ dirty' = dirty \cup {cur}
     \/ pc = "write" /\ ~Broken(cur) /\ pc' = "script" /\ dirty' = dirty \ {cur}
     \/ pc = "write" /\ Broken(cur) /\ pc' = "dead" /\ dirty' = dirty \cup {cur}
  /\ UNCHANGED <<table, made, pipes, got, life, ended, ignored, frames>>

\* jsc_fclose and jsc_pclose, which have the same body.
CloseStream == \E i \in Ids : Named(i) /\ Enter(Lookup(i), "close") /\ UNCHANGED frames

\* The script is over: main goes on to jsc_uninstall_file_lib.
ScriptEnds ==
  /\ pc = "script"
  /\ frames = <<>>
  /\ pc' = "uninstall"
  /\ UNCHANGED <<table, streams, frames, cur>>

-----------------------------------------------------------------------------
(* Closing. *)

\* jsc_file_close: fclose is immediate, pclose closes its end of the pipe first;
\* both write the buffer out before.
FileClose(from, to) ==
  /\ pc = from
  /\ IF type[cur] # "nav" /\ cur \in dirty /\ Broken(cur)
     THEN pc' = "dead" /\ UNCHANGED <<life, dirty>>
     ELSE /\ pc' = to
          /\ life' = [life EXCEPT ![cur] = CloseBy(cur)]
          /\ dirty' = {s \in dirty : life'[s] = "open"}
  /\ UNCHANGED <<table, made, pipes, got, ended, ignored, frames, cur>>

\* pclose returns once the command has ended.
Waited == life[cur] # "waiting" \/ cur \in ended
Reaped == IF life[cur] = "waiting" THEN [life EXCEPT ![cur] = "pclosed"] ELSE life

\* res_release after the close.
Release ==
  /\ pc = "release"
  /\ Waited
  /\ life' = Reaped
  /\ linked' = Unlinked(linked, cur)
  /\ pc' = "script" /\ cur' = NoNode
  /\ UNCHANGED <<lastId, idOf, type, made, pipes, got, ended, dirty, ignored, frames>>

\* res_release_all: unlink the oldest entry, close it, free it; then the next.
TakeOldest ==
  /\ pc = "uninstall"
  /\ \E n \in linked :
       /\ \A m \in linked : n <= m
       /\ linked' = Unlinked(linked, n)
       /\ cur' = n
  /\ pc' = "shut"
  /\ UNCHANGED <<lastId, idOf, type, streams, frames>>

Free ==
  /\ pc = "free"
  /\ Waited
  /\ life' = Reaped
  /\ pc' = "uninstall" /\ cur' = NoNode
  /\ UNCHANGED <<table, made, pipes, got, ended, dirty, ignored, frames>>

Exit ==
  /\ pc = "uninstall"
  /\ linked = {}
  /\ pc' = "exit"
  /\ UNCHANGED <<table, streams, frames, cur>>

\* External: the command behind a popen stream ends, on its own or because its
\* end of the pipe is gone.
CommandEnds(s) ==
  /\ s \in pipes \ ended
  /\ pc # "dead"
  /\ ended' = ended \cup {s}
  /\ UNCHANGED <<table, made, pipes, got, life, dirty, ignored, frames, pc, cur>>

-----------------------------------------------------------------------------
Closing == FileClose("close", "release") \/ Release
Uninstall == TakeOldest \/ FileClose("shut", "free") \/ Free \/ Exit

Next ==
  \/ Fopen \/ Popen \/ ReadLine \/ WriteString \/ WriteArg \/ Used
  \/ CloseStream \/ Closing
  \/ ScriptEnds \/ Uninstall
  \/ \E s \in Streams : CommandEnds(s)

\* The thread closes what it can; it may wait for ever for input.  A command ends
\* once pclose has closed its pipe.
Fairness ==
  /\ WF_vars(Closing) /\ WF_vars(Uninstall)
  /\ \A s \in Streams : WF_vars(life[s] = "waiting" /\ CommandEnds(s))

Spec == Init /\ [][Next]_vars
FairSpec == Spec /\ Fairness
-----------------------------------------------------------------------------
(* Properties. *)

\* Every variable keeps its range: last_id stays an int, and writestring calls
\* nest no deeper than the bound.
TypeOK ==
  /\ lastId \in Ids
  /\ made \in 0 .. MaxStreams
  /\ pipes \in SUBSET Streams
  /\ linked \in SUBSET Streams
  /\ idOf \in [Streams -> Ids]
  /\ type \in [Streams -> {"nav", "file", "pfile"}]
  /\ got \in [Streams -> Ids \cup {Undefined}]
  /\ life \in [Streams -> {"none", "open", "waiting", "fclosed", "pclosed"}]
  /\ ended \in SUBSET Streams
  /\ dirty \in SUBSET Streams
  /\ ignored \in BOOLEAN
  /\ frames \in Seq(Streams) /\ Len(frames) <= MaxDepth
  /\ pc \in PCs
  /\ cur \in Streams \cup {NoNode}

\* No id was handed out twice yet.
BeforeWrap == made <= IntMax + 1

\* While the script runs, the number it was given for an open stream names that
\* stream in the table, however often the ids have wrapped; and until they wrap it
\* names nothing else, so that a script that goes on using the number of a stream it
\* closed cannot reach one that was opened later.
NumberNamesItsStream == \A s \in Streams :
  /\ life[s] = "open" /\ got[s] # Undefined /\ pc \in {"script", "read", "write", "wild", "close"}
       => Lookup(got[s]) = s
  /\ BeforeWrap /\ s <= made => \A n \in linked : idOf[n] = got[s] => n = s

\* getline, fprintf, fclose and pclose are given an open FILE, never one that was
\* closed before or the null pointer of a zeroed handle; only a writestring whose
\* entry was freed under it ("wild") may do otherwise.
OnlyOpenToLibc ==
  /\ pc \in {"read", "write", "close"} => life[cur] = "open" /\ type[cur] # "nav"
  /\ pc = "shut" => life[cur] = "open"

\* And that happens only if a toString closed the very stream being written: the
\* entries that the writestring calls under way hold are live otherwise.
HeldUnlessClosed == \A k \in 1 .. Len(frames) :
  frames[k] \notin linked => life[frames[k]] \in {"fclosed", "pclosed"}

\* A stream is closed by the function that matches how it was opened,
\* whichever of fclose and pclose the script called.
ClosedByItsOwn == \A s \in Streams :
  /\ life[s] = "fclosed" => s \notin pipes
  /\ life[s] \in {"waiting", "pclosed"} => s \in pipes

\* Until last_id wraps no stream is lost: the script can name every open one,
\* and at exit all are closed.
NothingLost == BeforeWrap => \A s \in 1 .. made :
  /\ life[s] = "open" => got[s] # Undefined
  /\ pc = "exit" => life[s] \in {"fclosed", "pclosed"}

\* The shell exits once the script is over, if the commands it waits for end; only
\* output for a command that has ended can kill it on the way.
Exits == pc = "uninstall" ~> pc = "exit" \/ \E s \in dirty : pc = "dead" /\ Broken(s)

\* jsc_file.c:351 calls a handle that is neither a file nor a pipe impossible.
HandleHasType == pc \in {"close", "shut"} => type[cur] # "nav"
=============================================================================
