-------------------------------- MODULE FsCmds -------------------------------
(***************************************************************************)
(* The file commands of js-clib/jsc_file.c that keep no handle: ls,        *)
(* realpath, cat, echo, cd and pwd, on two directories: "home", with files *)
(* and links in it, and "away", empty and not writable, which others may   *)
(* remove.  What the commands answer is a function of the directories, of  *)
(* the working directory and of the descriptors still free; cat, echo and  *)
(* cd also change these.                                                   *)
(*                                                                         *)
(* A text is its length.  A uint ends at UintMax, which is small here, so  *)
(* that there are texts of 2^32 - 1 bytes and more.  A JavaScript value is *)
(* a string of a path or text, an array of strings, or another.            *)
(***************************************************************************)
EXTENDS Integers, FiniteSets, SequencesExt

CONSTANTS
  MaxName,  \* bound: the names are 1 .. MaxName
  MaxLen,   \* bound: the longest text
  UintMax,  \* the largest uint
  MaxFds,   \* bound: how many files the process may have open
  DirSeeks  \* does the file system let fseek go to the end of a directory?

ASSUME FsAssumption ==
  /\ MaxName \in Nat /\ MaxLen \in Nat /\ MaxFds \in Nat
  /\ UintMax \in Nat /\ UintMax > 1
  /\ DirSeeks \in BOOLEAN

\* A path leads from a directory, or from the one the process works in, to a
\* name in it, or (Dot) to that directory.
Names  == 1 .. MaxName
Dot    == 0
Rel(x) == [from |-> "cwd", name |-> x]
Abs(x) == [from |-> "home", name |-> x]
Away   == [from |-> "away", name |-> Dot]
Here   == Rel(Dot)
Star   == Rel(-1)   \* the pattern "*"
Paths  == {Rel(x) : x \in Names \cup {Dot}} \cup {Abs(x) : x \in Names \cup {Dot}} \cup {Away}
Texts  == 0 .. MaxLen

None     == [t |-> "none"]
File(n)  == [t |-> "file", text |-> n]
Link(n)  == [t |-> "link", to |-> n]
Entries  == {None} \cup {File(n) : n \in Texts} \cup {Link(n) : n \in Names}

Str(x)    == [t |-> "string", v |-> x]
Arr(s)    == [t |-> "array", v |-> s]
Other     == [t |-> "other", v |-> << >>]
Undefined == [t |-> "undefined", v |-> << >>]

VARIABLES
  dir,    \* name -> what "home" has under it
  away,   \* is "away" there?
  cwd,    \* the working directory: "home", "away" or "gone", removed since
  leaked, \* the FILEs that _read_text_file left open
  heap    \* "ok", "broken" by a text longer than its buffer, or "dead", the process

vars == <<dir, away, cwd, leaked, heap>>

-----------------------------------------------------------------------------
(* How arguments and answers are put together. *)

\* The string that an argument is, if it is one.
String(v) == IF v.t = "string" THEN <<v.v>> ELSE << >>

DirectOnly(v) == String(v)   \* mutant: arrays are skipped
\* The strings in an argument of realpath and cat: itself, or an array's.
Strings(v) == IF v.t = "array" THEN v.v ELSE String(v)
AllStrings(args) == FlattenSeq([i \in DOMAIN args |-> Strings(args[i])])

\* Nothing found is undefined, one thing is that thing, more are an array.
Pack(s) == IF s = << >> THEN Undefined ELSE IF Len(s) = 1 THEN Str(s[1]) ELSE Arr(s)

\* The members of s that are in S, in their order.
Those(s, S) ==
  LET kept[i \in 0 .. Len(s)] ==
        IF i = 0 THEN << >> ELSE IF s[i] \in S THEN Append(kept[i - 1], s[i]) ELSE kept[i - 1]
  IN  kept[Len(s)]

\* External, the file system, for a process that works in c: what a path leads
\* to; links lead one step, to a file or nowhere.
From(c, p)  == IF p.from = "cwd" THEN c ELSE p.from
Target(n)   == IF dir[n].t = "link" THEN dir[n].to ELSE n
IsEntry(c, p) == p.name \in Names /\ From(c, p) = "home" /\ dir[p.name] # None
IsFile(c, p)  == IsEntry(c, p) /\ dir[Target(p.name)].t = "file"
IsDir(c, p)   == p.name = Dot /\ (From(c, p) = "away" => away)

-----------------------------------------------------------------------------
(* ls *)

\* External: glob on one pattern; "*" has to open the directory.
Glob(p) == IF p # Star
           THEN IF IsEntry(cwd, p) \/ IsDir(cwd, p) THEN <<p>> ELSE << >>
           ELSE IF leaked < MaxFds
                THEN Those([n \in Names |-> Rel(n)], {q \in Paths : IsEntry(cwd, q)})
                ELSE << >>

LastOnly(ss) == IF ss = << >> THEN << >> ELSE Last(ss)   \* mutant: no GLOB_APPEND
\* glob appends to the results it already has.
Appended(ss) == FlattenSeq(ss)

\* The patterns are tried in order up to the first that matches nothing.
Ls(args) ==
  LET pats == IF args = << >> THEN <<Here>> ELSE FlattenSeq([i \in DOMAIN args |-> String(args[i])])
      good == {k \in 0 .. Len(pats) : \A i \in 1 .. k : Glob(pats[i]) # << >>}
      n    == CHOOSE k \in good : \A j \in good : j <= k
  IN  Pack(Appended([i \in 1 .. n |-> Glob(pats[i])]))

-----------------------------------------------------------------------------
(* realpath *)

\* External: realpath answers an absolute path, of what is there and has one.
Resolves(c, p) == IsFile(c, p) \/ (IsDir(c, p) /\ From(c, p) # "gone")
RealOf(c, p)   == IF p.name = Dot THEN [p EXCEPT !.from = From(c, p)] ELSE Abs(Target(p.name))

Realpath(c, args) ==
  LET found == Those(AllStrings(args), {p \in Paths : Resolves(c, p)})
  IN  Pack([i \in DOMAIN found |-> RealOf(c, found[i])])

-----------------------------------------------------------------------------
(* cat and echo *)

\* External: what fopen opens and fseek goes to the end of, and the size there.
\* A directory seems huge (LONG_MAX, of which a uint keeps as much as of UintMax),
\* or empty once it was removed.
Opens(p) == IsFile(cwd, p) \/ (IsDir(cwd, p) /\ DirSeeks)
TextAt(p) == dir[Target(p.name)].text
Size(p)   == IF p.name # Dot THEN TextAt(p) ELSE IF From(cwd, p) = "gone" THEN 0 ELSE UintMax

\* _read_text_file asks fread for one item of the whole size and compares the
\* number of items it gets with the size; a file that does not pass stays open.
Items(p)   == IF p.name # Dot /\ Size(p) > 0 THEN 1 ELSE 0
Passes(p)  == Items(p) = Size(p)

\* The i-th file of a cat, when the allocations of those in out fail: without a
\* buffer it is closed, and gives no text.
NoClose(ps, out, i) == Opens(ps[i]) /\ i \notin out   \* mutant: no fclose at all
Leaks(ps, out, i) == Opens(ps[i]) /\ i \notin out /\ ~Passes(ps[i])

\* The files before the i-th that stayed open, on top of the old ones.
LeakedBefore(ps, out, i) == leaked + Cardinality({j \in 1 .. i - 1 : Leaks(ps, out, j)})
Tries(ps, out, i) == LeakedBefore(ps, out, i) < MaxFds /\ Opens(ps[i]) /\ i \notin out
Reads(ps, out, i) == Tries(ps, out, i) /\ Passes(ps[i])

\* cat counts the strings it tried; one gives the text itself, or undefined.
Cat(args, out) ==
  LET ps    == AllStrings(args)
      read  == Those([i \in DOMAIN ps |-> i], {i \in DOMAIN ps : Reads(ps, out, i)})
      texts == [k \in DOMAIN read |-> Size(ps[read[k]])]
  IN  IF Len(ps) > 1 THEN Arr(texts) ELSE Pack(texts)

\* mutant: as if there were always a descriptor
NoLimit(args, out) == LeakedBefore(AllStrings(args), out, Len(AllStrings(args)) + 1)
LeakedAfter(args, out) ==
  LET n == LeakedBefore(AllStrings(args), out, Len(AllStrings(args)) + 1)
  IN  IF n < MaxFds THEN n ELSE MaxFds

\* plat_mem_allocate takes the size, with a byte for the terminator, as a uint.
Uint(n)       == IF n <= UintMax THEN n ELSE n % (UintMax + 1)
NoTerminator(p) == Uint(Size(p))   \* mutant: no byte for it
Buffer(p)     == Uint(Size(p) + 1)
\* What is written to the buffer: nothing is read of a directory.
Written(p)    == IF Passes(p) THEN Size(p) + 1 ELSE IF p.name = Dot THEN 0 ELSE Size(p)
Overruns(ps, out) == \E i \in DOMAIN ps : Tries(ps, out, i) /\ Written(ps[i]) > Buffer(ps[i])

\* Bound: one allocation of a cat may fail.
Fails(args) == {{}} \cup {{i} : i \in DOMAIN AllStrings(args)}

\* fread past the end of the buffer stops at memory that is not there, before or
\* after it wrote over the heap, which kills the process now or later.
DoCat(args, out) ==
  /\ leaked' = LeakedAfter(args, out)
  /\ heap' \in IF Overruns(AllStrings(args), out) THEN {heap, "broken", "dead"} ELSE {heap}
  /\ UNCHANGED <<dir, away, cwd>>

\* An allocation or a free finds the heap broken.
Abort ==
  /\ heap = "broken" /\ heap' = "dead"
  /\ UNCHANGED <<dir, away, cwd, leaked>>

\* echo: fopen "wb" creates or empties the file; it does nothing, and says
\* nothing, when it cannot, or when there is no descriptor for it.
DoEcho(n, p) ==
  /\ leaked < MaxFds
  /\ p.name \in Names /\ From(cwd, p) = "home"
  /\ dir' = [dir EXCEPT ![Target(p.name)] = File(n)]
  /\ UNCHANGED <<away, cwd, leaked, heap>>

-----------------------------------------------------------------------------
(* cd and pwd *)

\* chdir, whose failure cd ignores.
Chdir(c, p) == IF IsDir(c, p) THEN From(c, p) ELSE c

\* pwd: getcwd, which a removed directory does not answer; then cd and pwd
\* return an error (module Shell).
Pwd(c) == [from |-> c, name |-> Dot]

CdArgument(c, p) == p           \* mutant: cd answers where it was told to go
CdAnswer(c, p)   == Pwd(Chdir(c, p))

DoCd(p) ==
  /\ cwd' = Chdir(cwd, p) /\ cwd' # "gone"
  /\ UNCHANGED <<dir, away, leaked, heap>>

-----------------------------------------------------------------------------
\* External: other processes remove entries and make links, none of a link.
OneStep(d) == \A m, n \in Names : d[m] = Link(n) => d[n].t # "link"
Others(n) ==
  /\ \/ dir' = [dir EXCEPT ![n] = None]
     \/ /\ dir[n] = None
        /\ \E m \in Names \ {n} : dir' = [dir EXCEPT ![n] = Link(m)]
        /\ OneStep(dir')
  /\ UNCHANGED <<away, cwd, leaked, heap>>

\* External: they remove "away", also under the shell, and make it anew.
OthersMove ==
  /\ away' = ~away
  /\ cwd' = IF cwd = "away" THEN "gone" ELSE cwd
  /\ UNCHANGED <<dir, leaked, heap>>

-----------------------------------------------------------------------------
\* The values a script may pass, and its argument lists: an array comes last, after
\* one string at most.
Singles == {Str(p) : p \in Paths \cup {Star}} \cup {Other, Arr(<< >>)}
Values  == Singles \cup {Arr(<<p, Rel(n)>>) : p \in Paths, n \in Names}
Lists   == {<< >>} \cup {<<v>> : v \in Values} \cup {<<v, w>> : v \in Singles, w \in Values}

\* jssh is started in some directory.
Init ==
  /\ dir \in {d \in [Names -> Entries] : OneStep(d)}
  /\ away \in BOOLEAN /\ cwd = "home" /\ leaked = 0 /\ heap = "ok"

Command ==
  \/ \E args \in Lists : \E out \in Fails(args) : DoCat(args, out)
  \/ \E n \in Texts, p \in Paths : DoEcho(n, p)
  \/ \E p \in Paths : DoCd(p)

Next ==
  \/ heap # "dead" /\ Command
  \/ Abort
  \/ \E n \in Names : Others(n)
  \/ OthersMove

Spec == Init /\ [][Next]_vars
-----------------------------------------------------------------------------
(* Properties. *)

\* cat never has more descriptors open than the process may have, what echo
\* writes is a file of the directory, and the shell works in a directory that is
\* there unless it was removed.
TypeOK ==
  /\ dir \in [Names -> Entries] /\ leaked \in 0 .. MaxFds /\ heap \in {"ok", "broken", "dead"}
  /\ away \in BOOLEAN /\ cwd \in {"home", "away", "gone"} /\ (cwd = "away" => away)

Cwds == {"home", "gone"} \cup IF away THEN {"away"} ELSE {}

\* What realpath answers can be given back to it, as one string or as an array,
\* and is its own real path, wherever the shell has gone meanwhile.
RealpathTwice == \A args \in Lists, c \in Cwds :
  LET real == Realpath(cwd, args) IN Realpath(c, <<real>>) = real

\* What cd and pwd answer leads back there from anywhere: also when chdir failed,
\* cd answers the directory in which names are then looked up.
CdLeadsBack == \A p \in Paths, c \in Cwds :
  Chdir(cwd, p) # "gone" =>
    /\ Chdir(c, CdAnswer(cwd, p)) = Chdir(cwd, p)
    /\ Resolves(Chdir(cwd, p), Here) /\ RealOf(Chdir(cwd, p), Here) = CdAnswer(cwd, p)

Parts(v) == IF v = Undefined THEN << >> ELSE Strings(v)
\* What ls answers to two patterns is what it answers to the first, then to the
\* second, as long as the first matches something.
LsIsInOrder == \A v, w \in Values :
  v.t = "string" /\ Glob(v.v) # << >> => Parts(Ls(<<v, w>>)) = Parts(Ls(<<v>>)) \o Parts(Ls(<<w>>))

\* The places of a cat with a file that can be opened, and memory for it.
Openable(args, out) == {i \in DOMAIN AllStrings(args) \ out : Opens(AllStrings(args)[i])}

\* Those of no byte and of one, which pass the test on what fread returns.
Short(args, out) == {i \in Openable(args, out) : Size(AllStrings(args)[i]) <= 1}

\* A file costs cat a descriptor at most, and then it is not answered: what cat
\* answers is closed, and so is what it has no memory for, however many files it is
\* given and whenever the descriptors run out.  As long as one is left, the short
\* texts are all answered, among whatever other files.
AnswersAndCloses == \A args \in Lists : \A out \in Fails(args) :
  LET answered == Len(Parts(Cat(args, out)))
      lost     == LeakedAfter(args, out) - leaked
  IN  /\ answered + lost <= Cardinality(Openable(args, out))
      /\ LeakedAfter(args, out) < MaxFds => Cardinality(Short(args, out)) <= answered

\* Only a text of 2^32 - 1 bytes or more, for which the size of its buffer is cut,
\* can break the heap: no other text, and no directory, is longer than its buffer.
OnlyHugeTextsOverrun ==
  [][heap = "ok" /\ heap' # "ok" =>
       \E n \in Names : dir[n].t = "file" /\ dir[n].text >= UintMax]_vars

\* README.md:89 to 93: after echo of a text into a file, cat answers that text (of
\* those with a buffer of their size).
CatGivesText == \A p \in Paths :
  leaked < MaxFds /\ IsFile(cwd, p) /\ TextAt(p) < UintMax => Cat(<<Str(p)>>, {}) = Str(TextAt(p))
=============================================================================
