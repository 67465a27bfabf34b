----------------------------- MODULE Files_proofs ----------------------------
(***************************************************************************)
(* Proofs about Files: the numbers of open streams name them, libc is      *)
(* given open streams only, each is closed by the function that matches    *)
(* it, and none is lost or reached by a stale number until last_id wraps;  *)
(* for any number of streams and of nested calls and any width of the ids. *)
(***************************************************************************)
EXTENDS Files, IdTable_proofs, SequenceTheorems

Closed == {"fclosed", "pclosed"}

\* The inductive invariant.  Streams are numbered as they are opened.
Numbered ==
  /\ linked \subseteq 1 .. made
  /\ pipes \subseteq 1 .. made
  /\ \A s \in Streams : s > made => type[s] = "nav" /\ life[s] = "none" /\ got[s] = Undefined
UniqueIds == \A n, m \in linked : idOf[n] = idOf[m] => n = m
\* A handle is filled in, and its number returned, exactly when that is not negative.
Handles == \A s \in 1 .. made :
  IF Valid(idOf[s])
  THEN got[s] = idOf[s] /\ type[s] # "nav"
  ELSE got[s] = Undefined /\ type[s] = "nav"
Kinds == \A s \in Streams : /\ type[s] = "file" => s \notin pipes
                            /\ type[s] = "pfile" => s \in pipes
\* Until last_id wraps the ids are handed out in their order.
FirstTurn ==
  /\ BeforeWrap => \A s \in 1 .. made : idOf[s] = s - 1
  /\ made <= IntMax => lastId = made
\* An entry is in the table as long as its stream is open; later only while
\* pclose waits.  Only a zeroed handle leaves the table unclosed.
LinkedOpen == \A n \in linked : life[n] = "open" \/ (n = cur /\ pc = "release")
GoneClosed == pc # "dead" => \A s \in 1 .. made :
  s \in linked \/ type[s] = "nav" \/ life[s] \in Closed \/ (s = cur /\ pc \in {"shut", "free"})
\* What a call has done so far with the entry it works on.
CurrentOK ==
  /\ pc \in {"read", "write", "close"} => cur \in linked /\ life[cur] = "open" /\ type[cur] # "nav"
  /\ pc = "release" => cur \in linked /\ life[cur] \in {"waiting", "fclosed"}
  /\ pc \in {"shut", "free"} => cur \in 1 .. made /\ cur \notin linked
  /\ pc = "shut" => life[cur] = "open"
  /\ pc = "free" => (type[cur] = "nav" \/ life[cur] \in {"waiting", "fclosed"})
  /\ pc = "exit" => linked = {}
\* writestring holds entries with a filled-in handle, and is over at exit.
FramesOK ==
  /\ \A k \in 1 .. Len(frames) : frames[k] \in 1 .. made /\ type[frames[k]] # "nav"
  /\ pc \in {"uninstall", "shut", "free", "exit"} => frames = <<>>

IInv ==
  /\ TypeOK /\ Numbered /\ UniqueIds /\ Handles /\ Kinds /\ FirstTurn /\ LinkedOpen
  /\ GoneClosed /\ CurrentOK /\ FramesOK /\ HeldUnlessClosed /\ ClosedByItsOwn

-----------------------------------------------------------------------------
\* Initially nothing is open.
LEMMA InitIInv == Init => IInv
<1> SUFFICES ASSUME Init PROVE IInv
  OBVIOUS
<1> USE DEF Init
<1>1. TypeOK
  <2>1. 0 \in Ids
    BY IntMaxAssumption DEF Ids
  <2>2. made \in 0 .. MaxStreams /\ frames \in Seq(Streams) /\ Len(frames) <= MaxDepth
    BY FilesAssumption
  <2>3. QED
    BY <2>1, <2>2, Zenon DEF TypeOK, PCs
<1>2. Numbered /\ UniqueIds /\ Handles /\ FirstTurn /\ GoneClosed
  BY IntMaxAssumption DEF Numbered, UniqueIds, Handles, FirstTurn, GoneClosed
<1>3. FramesOK /\ HeldUnlessClosed
  BY DEF FramesOK, HeldUnlessClosed
<1>4. QED
  BY <1>1, <1>2, <1>3 DEF IInv, Kinds, LinkedOpen, CurrentOK, ClosedByItsOwn

\* The streams made so far are within the bound.
LEMMA MadeAreStreams == TypeOK => 1 .. made \subseteq Streams
BY FilesAssumption DEF TypeOK, Streams

\* The handle that a call finds under a number: linked, filled in and open.
LEMMA NamedIsOpen ==
  ASSUME IInv, NEW i, Named(i)
  PROVE  /\ Lookup(i) \in linked /\ Lookup(i) \in Streams /\ Lookup(i) \in 1 .. made
         /\ type[Lookup(i)] # "nav" /\ life[Lookup(i)] = "open"
<1> USE DEF IInv
<1>1. NoNode \notin linked
  BY DEF Numbered, NoNode
<1>2. Lookup(i) \in linked /\ idOf[Lookup(i)] = i
  BY <1>1, AtFinds DEF Named, Lookup
<1>3. QED
  BY <1>2 DEF Named, InScript, Numbered, Handles, LinkedOpen, TypeOK

\* What a step leaves that touches neither the table nor what is open.
LEMMA TableStands ==
  IInv /\ UNCHANGED <<table, made, pipes, got, life>> =>
    (Numbered /\ UniqueIds /\ Handles /\ Kinds /\ FirstTurn /\ ClosedByItsOwn)'
BY DEF IInv, table, Numbered, UniqueIds, Handles, Kinds, FirstTurn, BeforeWrap, ClosedByItsOwn

\* A call that goes on to work on the entry it found.
LEMMA EnterStep ==
  ASSUME IInv, NEW i \in Ids, Named(i), NEW p \in {"read", "close"}, Enter(Lookup(i), p), UNCHANGED frames
  PROVE  IInv'
<1> USE DEF IInv
<1>1. /\ pc = "script" /\ pc' = p /\ cur' = Lookup(i) /\ UNCHANGED frames
      /\ UNCHANGED <<lastId, linked, idOf, type, made, pipes, got, life, ended, dirty, ignored>>
  BY DEF Named, InScript, Enter, table, streams
<1>2. TypeOK'
  BY <1>1, NamedIsOpen DEF TypeOK, PCs
<1>3. LinkedOpen' /\ GoneClosed' /\ CurrentOK'
  BY <1>1, NamedIsOpen DEF LinkedOpen, GoneClosed, CurrentOK
<1>4. FramesOK' /\ HeldUnlessClosed'
  BY <1>1 DEF FramesOK, HeldUnlessClosed
<1>5. QED
  BY <1>1, <1>2, <1>3, <1>4, TableStands DEF table

\* Steps that only move the thread: the table and the streams stay.
LEMMA MoveStep ==
  IInv /\ (ReadLine \/ CloseStream \/ ScriptEnds \/ Exit) => IInv'
<1> USE DEF IInv
<1>1. ASSUME IInv, ReadLine PROVE IInv'
  <2>1. PICK i \in Ids : Named(i) /\ Enter(Lookup(i), "read") /\ UNCHANGED frames
    BY <1>1 DEF ReadLine
  <2>2. QED
    BY <1>1, <2>1, EnterStep DEF PCs, Named, InScript
<1>2. ASSUME IInv, CloseStream PROVE IInv'
  <2>1. PICK i \in Ids : Named(i) /\ Enter(Lookup(i), "close") /\ UNCHANGED frames
    BY <1>2 DEF CloseStream
  <2>2. QED
    BY <1>2, <2>1, EnterStep DEF PCs, Named, InScript
<1>3. ASSUME IInv, ScriptEnds PROVE IInv'
  BY <1>3 DEF ScriptEnds, table, streams, TypeOK, PCs, Numbered, UniqueIds,
     Handles, Kinds, FirstTurn, BeforeWrap, LinkedOpen, GoneClosed, CurrentOK, FramesOK, HeldUnlessClosed, ClosedByItsOwn
<1>4. ASSUME IInv, Exit PROVE IInv'
  BY <1>4 DEF Exit, table, streams, TypeOK, PCs, Numbered, UniqueIds,
     Handles, Kinds, FirstTurn, BeforeWrap, LinkedOpen, GoneClosed, CurrentOK, FramesOK, HeldUnlessClosed, ClosedByItsOwn
<1>5. QED
  BY <1>1, <1>2, <1>3, <1>4

\* The entries that are left when the innermost call of writestring is over.
LEMMA Shorter ==
  ASSUME NEW S, NEW q \in Seq(S), q # <<>>
  PROVE  /\ SubSeq(q, 1, Len(q) - 1) \in Seq(S)
         /\ Len(SubSeq(q, 1, Len(q) - 1)) = Len(q) - 1
         /\ \A k \in 1 .. Len(q) - 1 : SubSeq(q, 1, Len(q) - 1)[k] = q[k]
<1>1. Len(q) \in Nat /\ Len(q) > 0 /\ \A k \in 1 .. Len(q) : q[k] \in S
  BY EmptySeq, LenProperties, ElementOfSeq
<1> DEFINE n == Len(q) - 1
<1>2. 1 \in Int /\ n \in Int /\ \A i \in 1 .. n : q[i] \in S
  BY <1>1
<1>3. /\ SubSeq(q, 1, n) \in Seq(S)
      /\ Len(SubSeq(q, 1, n)) = IF 1 <= n THEN n - 1 + 1 ELSE 0
      /\ \A i \in 1 .. n - 1 + 1 : SubSeq(q, 1, n)[i] = q[1 + i - 1]
  <2> HIDE DEF n
  <2> QED  BY <1>2, SubSeqProperties
<1>4. \A k \in 1 .. n : k \in 1 .. n - 1 + 1 /\ 1 + k - 1 = k
  BY <1>1
<1>5. Len(SubSeq(q, 1, n)) = n
  <2>1. n \in Nat
    BY <1>1
  <2> HIDE DEF n
  <2>2. CASE 1 <= n
    BY <1>3, <2>1, <2>2
  <2>3. CASE ~(1 <= n)
    BY <1>3, <2>1, <2>3
  <2>4. QED  BY <2>2, <2>3
<1>6. \A k \in 1 .. n : SubSeq(q, 1, n)[k] = q[k]
  <2> HIDE DEF n
  <2> TAKE k \in 1 .. n
  <2>1. SubSeq(q, 1, n)[k] = q[1 + k - 1]
    BY <1>3, <1>4
  <2>2. QED  BY <1>4, <2>1
<1>7. QED
  BY <1>3, <1>5, <1>6

\* writestring takes an entry and, an argument at a time, writes to it.
LEMMA WriteStep == IInv /\ (WriteString \/ WriteArg) => IInv'
<1> USE DEF IInv
<1>1. ASSUME IInv, WriteString PROVE IInv'
  <2>1. PICK i \in Ids : /\ Named(i) /\ Len(frames) < MaxDepth
                         /\ frames' = Append(frames, Lookup(i))
                         /\ UNCHANGED <<table, streams, pc, cur>>
    BY <1>1 DEF WriteString
  <2> DEFINE n == Lookup(i)
  <2>2. n \in linked /\ n \in Streams /\ n \in 1 .. made /\ type[n] # "nav" /\ pc = "script"
    BY <1>1, <2>1, NamedIsOpen DEF Named, InScript
  <2>3. frames \in Seq(Streams) /\ Len(frames) \in Nat
    BY <1>1, LenProperties DEF TypeOK
  <2>4. /\ frames' \in Seq(Streams) /\ Len(frames') = Len(frames) + 1
        /\ \A k \in 1 .. Len(frames) : frames'[k] = frames[k]
        /\ frames'[Len(frames) + 1] = n
    BY <2>1, <2>2, <2>3, AppendProperties
  <2> HIDE DEF n
  <2>5. TypeOK'
    BY <1>1, <2>1, <2>3, <2>4, FilesAssumption DEF TypeOK, table, streams
  <2>6. FramesOK' /\ HeldUnlessClosed'
    BY <1>1, <2>1, <2>2, <2>3, <2>4 DEF FramesOK, HeldUnlessClosed, table, streams
  <2>7. LinkedOpen' /\ GoneClosed' /\ CurrentOK'
    BY <1>1, <2>1 DEF LinkedOpen, GoneClosed, CurrentOK, table, streams
  <2>8. QED
    BY <1>1, <2>1, <2>5, <2>6, <2>7, TableStands DEF table, streams
<1>2. ASSUME IInv, WriteArg PROVE IInv'
  <2>1. /\ pc = "script" /\ frames # <<>> /\ cur' = Holding
        /\ pc' = IF Holding \in linked THEN "write" ELSE "wild"
        /\ frames' \in {frames, SubSeq(frames, 1, Len(frames) - 1)}
        /\ UNCHANGED <<lastId, linked, idOf, type, made, pipes, got, life, ended, dirty, ignored>>
    BY <1>2 DEF WriteArg, Enter, table, streams
  <2>2. frames \in Seq(Streams) /\ Len(frames) \in Nat /\ Len(frames) > 0
    BY <1>2, <2>1, LenProperties, EmptySeq DEF TypeOK
  <2>3. Holding \in Streams /\ Holding \in 1 .. made /\ type[Holding] # "nav"
    BY <1>2, <2>2, ElementOfSeq DEF Holding, FramesOK
  <2>4. /\ frames' \in Seq(Streams) /\ Len(frames') \in Nat /\ Len(frames') <= Len(frames)
        /\ \A k \in 1 .. Len(frames') : k \in 1 .. Len(frames) /\ frames'[k] = frames[k]
    BY <2>1, <2>2, Shorter
  <2>5. TypeOK'
    BY <1>2, <2>1, <2>2, <2>3, <2>4, FilesAssumption DEF TypeOK, PCs
  <2>6. FramesOK' /\ HeldUnlessClosed'
    BY <1>2, <2>1, <2>4 DEF FramesOK, HeldUnlessClosed
  <2>7. LinkedOpen' /\ GoneClosed' /\ CurrentOK'
    BY <1>2, <2>1, <2>3 DEF LinkedOpen, GoneClosed, CurrentOK
  <2>8. QED
    BY <1>2, <2>1, <2>5, <2>6, <2>7, TableStands DEF table
<1>3. QED
  BY <1>1, <1>2

\* getline and fprintf return, and a command may end, at any time.
LEMMA UsedStep == IInv /\ (Used \/ \E s \in Streams : CommandEnds(s)) => IInv'
<1> USE DEF IInv
<1>1. ASSUME IInv, Used PROVE IInv'
  <2>1. /\ pc \in {"read", "write", "wild"} /\ pc' \in {"script", "dead"} /\ cur' = NoNode
        /\ dirty' \in {dirty, dirty \cup {cur}, dirty \ {cur}} /\ (pc # "write" => dirty' = dirty)
        /\ UNCHANGED <<lastId, linked, idOf, type, made, pipes, got, life, ended, ignored, frames>>
    BY <1>1 DEF Used, table
  <2>2. dirty' \in SUBSET Streams
    BY <1>1, <2>1 DEF CurrentOK, TypeOK
  <2>3. TypeOK'
    BY <1>1, <2>1, <2>2 DEF TypeOK, PCs
  <2>4. FramesOK' /\ HeldUnlessClosed'
    BY <1>1, <2>1 DEF FramesOK, HeldUnlessClosed
  <2>5. LinkedOpen' /\ GoneClosed' /\ CurrentOK'
    BY <1>1, <2>1 DEF LinkedOpen, GoneClosed, CurrentOK
  <2>6. QED
    BY <1>1, <2>1, <2>3, <2>4, <2>5, TableStands DEF table
<1>2. ASSUME IInv, NEW s \in Streams, CommandEnds(s) PROVE IInv'
  <2>1. /\ ended' \in SUBSET Streams
        /\ UNCHANGED <<lastId, linked, idOf, type, made, pipes, got, life, dirty, ignored, frames, pc, cur>>
    BY <1>2 DEF CommandEnds, table, TypeOK
  <2>2. TypeOK' /\ FramesOK' /\ HeldUnlessClosed' /\ LinkedOpen' /\ GoneClosed' /\ CurrentOK'
    BY <1>2, <2>1 DEF TypeOK, FramesOK, HeldUnlessClosed, LinkedOpen, GoneClosed, CurrentOK
  <2>3. QED
    BY <1>2, <2>1, <2>2, TableStands DEF table
<1>3. QED
  BY <1>1, <1>2

\* res_create_and_clone: the new entry has a free id, and its handle is filled in
\* and its number returned together.
LEMMA OpenStep == ASSUME IInv, NEW ty \in {"file", "pfile"}, Open(ty) PROVE IInv'
<1> USE DEF IInv
<1> DEFINE n == made + 1
           id == NewId(linked, idOf, lastId)
<1>1. /\ pc = "script" /\ made < MaxStreams /\ Cardinality(linked) < MaxLive
      /\ made' = n /\ linked' = linked \cup {n}
      /\ idOf' = [idOf EXCEPT ![n] = id]
      /\ lastId' = LastAfter(linked, idOf, lastId)
      /\ type' = IF Valid(id) THEN [type EXCEPT ![n] = ty] ELSE type
      /\ got' = IF Valid(id) THEN [got EXCEPT ![n] = id] ELSE got
      /\ life' = [life EXCEPT ![n] = "open"]
      /\ pipes' = IF ty = "pfile" THEN pipes \cup {n} ELSE pipes
      /\ UNCHANGED <<ended, dirty, ignored, frames, pc, cur>>
  BY DEF Open, InScript
<1>2. /\ made \in Nat /\ n \in Streams /\ n \in 1 .. n /\ n > made /\ 1 .. n = 1 .. made \cup {n}
      /\ n \notin linked /\ n \notin pipes /\ type[n] = "nav" /\ got[n] = Undefined /\ n \notin 1 .. made
  BY <1>1, FilesAssumption DEF TypeOK, Numbered, Streams
<1>3. IsFiniteSet(linked) /\ Cardinality(linked) < 2 * IntMax + 2
  <2>1. IsFiniteSet(linked) /\ Cardinality(linked) \in 0 .. made
    BY <1>2, NodesCount DEF Numbered
  <2>2. QED
    BY <1>1, <2>1, FilesAssumption, IntMaxAssumption
<1>4. id \in Ids /\ IsFree(linked, idOf, id) /\ lastId' \in Ids
  BY <1>1, <1>3, NewIdIsFree DEF TypeOK
<1> HIDE DEF id
<1>5. /\ idOf' \in [Streams -> Ids] /\ idOf'[n] = id /\ \A s \in 1 .. made : idOf'[s] = idOf[s]
      /\ life' \in [Streams -> {"none", "open", "waiting", "fclosed", "pclosed"}]
      /\ life'[n] = "open" /\ \A s \in Streams \ {n} : life'[s] = life[s]
      /\ type' \in [Streams -> {"nav", "file", "pfile"}]
      /\ type'[n] = (IF Valid(id) THEN ty ELSE "nav") /\ \A s \in Streams \ {n} : type'[s] = type[s]
  BY <1>1, <1>2, <1>4 DEF TypeOK, Streams
<1>6. /\ got' \in [Streams -> Ids \cup {Undefined}]
      /\ (Valid(id) => got'[n] = id) /\ (~Valid(id) => got'[n] = got[n])
      /\ \A s \in 1 .. made : got'[s] = got[s]
  BY <1>1, <1>2, <1>4 DEF TypeOK
<1>7. 1 .. made \subseteq Streams \ {n}
  BY <1>1, <1>2, FilesAssumption DEF Streams
<1>8. TypeOK'
  BY <1>1, <1>2, <1>4, <1>5, <1>6, FilesAssumption DEF TypeOK
<1>9. Numbered'
  BY <1>1, <1>2, <1>5 DEF Numbered, Streams
<1>10. UniqueIds'
  BY <1>1, <1>2, <1>4, <1>5 DEF UniqueIds, IsFree, Numbered
<1>11. Handles'
  BY <1>1, <1>2, <1>5, <1>6, <1>7 DEF Handles
<1>12. Kinds'
  BY <1>1, <1>2, <1>5 DEF Kinds
<1>13. FirstTurn'
  <2>1. CASE made <= IntMax
    <3>1. IsFree(linked, idOf, lastId)
      BY <1>2, <2>1, IntMaxAssumption DEF IsFree, FirstTurn, BeforeWrap, Numbered
    <3>2. id = made /\ lastId' = Plus(made, 1)
      BY <1>1, <2>1, <3>1, NewIdIsNext DEF FirstTurn, TypeOK, id
    <3>3. made + 1 <= IntMax => lastId' = made + 1
      BY <1>2, <3>2, IntMaxAssumption DEF Plus
    <3>4. \A s \in 1 .. made' : idOf'[s] = s - 1
      BY <1>1, <1>2, <1>5, <2>1, <3>2, IntMaxAssumption DEF FirstTurn, BeforeWrap
    <3>5. QED
      BY <1>1, <3>3, <3>4 DEF FirstTurn
  <2>2. CASE made > IntMax
    BY <1>1, <1>2, <2>2, IntMaxAssumption DEF FirstTurn, BeforeWrap
  <2>3. QED
    BY <1>2, <2>1, <2>2, IntMaxAssumption
<1>14. LinkedOpen' /\ GoneClosed'
  BY <1>1, <1>2, <1>5, <1>7 DEF LinkedOpen, GoneClosed, Numbered
<1>15. CurrentOK' /\ ClosedByItsOwn'
  BY <1>1, <1>2, <1>5 DEF CurrentOK, ClosedByItsOwn
<1>16. FramesOK' /\ HeldUnlessClosed'
  BY <1>1, <1>2, <1>5, <1>7 DEF FramesOK, HeldUnlessClosed
<1>17. QED
  BY <1>8, <1>9, <1>10, <1>11, <1>12, <1>13, <1>14, <1>15, <1>16

\* jsc_file_close gives an open stream to the close that matches its type, once.
LEMMA FileCloseStep ==
  ASSUME IInv, NEW from, NEW to, <<from, to>> \in {<<"close", "release">>, <<"shut", "free">>},
         FileClose(from, to)
  PROVE  IInv'
<1> USE DEF IInv
<1>1. /\ pc = from
      /\ \/ from = "close" /\ to = "release"
         \/ from = "shut" /\ to = "free"
      /\ UNCHANGED <<lastId, linked, idOf, type, made, pipes, got, ended, ignored, frames, cur>>
  BY DEF FileClose, table
<1>2. cur \in 1 .. made /\ cur \in Streams /\ life[cur] = "open"
  <2>1. cur \in 1 .. made /\ life[cur] = "open"
    BY <1>1 DEF CurrentOK, Numbered
  <2>2. QED
    BY <2>1, MadeAreStreams
<1>3. CASE pc' = "dead" /\ UNCHANGED <<life, dirty>>
  <2>1. TypeOK' /\ LinkedOpen' /\ GoneClosed' /\ CurrentOK'
    BY <1>1, <1>3 DEF TypeOK, PCs, LinkedOpen, GoneClosed, CurrentOK
  <2>2. FramesOK' /\ HeldUnlessClosed'
    BY <1>1, <1>3 DEF FramesOK, HeldUnlessClosed
  <2>3. QED
    BY <1>1, <1>3, <2>1, <2>2, TableStands DEF table
<1>4. CASE /\ pc' = to
           /\ life' = [life EXCEPT ![cur] = CloseBy(cur)]
           /\ dirty' = {s \in dirty : life'[s] = "open"}
  <2>1. /\ life' \in [Streams -> {"none", "open", "waiting", "fclosed", "pclosed"}]
        /\ life'[cur] = CloseBy(cur)
        /\ \A s \in Streams \ {cur} : life'[s] = life[s]
    BY <1>2, <1>4 DEF TypeOK, CloseBy
  <2>2. /\ type[cur] = "nav" => life'[cur] = "open"
        /\ type[cur] = "file" => life'[cur] = "fclosed"
        /\ type[cur] = "pfile" => life'[cur] = "waiting"
        /\ type[cur] \in {"nav", "file", "pfile"}
    BY <1>2, <2>1 DEF CloseBy, TypeOK
  <2>3. dirty' \in SUBSET Streams
    BY <1>4 DEF TypeOK
  <2>4. TypeOK'
    BY <1>1, <1>4, <2>1, <2>3 DEF TypeOK, PCs
  <2>5. Numbered' /\ ClosedByItsOwn'
    BY <1>1, <1>2, <2>1, <2>2 DEF Numbered, ClosedByItsOwn, Kinds, Streams, TypeOK
  <2>6. UniqueIds' /\ Handles' /\ Kinds' /\ FirstTurn'
    BY <1>1 DEF UniqueIds, Handles, Kinds, FirstTurn, BeforeWrap
  <2>7. LinkedOpen'
    BY <1>1, <1>4, <2>1 DEF LinkedOpen, TypeOK, CurrentOK, GoneClosed
  <2>8. GoneClosed'
    BY <1>1, <1>4, <2>1, <2>2 DEF GoneClosed, TypeOK, Streams, CurrentOK
  <2>9. CurrentOK'
    BY <1>1, <1>2, <1>4, <2>2 DEF CurrentOK
  <2>10. FramesOK' /\ HeldUnlessClosed'
    BY <1>1, <1>2, <1>4, <2>1 DEF FramesOK, HeldUnlessClosed, TypeOK, Streams, CurrentOK
  <2>11. QED
    BY <2>4, <2>5, <2>6, <2>7, <2>8, <2>9, <2>10
<1>5. QED
  BY <1>3, <1>4 DEF FileClose

\* What pclose leaves once it has returned.
LEMMA ReapedIs ==
  ASSUME IInv, cur \in Streams, life' = Reaped
  PROVE  /\ life' \in [Streams -> {"none", "open", "waiting", "fclosed", "pclosed"}]
         /\ life'[cur] = IF life[cur] = "waiting" THEN "pclosed" ELSE life[cur]
         /\ \A s \in Streams \ {cur} : life'[s] = life[s]
BY DEF Reaped, IInv, TypeOK

\* res_release after jsc_file_close: the stream is closed before its entry goes.
LEMMA ReleaseStep == IInv /\ Release => IInv'
<1> SUFFICES ASSUME IInv, Release PROVE IInv'
  OBVIOUS
<1> USE DEF IInv
<1>1. /\ pc = "release" /\ pc' = "script" /\ cur' = NoNode
      /\ life' = Reaped /\ linked' = linked \ {cur}
      /\ UNCHANGED <<lastId, idOf, type, made, pipes, got, ended, dirty, ignored, frames>>
  BY DEF Release, Unlinked
<1>2. cur \in linked /\ cur \in Streams /\ cur \in 1 .. made /\ life[cur] \in {"waiting", "fclosed"}
  BY <1>1 DEF CurrentOK, Numbered, TypeOK
<1>3. /\ life' \in [Streams -> {"none", "open", "waiting", "fclosed", "pclosed"}]
      /\ life'[cur] \in Closed
      /\ life[cur] = "fclosed" => life'[cur] = "fclosed"
      /\ life[cur] = "waiting" => life'[cur] = "pclosed"
      /\ \A s \in Streams \ {cur} : life'[s] = life[s]
  BY <1>1, <1>2, ReapedIs DEF Closed
<1>4. TypeOK'
  BY <1>1, <1>3 DEF TypeOK, PCs
<1>5. Numbered' /\ ClosedByItsOwn'
  BY <1>1, <1>2, <1>3 DEF Numbered, ClosedByItsOwn, Streams, TypeOK
<1>6. UniqueIds' /\ Handles' /\ Kinds' /\ FirstTurn'
  BY <1>1 DEF UniqueIds, Handles, Kinds, FirstTurn, BeforeWrap
<1>7. CurrentOK' /\ LinkedOpen'
  BY <1>1, <1>2, <1>3 DEF LinkedOpen, CurrentOK, TypeOK
<1>8. GoneClosed'
  BY <1>1, <1>2, <1>3, MadeAreStreams DEF GoneClosed
<1>9. FramesOK'
  BY <1>1 DEF FramesOK
<1>10. HeldUnlessClosed'
  <2> SUFFICES ASSUME NEW k \in 1 .. Len(frames), frames[k] \notin linked'
               PROVE  life'[frames[k]] \in Closed
    BY <1>1 DEF HeldUnlessClosed, Closed
  <2>1. frames[k] \in Streams
    BY MadeAreStreams DEF FramesOK
  <2>2. CASE frames[k] = cur
    BY <1>3, <2>2
  <2>3. CASE frames[k] # cur
    BY <1>1, <1>3, <2>1, <2>3 DEF HeldUnlessClosed, Closed
  <2>4. QED
    BY <2>2, <2>3
<1>11. QED
  BY <1>4, <1>5, <1>6, <1>7, <1>8, <1>9, <1>10

\* res_release_all: no writestring is under way; an entry is unlinked, its stream
\* closed, its memory freed.
LEMMA UninstallStep == IInv /\ (TakeOldest \/ Free) => IInv'
<1> USE DEF IInv
<1>1. ASSUME IInv, TakeOldest PROVE IInv'
  <2>1. PICK n \in linked : linked' = linked \ {n} /\ cur' = n
    BY <1>1 DEF TakeOldest, Unlinked
  <2>2. /\ pc = "uninstall" /\ pc' = "shut"
        /\ UNCHANGED <<lastId, idOf, type, made, pipes, got, life, ended, dirty, ignored, frames>>
    BY <1>1 DEF TakeOldest, streams
  <2>3. n \in Streams /\ n \in 1 .. made /\ life[n] = "open"
    BY <1>1, <2>2 DEF TypeOK, Numbered, LinkedOpen
  <2>4. TypeOK'
    BY <1>1, <2>1, <2>2, <2>3 DEF TypeOK, PCs
  <2>5. Numbered' /\ UniqueIds' /\ Handles' /\ Kinds' /\ FirstTurn' /\ ClosedByItsOwn'
    BY <1>1, <2>1, <2>2 DEF Numbered, UniqueIds, Handles, Kinds, FirstTurn, BeforeWrap, ClosedByItsOwn
  <2>6. LinkedOpen' /\ GoneClosed' /\ CurrentOK'
    BY <1>1, <2>1, <2>2, <2>3 DEF LinkedOpen, GoneClosed, CurrentOK
  <2>7. FramesOK' /\ HeldUnlessClosed'
    BY <1>1, <2>2 DEF FramesOK, HeldUnlessClosed
  <2>8. QED
    BY <2>4, <2>5, <2>6, <2>7
<1>2. ASSUME IInv, Free PROVE IInv'
  <2>1. /\ pc = "free" /\ pc' = "uninstall" /\ cur' = NoNode /\ life' = Reaped
        /\ UNCHANGED <<lastId, linked, idOf, type, made, pipes, got, ended, dirty, ignored, frames>>
    BY <1>2 DEF Free, table
  <2>2. /\ cur \in Streams /\ cur \in 1 .. made /\ frames = <<>>
        /\ type[cur] = "nav" \/ life[cur] \in {"waiting", "fclosed"}
    BY <1>2, <2>1, MadeAreStreams DEF CurrentOK, FramesOK
  <2>3. /\ life' \in [Streams -> {"none", "open", "waiting", "fclosed", "pclosed"}]
        /\ life'[cur] = IF life[cur] = "waiting" THEN "pclosed" ELSE life[cur]
        /\ \A s \in Streams \ {cur} : life'[s] = life[s]
    BY <1>2, <2>1, <2>2, ReapedIs
  <2>4. TypeOK'
    BY <1>2, <2>1, <2>3 DEF TypeOK, PCs
  <2>5. Numbered' /\ ClosedByItsOwn'
    BY <1>2, <2>1, <2>2, <2>3 DEF Numbered, ClosedByItsOwn, Streams, TypeOK
  <2>6. UniqueIds' /\ Handles' /\ Kinds' /\ FirstTurn'
    BY <1>2, <2>1 DEF UniqueIds, Handles, Kinds, FirstTurn, BeforeWrap
  <2>7. LinkedOpen' /\ CurrentOK'
    BY <1>2, <2>1, <2>2, <2>3 DEF LinkedOpen, CurrentOK, TypeOK
  <2>8. GoneClosed'
    BY <1>2, <2>1, <2>2, <2>3, MadeAreStreams DEF GoneClosed, Closed
  <2>9. FramesOK' /\ HeldUnlessClosed'
    BY <1>2, <2>1, <2>2 DEF FramesOK, HeldUnlessClosed
  <2>10. QED
    BY <2>4, <2>5, <2>6, <2>7, <2>8, <2>9
<1>3. QED
  BY <1>1, <1>2

\* Every step keeps the invariant.
LEMMA StepIInv == IInv /\ [Next]_vars => IInv'
<1>1. IInv /\ (Fopen \/ Popen) => IInv'
  BY OpenStep DEF Fopen, Popen
<1>2. IInv /\ (FileClose("close", "release") \/ FileClose("shut", "free")) => IInv'
  BY FileCloseStep
<1>3. IInv /\ UNCHANGED vars => IInv'
  BY DEF vars, table, streams, IInv, TypeOK, Numbered, UniqueIds, Handles, Kinds, FirstTurn,
     BeforeWrap, LinkedOpen, GoneClosed, CurrentOK, FramesOK, HeldUnlessClosed, ClosedByItsOwn
<1>4. QED
  BY <1>1, <1>2, <1>3, MoveStep, WriteStep, UsedStep, ReleaseStep, UninstallStep
     DEF Next, Closing, Uninstall

-----------------------------------------------------------------------------
\* The invariant holds in every reachable state.
THEOREM InductiveInvariant == Spec => []IInv
BY InitIInv, StepIInv, PTL DEF Spec

\* Every variable of the stream handles keeps its range.
THEOREM TypeCorrect == Spec => []TypeOK
<1>1. IInv => TypeOK
  BY DEF IInv
<1>2. QED
  BY <1>1, InductiveInvariant, PTL

\* The entry of an open stream is found under its number.
LEMMA OpenIsFound ==
  ASSUME IInv, NEW s \in Streams, life[s] = "open", got[s] # Undefined,
         pc \in {"script", "read", "write", "wild", "close"}
  PROVE  Lookup(got[s]) = s
<1> USE DEF IInv
<1>1. s \in 1 .. made
  BY DEF Numbered, TypeOK, Streams
<1>2. got[s] = idOf[s] /\ type[s] # "nav"
  BY <1>1 DEF Handles
<1>3. s \in linked
  BY <1>1, <1>2 DEF GoneClosed, Closed
<1>4. NoNode \notin linked
  BY DEF Numbered, NoNode
<1>5. QED
  BY <1>2, <1>3, <1>4, AtIsTheNode DEF UniqueIds, Lookup

\* Until last_id wraps, no other entry is found under it.
LEMMA StaleFindNothing ==
  ASSUME IInv, BeforeWrap, NEW s \in 1 .. made, NEW n \in linked, idOf[n] = got[s]
  PROVE  n = s
<1> USE DEF IInv
<1>1. n \in 1 .. made /\ idOf[n] = n - 1 /\ idOf[s] = s - 1 /\ made \in Nat
  BY DEF Numbered, FirstTurn, TypeOK
<1>2. Valid(idOf[s])
  BY DEF FirstTurn, Valid
<1>3. got[s] = s - 1
  BY <1>1, <1>2 DEF Handles
<1>4. n - 1 = s - 1
  BY <1>1, <1>3
<1>5. n \in Int /\ s \in Int
  BY <1>1
<1>6. QED
  BY <1>4, <1>5

\* The number that fopen or popen returned finds the entry of its stream while
\* that is open, through any number of turns of last_id, and until last_id wraps it
\* finds no other, also after the stream was closed.
THEOREM NumbersNameStreams == Spec => []NumberNamesItsStream
<1>1. ASSUME IInv, NEW s \in Streams, BeforeWrap, s <= made, NEW n \in linked, idOf[n] = got[s]
      PROVE  n = s
  <2>1. s \in 1 .. made
    BY <1>1 DEF Streams, IInv, TypeOK
  <2>2. QED
    BY <1>1, <2>1, StaleFindNothing
<1>2. IInv => NumberNamesItsStream
  BY <1>1, OpenIsFound DEF NumberNamesItsStream
<1>3. QED
  BY <1>2, InductiveInvariant, PTL

\* jsc_readline, jsc_writestring, jsc_fclose and jsc_pclose give libc a stream that
\* is open, and jsc_file_close closes none twice at exit.
THEOREM OpenGoesToLibc == Spec => []OnlyOpenToLibc
<1>1. IInv => OnlyOpenToLibc
  BY DEF IInv, CurrentOK, OnlyOpenToLibc
<1>2. QED
  BY <1>1, InductiveInvariant, PTL

\* The entry that a jsc_writestring holds while script code runs is freed only by
\* a close of that very stream.
THEOREM HeldStayLinked == Spec => []HeldUnlessClosed
<1>1. IInv => HeldUnlessClosed
  BY DEF IInv
<1>2. QED
  BY <1>1, InductiveInvariant, PTL

\* jsc_file_close calls fclose for what fopen opened and pclose for what popen
\* opened, whichever function the script called.
THEOREM MatchingClose == Spec => []ClosedByItsOwn
<1>1. IInv => ClosedByItsOwn
  BY DEF IInv
<1>2. QED
  BY <1>1, InductiveInvariant, PTL

\* Until last_id wraps, each open stream has a number, and res_release_all leaves
\* none open.
THEOREM NothingIsLost == Spec => []NothingLost
<1>1. IInv => NothingLost
  <2> SUFFICES ASSUME IInv, BeforeWrap, NEW s \in 1 .. made
               PROVE  /\ life[s] = "open" => got[s] # Undefined
                      /\ pc = "exit" => life[s] \in Closed
    BY DEF NothingLost, Closed
  <2> USE DEF IInv
  <2>1. Valid(idOf[s])
    BY DEF FirstTurn, Valid
  <2>2. got[s] = idOf[s] /\ type[s] # "nav" /\ idOf[s] \in Ids
    BY <2>1, MadeAreStreams DEF Handles, TypeOK
  <2>3. QED
    BY <2>2, FilesAssumption DEF GoneClosed, CurrentOK
<1>2. QED
  BY <1>1, InductiveInvariant, PTL
=============================================================================
