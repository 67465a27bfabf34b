----------------------------- MODULE Runs_proofs -----------------------------
(***************************************************************************)
(* Proofs about Runs: a record is freed only after its thread was joined,  *)
(* run_done joins each thread once, and until last_id wraps it joins all   *)
(* of them, for any number of threads and any width of the ids.            *)
(***************************************************************************)
EXTENDS Runs, IdTable_proofs

\* The inductive invariant.  Records are numbered as they are made, and until
\* run_done has left its loop each is in the table or freed.
Numbered ==
  /\ linked \subseteq 1 .. made
  /\ freed \subseteq 1 .. made
  /\ linked \cap freed = {}
  /\ \A n \in Records : n > made => thr[n] = "none"
Accounted == pc \notin {"returned", "dead"} => 1 .. made \subseteq linked \cup freed
NoTableYet == pc \notin {"returned", "dead"} /\ ~mgn => made = 0
UniqueIds == \A n, m \in linked : idOf[n] = idOf[m] => n = m
\* Until last_id wraps the ids are handed out in their order.
FirstTurn ==
  /\ made <= IntMax + 1 => \A n \in 1 .. made : idOf[n] = n - 1
  /\ made <= IntMax => lastId = made
FreedAfterJoin == \A n \in freed : thr[n] = "joined"
\* What a call has done so far with the record it works on.
CurrentOK ==
  /\ pc \in {"fill", "start"} => cur \in linked /\ thr[cur] = "none"
  /\ pc = "join" => cur \in linked
  /\ pc \in {"destroy", "release"} => cur \in linked /\ thr[cur] = "joined"
\* Every other record in the table has an inst and was not joined.
OthersStarted ==
  pc \notin {"returned", "dead"} => \A n \in linked :
    \/ n = cur /\ pc \in {"fill", "start", "destroy", "release"}
    \/ n \in inst /\ thr[n] # "joined"

IInv ==
  /\ TypeOK /\ Numbered /\ Accounted /\ NoTableYet /\ UniqueIds /\ FirstTurn
  /\ FreedAfterJoin /\ CurrentOK /\ OthersStarted /\ NoneOutlives

-----------------------------------------------------------------------------
\* Initially there is no table and no thread.
LEMMA InitIInv == Init => IInv
<1> SUFFICES ASSUME Init PROVE IInv
  OBVIOUS
<1> USE DEF Init
<1>1. TypeOK
  <2>1. 0 \in Ids
    BY IntMaxAssumption DEF Ids
  <2>2. made \in 0 .. MaxRuns
    BY RunsAssumption
  <2>3. QED
    BY <2>1, <2>2, Zenon DEF TypeOK, PCs
<1>2. FirstTurn
  BY IntMaxAssumption DEF FirstTurn
<1>3. QED
  BY <1>1, <1>2 DEF IInv, Numbered, Accounted, NoTableYet, UniqueIds, FreedAfterJoin, CurrentOK,
     OthersStarted, NoneOutlives

\* res_create in run: the new record has a free id.
LEMMA RunStep == IInv /\ Run => IInv'
<1> SUFFICES ASSUME IInv, Run PROVE IInv'
  OBVIOUS
<1> USE RunsAssumption DEF IInv
<1> DEFINE n == made + 1
           id == NewId(linked, idOf, lastId)
<1>1. /\ pc = "script" /\ made < MaxRuns
      /\ mgn' = TRUE /\ made' = n /\ linked' = linked \cup {n}
      /\ idOf' = [idOf EXCEPT ![n] = id]
      /\ lastId' = LastAfter(linked, idOf, lastId)
      /\ cur' = n /\ pc' = "fill"
      /\ UNCHANGED <<freed, inst, thr, serves, bound, asked, heap>>
  BY DEF Run, threads
<1>2. /\ made \in Nat /\ n \in Records /\ n \in 1 .. n /\ 1 .. n = 1 .. made \cup {n}
      /\ n \notin linked /\ n \notin freed /\ thr[n] = "none"
  BY <1>1 DEF TypeOK, Numbered, Records
<1>3. IsFiniteSet(linked) /\ Cardinality(linked) < 2 * IntMax + 2
  <2>1. IsFiniteSet(linked) /\ Cardinality(linked) \in 0 .. made
    BY <1>2, NodesCount DEF Numbered
  <2>2. QED
    BY <1>1, <1>2, <2>1, IntMaxAssumption
<1>4. id \in Ids /\ IsFree(linked, idOf, id) /\ lastId' \in Ids
  BY <1>1, <1>3, NewIdIsFree DEF TypeOK
<1>5. TypeOK'
  BY <1>1, <1>2, <1>4 DEF TypeOK, Records, PCs
<1>6. Numbered'
  BY <1>1, <1>2 DEF Numbered, Records, TypeOK
<1>7. Accounted' /\ NoTableYet' /\ FreedAfterJoin' /\ NoneOutlives'
  BY <1>1, <1>2 DEF Accounted, NoTableYet, FreedAfterJoin, NoneOutlives
<1>8. UniqueIds'
  BY <1>1, <1>2, <1>4 DEF UniqueIds, IsFree, TypeOK
<1>9. FirstTurn'
  <2>1. CASE made <= IntMax
    <3>1. IsFree(linked, idOf, lastId)
      BY <1>2, <2>1, IntMaxAssumption DEF IsFree, FirstTurn, Numbered
    <3>2. id = made /\ lastId' = Plus(made, 1)
      BY <1>1, <2>1, <3>1, NewIdIsNext DEF FirstTurn, TypeOK
    <3>3. made + 1 <= IntMax => lastId' = made + 1
      BY <1>2, <3>2, IntMaxAssumption DEF Plus
    <3>4. \A m \in 1 .. made' : idOf'[m] = m - 1
      BY <1>1, <1>2, <2>1, <3>2, IntMaxAssumption DEF FirstTurn, TypeOK
    <3>5. QED
      BY <1>1, <3>3, <3>4 DEF FirstTurn
  <2>2. CASE made > IntMax
    BY <1>1, <1>2, <2>2, IntMaxAssumption DEF FirstTurn
  <2>3. QED
    BY <1>2, <2>1, <2>2, IntMaxAssumption
<1>10. CurrentOK'
  BY <1>1, <1>2 DEF CurrentOK
<1>11. OthersStarted'
  BY <1>1, <1>2 DEF OthersStarted
<1>12. QED
  BY <1>5, <1>6, <1>7, <1>8, <1>9, <1>10, <1>11

\* run_thread: the new record gets its inst; its thread runs or was not created.
LEMMA StartStep == IInv /\ (Fill \/ Start) => IInv'
<1> SUFFICES ASSUME IInv, Fill \/ Start PROVE IInv'
  OBVIOUS
<1> USE DEF IInv
<1>1. CASE Fill
  BY <1>1 DEF Fill, table, threads, TypeOK, PCs, Numbered, Accounted, NoTableYet, UniqueIds,
     FirstTurn, FreedAfterJoin, CurrentOK, OthersStarted, NoneOutlives
<1>2. CASE Start
  <2>1. /\ pc = "start" /\ pc' = "script" /\ cur' = NoNode /\ inst' = inst \cup {cur}
        /\ serves' \in {serves, serves \cup {cur}}
        /\ thr' \in {[thr EXCEPT ![cur] = "running"], [thr EXCEPT ![cur] = "failed"]}
        /\ UNCHANGED <<mgn, lastId, made, linked, freed, idOf, bound, asked, heap>>
    BY <1>2 DEF Start, table
  <2>2. cur \in linked /\ cur \in 1 .. made /\ cur \notin freed /\ cur \in Records /\ made > 0
    BY <2>1 DEF CurrentOK, Numbered, TypeOK, Records
  <2>3. /\ thr'[cur] # "joined" /\ thr' \in [Records -> {"none", "failed", "running", "ended", "joined"}]
        /\ \A n \in Records \ {cur} : thr'[n] = thr[n]
    BY <2>1, <2>2 DEF TypeOK
  <2>4. TypeOK'
    BY <2>1, <2>2, <2>3 DEF TypeOK, PCs
  <2>5. Numbered'
    BY <2>1, <2>2, <2>3 DEF Numbered, TypeOK, Records
  <2>6. Accounted' /\ NoTableYet' /\ UniqueIds' /\ FirstTurn' /\ CurrentOK' /\ NoneOutlives'
    BY <2>1, <2>2 DEF Accounted, NoTableYet, UniqueIds, FirstTurn, CurrentOK, NoneOutlives
  <2>7. FreedAfterJoin'
    BY <2>1, <2>2, <2>3 DEF FreedAfterJoin, TypeOK
  <2>8. OthersStarted'
    BY <2>1, <2>2, <2>3 DEF OthersStarted, TypeOK
  <2>9. QED
    BY <2>4, <2>5, <2>6, <2>7, <2>8
<1>3. QED
  BY <1>1, <1>2

\* The other calls of a script, and what the threads do beside it, change no
\* record that is linked or freed but for the end of a thread; nor does an abort.
LEMMA BesideStep ==
  IInv /\ (RunCancel \/ RunDone \/ Abort \/ \E n \in Records : Ends(n) \/ Bind(n)) => IInv'
<1> USE DEF IInv
<1>1. ASSUME IInv, RunCancel PROVE IInv'
  BY <1>1 DEF RunCancel, table, TypeOK, PCs, Numbered, Accounted, NoTableYet, UniqueIds,
     FirstTurn, FreedAfterJoin, CurrentOK, OthersStarted, NoneOutlives
<1>2. ASSUME IInv, RunDone PROVE IInv'
  BY <1>2 DEF RunDone, table, threads, TypeOK, PCs, Numbered, Accounted, NoTableYet, UniqueIds,
     FirstTurn, FreedAfterJoin, CurrentOK, OthersStarted, NoneOutlives
<1>3. ASSUME IInv, NEW n \in Records, Ends(n) PROVE IInv'
  <2>1. /\ thr[n] = "running" /\ thr' = [thr EXCEPT ![n] = "ended"]
        /\ UNCHANGED <<table, inst, serves, bound, asked, heap, pc, cur>>
    BY <1>3 DEF Ends
  <2>2. /\ thr'[n] = "ended" /\ thr' \in [Records -> {"none", "failed", "running", "ended", "joined"}]
        /\ \A m \in Records \ {n} : thr'[m] = thr[m]
    BY <1>3, <2>1 DEF TypeOK
  <2>3. \A m \in Records : thr[m] \in {"none", "joined"} => thr'[m] = thr[m]
    BY <2>1, <2>2
  <2>4. \A m \in Records : thr[m] # "joined" => thr'[m] # "joined"
    BY <2>1, <2>2
  <2>5. TypeOK'
    BY <1>3, <2>1, <2>2 DEF TypeOK, table
  <2>6. Numbered' /\ Accounted' /\ NoTableYet' /\ UniqueIds' /\ FirstTurn'
    BY <1>3, <2>1, <2>3 DEF table, Numbered, Accounted, NoTableYet, UniqueIds, FirstTurn
  <2>7. FreedAfterJoin' /\ CurrentOK'
    BY <1>3, <2>1, <2>3 DEF table, FreedAfterJoin, CurrentOK, TypeOK
  <2>8. OthersStarted'
    BY <1>3, <2>1, <2>4 DEF table, OthersStarted, TypeOK
  <2>9. NoneOutlives'
    BY <1>3, <2>1, <2>3 DEF table, NoneOutlives, TypeOK, Records
  <2>10. QED
    BY <2>5, <2>6, <2>7, <2>8, <2>9
<1>4. ASSUME IInv, NEW n \in Records, Bind(n) PROVE IInv'
  <2>1. /\ bound' \in SUBSET Records /\ pc' \in {pc, "dead"}
        /\ UNCHANGED <<mgn, lastId, made, linked, freed, idOf, inst, thr, serves, asked, heap, cur>>
    BY <1>4 DEF Bind, table, TypeOK
  <2>2. TypeOK'
    BY <1>4, <2>1 DEF TypeOK, PCs
  <2>3. QED
    BY <1>4, <2>1, <2>2 DEF Numbered, Accounted, NoTableYet, UniqueIds, FirstTurn, FreedAfterJoin,
       CurrentOK, OthersStarted, NoneOutlives
<1>5. ASSUME IInv, Abort PROVE IInv'
  BY <1>5 DEF Abort, Dies, table, threads, TypeOK, PCs, Numbered, Accounted, NoTableYet, UniqueIds,
     FirstTurn, FreedAfterJoin, CurrentOK, OthersStarted, NoneOutlives
<1>6. QED
  BY <1>1, <1>2, <1>3, <1>4, <1>5

\* The loop of run_done: it stops only at an id below zero, that is, while
\* last_id has not wrapped, at an empty table.
LEMMA PickStep == IInv /\ Pick => IInv'
<1> SUFFICES ASSUME IInv, Pick PROVE IInv'
  OBVIOUS
<1> USE DEF IInv
<1>0. pc = "any" /\ made \in Nat
  BY DEF Pick, TypeOK
<1>1. /\ linked = {} => AnyId(linked, idOf) = -1
      /\ linked # {} => \E n \in linked : AnyId(linked, idOf) = idOf[n]
  <2>1. linked \in SUBSET (1 .. made)
    BY DEF Numbered
  <2>2. QED
    BY <1>0, <2>1, AnyIsNewest
<1>2. CASE GoesOn(AnyId(linked, idOf)) /\ pc' = "join"
  <2>1. /\ pc' = "join" /\ cur' = At(linked, idOf, AnyId(linked, idOf))
        /\ UNCHANGED <<mgn, lastId, made, linked, freed, idOf, inst, thr, serves, bound, asked, heap>>
    BY <1>2 DEF Pick, threads
  <2>2. cur' \in linked
    <3>1. linked # {}
      BY <1>1, <1>2 DEF GoesOn
    <3>2. PICK n \in linked : AnyId(linked, idOf) = idOf[n]
      BY <1>1, <3>1
    <3>3. NoNode \notin linked
      BY DEF Numbered, NoNode
    <3>4. QED
      BY <2>1, <3>2, <3>3, AtFinds
  <2>3. TypeOK'
    BY <2>1, <2>2 DEF TypeOK, PCs
  <2>4. CurrentOK' /\ OthersStarted'
    BY <1>0, <2>1, <2>2 DEF CurrentOK, OthersStarted
  <2>5. QED
    BY <1>0, <2>1, <2>3, <2>4 DEF Numbered, Accounted, NoTableYet, UniqueIds, FirstTurn,
       FreedAfterJoin, NoneOutlives
<1>3. CASE ~GoesOn(AnyId(linked, idOf)) /\ pc' = "returned"
  <2>1. /\ mgn' = FALSE /\ linked' = {} /\ pc' = "returned"
        /\ UNCHANGED <<lastId, made, freed, idOf, cur, inst, thr, serves, bound, asked, heap>>
    BY <1>3 DEF Pick, threads
  <2>2. TypeOK'
    BY <2>1 DEF TypeOK, PCs
  <2>3. NoneOutlives'
    <3>1. SUFFICES ASSUME made <= IntMax + 1 PROVE \A n \in 1 .. made : thr[n] = "joined"
      BY <2>1 DEF NoneOutlives
    <3>2. linked = {}
      <4>1. SUFFICES ASSUME linked # {} PROVE FALSE
        OBVIOUS
      <4>2. PICK n \in linked : AnyId(linked, idOf) = idOf[n]
        BY <1>1, <4>1
      <4>3. n \in 1 .. made /\ idOf[n] = n - 1
        BY <3>1 DEF Numbered, FirstTurn
      <4>4. QED
        BY <1>3, <4>2, <4>3 DEF GoesOn
    <3>3. QED
      BY <1>0, <3>2 DEF Accounted, FreedAfterJoin
  <2>4. QED
    BY <2>1, <2>2, <2>3 DEF Numbered, Accounted, NoTableYet, UniqueIds, FirstTurn, FreedAfterJoin,
       CurrentOK, OthersStarted
<1>4. QED
  BY <1>2, <1>3 DEF Pick

\* The body of the loop: the record is joined, loses its inst and is freed.
LEMMA JoinStep == IInv /\ (Join \/ Destroy \/ Release) => IInv'
<1> USE DEF IInv
<1>1. ASSUME IInv, Join PROVE IInv'
  <2>1. CASE pc' = "dead"
    BY <1>1, <2>1 DEF Join, table, TypeOK, PCs, Numbered, Accounted, NoTableYet, UniqueIds,
       FirstTurn, FreedAfterJoin, CurrentOK, OthersStarted, NoneOutlives
  <2>2. CASE pc' # "dead"
    <3>1. /\ pc = "join" /\ pc' = "destroy" /\ thr[cur] = "ended"
          /\ thr' = [thr EXCEPT ![cur] = IF @ = "ended" THEN "joined" ELSE @]
          /\ UNCHANGED <<table, inst, serves, bound, asked, heap, cur>>
      BY <1>1, <2>2 DEF Join, Joinable
    <3>2. cur \in linked /\ cur \in Records /\ cur \in 1 .. made
      BY <1>1, <3>1 DEF CurrentOK, TypeOK, Numbered
    <3>3. /\ thr'[cur] = "joined" /\ thr' \in [Records -> {"none", "failed", "running", "ended", "joined"}]
          /\ \A m \in Records \ {cur} : thr'[m] = thr[m]
      BY <1>1, <3>1, <3>2 DEF TypeOK
    <3>4. TypeOK'
      BY <1>1, <3>1, <3>3 DEF TypeOK, PCs, table
    <3>5. Numbered' /\ Accounted' /\ NoTableYet' /\ UniqueIds' /\ FirstTurn' /\ NoneOutlives'
      BY <1>1, <3>1, <3>2, <3>3 DEF table, Numbered, Accounted, NoTableYet, UniqueIds, FirstTurn,
         NoneOutlives, Records, TypeOK
    <3>6. FreedAfterJoin' /\ CurrentOK'
      BY <1>1, <3>1, <3>2, <3>3 DEF table, FreedAfterJoin, CurrentOK, TypeOK
    <3>7. OthersStarted'
      BY <1>1, <3>1, <3>2, <3>3 DEF table, OthersStarted, TypeOK
    <3>8. QED
      BY <3>4, <3>5, <3>6, <3>7
  <2>3. QED
    BY <2>1, <2>2
<1>2. ASSUME IInv, Destroy PROVE IInv'
  BY <1>2 DEF Destroy, Dies, table, threads, TypeOK, PCs, Numbered, Accounted, NoTableYet, UniqueIds,
     FirstTurn, FreedAfterJoin, CurrentOK, OthersStarted, NoneOutlives
<1>3. ASSUME IInv, Release PROVE IInv'
  BY <1>3 DEF Release, Unlinked, table, threads, TypeOK, PCs, Numbered, Accounted,
     NoTableYet, UniqueIds, FirstTurn, FreedAfterJoin, CurrentOK, OthersStarted, NoneOutlives
<1>4. QED
  BY <1>1, <1>2, <1>3

\* Every step keeps the invariant.
LEMMA StepIInv == IInv /\ [Next]_vars => IInv'
<1>1. IInv /\ UNCHANGED vars => IInv'
  BY DEF vars, IInv, TypeOK, Numbered, Accounted, NoTableYet, UniqueIds, FirstTurn, FreedAfterJoin,
     CurrentOK, OthersStarted, NoneOutlives
<1>2. QED
  BY <1>1, RunStep, StartStep, BesideStep, PickStep, JoinStep DEF Next, Script, Working

-----------------------------------------------------------------------------
\* The invariant holds in every reachable state.
THEOREM InductiveInvariant == Spec => []IInv
BY InitIInv, StepIInv, PTL DEF Spec

\* Every variable of the managed threads keeps its range; last_id stays an int
\* through any number of turns.
THEOREM TypeCorrect == Spec => []TypeOK
<1>1. IInv => TypeOK
  BY DEF IInv
<1>2. QED
  BY <1>1, InductiveInvariant, PTL

\* res_release is called with the record of a thread that was joined, so the
\* parameter inside it outlives the thread that uses it.
THEOREM RecordsOutliveThreads == Spec => []RecordOutlivesThread
<1>1. IInv => RecordOutlivesThread
  BY DEF IInv, FreedAfterJoin, RecordOutlivesThread
<1>2. QED
  BY <1>1, InductiveInvariant, PTL

\* wait_thread in run_done finds a pthread_t that run_thread made and that was not
\* joined before.
THEOREM EachJoinedOnce == Spec => []JoinsOnce
<1>1. IInv => JoinsOnce
  BY DEF IInv, CurrentOK, OthersStarted, JoinsOnce
<1>2. QED
  BY <1>1, InductiveInvariant, PTL

\* Until last_id wraps, run_done returns only when all threads were joined.
THEOREM AllAreJoined == Spec => []NoneOutlives
<1>1. IInv => NoneOutlives
  BY DEF IInv
<1>2. QED
  BY <1>1, InductiveInvariant, PTL
=============================================================================
