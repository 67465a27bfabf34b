----------------------------- MODULE Jssh_proofs -----------------------------
(***************************************************************************)
(* Proofs about the whole process: what Files and Runs keep when they run  *)
(* alone they keep in jssh, a server holds the shell, it shields the shell *)
(* from the pipes of commands that have ended, and a script loses its "#!" *)
(* line and nothing else.                                                  *)
(***************************************************************************)
EXTENDS Jssh, SequenceTheorems, WellFoundedInduction, TLAPS

\* The proofs of the parts, about the parts as they are in Jssh.
FP == INSTANCE Files_proofs WITH pc <- filePc, cur <- fileCur, lastId <- opened, linked <- files
RP == INSTANCE Runs_proofs WITH pc <- runPc, cur <- runCur, lastId <- runLast, made <- started,
                                linked <- running, idOf <- runIdOf

\* The inductive invariant: that of each part, and what the parts are to each other.
PartsInv == S!TypeOK /\ FP!IInv /\ RP!IInv

\* The only threads are servers, which nobody cancels: none ends, or is joined.
NoneEnds == \A n \in RP!Records : thr[n] \in {"none", "running", "failed"}
\* The streams are closed once main has called run_done, and main ends after that.
EndPCs == {"uninstall", "shut", "free", "exit"}
EndsInOrder ==
  /\ filePc \in EndPCs => main \in {"run_done", "exit"}
  /\ main = "exit" => filePc = "exit"
\* A thread that has its port has run mg_mgr_init.
ServersIgnore == bound # {} => ignored

IInv == PartsInv /\ NoneEnds /\ EndsInOrder /\ ServersIgnore /\ ServerHoldsTheShell

-----------------------------------------------------------------------------
\* The actions of Files that Jssh takes are those its proofs are about.
LEMMA SameFiles ==
  /\ F!Init <=> FP!Init
  /\ F!TypeOK <=> FP!TypeOK
  /\ F!Fopen \/ F!Popen \/ F!ReadLine \/ F!WriteString \/ F!WriteArg \/ F!CloseStream => FP!Next
  /\ F!Used \/ F!Closing => FP!Next
  /\ F!ScriptEnds \/ F!Uninstall => FP!Next
  /\ \A s \in F!Streams : F!CommandEnds(s) => FP!Next
<1> USE DEF F!Ids, FP!Ids, F!Streams, FP!Streams, F!NoNode, FP!NoNode, F!table, FP!table,
            F!streams, FP!streams, F!InScript, FP!InScript, F!Enter, FP!Enter
<1>1. F!Init <=> FP!Init
  BY DEF F!Init, FP!Init
<1>2. F!TypeOK <=> FP!TypeOK
  BY DEF F!TypeOK, FP!TypeOK, F!PCs, FP!PCs
<1>3. F!Fopen \/ F!Popen => FP!Fopen \/ FP!Popen
  BY DEF F!Fopen, FP!Fopen, F!Popen, FP!Popen, F!Open, FP!Open, F!NewId, FP!NewId, F!LastAfter,
         FP!LastAfter, F!Cardinality, FP!Cardinality, F!Plus, FP!Plus, F!Skipped, FP!Skipped, F!IsFree, FP!IsFree, F!Valid, FP!Valid
<1>4. F!ReadLine \/ F!WriteString \/ F!WriteArg \/ F!CloseStream
      => FP!ReadLine \/ FP!WriteString \/ FP!WriteArg \/ FP!CloseStream
  BY DEF F!ReadLine, FP!ReadLine, F!WriteString, FP!WriteString, F!WriteArg, FP!WriteArg,
         F!CloseStream, FP!CloseStream, F!Named, FP!Named, F!Valid, FP!Valid, F!Lookup, FP!Lookup,
         F!At, FP!At, F!Holding, FP!Holding
<1>5. F!Used => FP!Used
  BY DEF F!Used, FP!Used, F!Broken, FP!Broken
<1>6. /\ F!Closing => FP!Closing
      /\ F!Uninstall => FP!Uninstall
  BY DEF F!Closing, FP!Closing, F!Uninstall, FP!Uninstall, F!FileClose, FP!FileClose, F!Release,
         FP!Release, F!TakeOldest, FP!TakeOldest, F!Free, FP!Free, F!Exit, FP!Exit, F!Broken,
         FP!Broken, F!CloseBy, FP!CloseBy, F!Waited, FP!Waited, F!Reaped, FP!Reaped, F!Unlinked,
         FP!Unlinked
<1>7. F!ScriptEnds => FP!ScriptEnds
  BY DEF F!ScriptEnds, FP!ScriptEnds
<1>8. \A s \in F!Streams : F!CommandEnds(s) => \E q \in FP!Streams : FP!CommandEnds(q)
  BY DEF F!CommandEnds, FP!CommandEnds
<1>9. QED
  BY <1>1, <1>2, <1>3, <1>4, <1>5, <1>6, <1>7, <1>8, Zenon DEF FP!Next

\* And those of Runs.
LEMMA SameRuns ==
  /\ R!Init <=> RP!Init
  /\ R!TypeOK <=> RP!TypeOK
  /\ R!Run \/ R!Fill \/ R!Start => RP!Next
  /\ R!RunDone \/ R!Pick \/ R!Join \/ R!Destroy \/ R!Release => RP!Next
  /\ R!Abort => RP!Next
  /\ \A n \in R!Records : R!Bind(n) => RP!Next
<1> USE DEF R!Ids, RP!Ids, R!Records, RP!Records, R!NoNode, RP!NoNode, R!table, RP!table,
            R!threads, RP!threads, R!Dies, RP!Dies
<1>1. R!Init <=> RP!Init
  BY DEF R!Init, RP!Init
<1>2. R!TypeOK <=> RP!TypeOK
  BY DEF R!TypeOK, RP!TypeOK, R!PCs, RP!PCs
<1>3. R!Run => RP!Run
  BY DEF R!Run, RP!Run, R!NewId, RP!NewId, R!LastAfter, RP!LastAfter, R!Plus, RP!Plus, R!Skipped,
         RP!Skipped, R!IsFree, RP!IsFree
<1>4. R!Fill \/ R!Start => RP!Fill \/ RP!Start
  BY DEF R!Fill, RP!Fill, R!Start, RP!Start
<1>5. R!RunDone => RP!RunDone
  BY DEF R!RunDone, RP!RunDone
<1>6. R!Pick => RP!Pick
  BY DEF R!Pick, RP!Pick, R!AnyId, RP!AnyId, R!At, RP!At, R!GoesOn, RP!GoesOn
<1>7. R!Join \/ R!Destroy \/ R!Release => RP!Join \/ RP!Destroy \/ RP!Release
  BY DEF R!Join, RP!Join, R!Destroy, RP!Destroy, R!Release, RP!Release, R!Joinable, RP!Joinable,
         R!Unlinked, RP!Unlinked
<1>8. \A n \in R!Records : R!Bind(n) => \E q \in RP!Records : RP!Ends(q) \/ RP!Bind(q)
  BY DEF R!Bind, RP!Bind, R!PortFree, RP!PortFree
<1>9. R!Abort => RP!Abort
  BY DEF R!Abort, RP!Abort
<1>10. QED
  BY <1>3, <1>4, <1>5, <1>6, <1>7, <1>8, <1>9, <1>1, <1>2, Zenon DEF RP!Next, RP!Script, RP!Working

\* What was proved of the parts, under the assumptions of Jssh.
LEMMA PartsProved ==
  /\ FP!Init => FP!IInv
  /\ FP!IInv /\ [FP!Next]_(FP!vars) => FP!IInv'
  /\ RP!Init => RP!IInv
  /\ RP!IInv /\ [RP!Next]_(RP!vars) => RP!IInv'
<1>1. FP!IntMaxAssumption /\ FP!FilesAssumption
  BY JsshAssumption DEF F!IntMaxAssumption, F!FilesAssumption, F!Ids, FP!Ids
<1>2. RP!IntMaxAssumption /\ RP!RunsAssumption
  BY JsshAssumption DEF F!IntMaxAssumption, R!RunsAssumption
<1>3. QED
  BY <1>1, <1>2, FP!InitIInv, FP!StepIInv, RP!InitIInv, RP!StepIInv

-----------------------------------------------------------------------------
\* A step of one part leaves the others alone, but for the SIGPIPE that a server
\* ignores, of which the streams need only that it is ignored or not.
LEMMA FilesStand ==
  /\ FP!IInv /\ UNCHANGED <<streams, ignored>> => FP!IInv'
  /\ FP!IInv /\ UNCHANGED streams /\ ignored' = TRUE => FP!IInv'
<1>1. FP!IInv /\ UNCHANGED <<streams, ignored>> => FP!IInv'
  <2>1. UNCHANGED <<streams, ignored>> => UNCHANGED FP!vars
    BY DEF streams, FP!vars, FP!table, FP!streams
  <2>2. QED  BY <2>1, PartsProved
<1>2. ASSUME FP!IInv, UNCHANGED streams, ignored' = TRUE PROVE FP!IInv'
  BY <1>2 DEF streams, FP!IInv, FP!TypeOK, FP!Numbered, FP!UniqueIds, FP!Handles, FP!Kinds,
     FP!FirstTurn, FP!BeforeWrap, FP!LinkedOpen, FP!GoneClosed, FP!CurrentOK, FP!FramesOK,
     FP!HeldUnlessClosed, FP!ClosedByItsOwn
<1>3. QED  BY <1>1, <1>2

\* Likewise the threads.
LEMMA RunsStand == RP!IInv /\ UNCHANGED runs => RP!IInv'
<1>1. UNCHANGED runs => UNCHANGED RP!vars
  BY DEF runs, RP!vars
<1>2. QED  BY <1>1, PartsProved

\* The bounds of main are kept by its steps.
LEMMA ShellStep == S!TypeOK /\ [S!Next]_shell => S!TypeOK'
<1> USE JsshAssumption DEF S!TypeOK, S!PCs, shell
<1>1. S!TypeOK /\ (S!ReadScript \/ S!ReadFails) => S!TypeOK'
  BY DEF S!ReadScript, S!ReadFails, S!ArgLeft
<1>2. S!TypeOK /\ (S!ReadLine \/ S!Call \/ S!ExecConverts \/ S!Throw \/ S!PerformThrow) => S!TypeOK'
  BY DEF S!ReadLine, S!Call, S!ExecConverts, S!Throw, S!PerformThrow
<1>3. S!TypeOK /\ (S!ExecEnds \/ S!PrintErr \/ S!NoMore \/ S!Finish) => S!TypeOK'
  BY DEF S!ExecEnds, S!PrintErr, S!NoMore, S!Finish
<1>4. S!TypeOK /\ UNCHANGED shell => S!TypeOK'
  OBVIOUS
<1>5. QED  BY <1>1, <1>2, <1>3, <1>4 DEF S!Next

\* Initially each part is as it is alone, and no thread was started.
LEMMA InitIInv == Init => IInv
<1> SUFFICES ASSUME Init PROVE IInv
  OBVIOUS
<1>1. S!TypeOK
  <2>1. typed \in BOOLEAN /\ todo \in (IF typed THEN {0} ELSE 1 .. MaxArgs)
    BY DEF Init, S!Init
  <2>2. {0} \subseteq 0 .. MaxArgs /\ 1 .. MaxArgs \subseteq 0 .. MaxArgs
    BY JsshAssumption
  <2>3. todo \in 0 .. MaxArgs
    <3>1. CASE typed
      BY <2>1, <2>2, <3>1, Zenon
    <3>2. CASE ~typed
      BY <2>1, <2>2, <3>2, Zenon
    <3>3. QED  BY <3>1, <3>2
  <2>4. main = "next" /\ thrown = FALSE
    BY DEF Init, S!Init
  <2>5. QED  BY <2>1, <2>3, <2>4, Zenon DEF S!TypeOK, S!PCs
<1>2. FP!IInv /\ RP!IInv
  BY PartsProved, SameFiles, SameRuns DEF Init
<1>3. NoneEnds
  BY DEF Init, R!Init, NoneEnds, R!Records, RP!Records
<1>4. EndsInOrder /\ ServersIgnore /\ ServerHoldsTheShell
  BY DEF Init, S!Init, F!Init, R!Init, EndsInOrder, EndPCs, ServersIgnore, ServerHoldsTheShell
<1>5. QED  BY <1>1, <1>2, <1>3, <1>4 DEF IInv, PartsInv

\* Each part keeps its invariant, whatever the process does.
LEMMA PartsStep == PartsInv /\ [Next]_vars => PartsInv'
<1> SUFFICES ASSUME PartsInv, [Next]_vars PROVE PartsInv'
  OBVIOUS
<1> USE PartsProved, SameFiles, SameRuns, FilesStand, RunsStand, ShellStep DEF PartsInv
<1>1. CASE Interpret
  BY <1>1, Zenon DEF Interpret, S!Next
<1>2. CASE Stream
  BY <1>2, Zenon DEF Stream
<1>3. CASE Httpd
  BY <1>3, Zenon DEF Httpd
<1>4. CASE NoMore \/ Finish
  BY <1>4, Zenon DEF NoMore, Finish, S!Next
<1>5. CASE RunDone
  BY <1>5, Zenon DEF RunDone
<1>6. CASE Uninstall
  BY <1>6, Zenon DEF Uninstall
<1>7. CASE Serve
  BY <1>7, Zenon DEF Serve, IgnoresSignal
<1>8. CASE Command
  BY <1>8, Zenon DEF Command
<1>9. CASE HeapAborts
  BY <1>9, Zenon DEF HeapAborts
<1>10. CASE UNCHANGED vars
  BY <1>10 DEF vars
<1>11. QED
  BY <1>1, <1>2, <1>3, <1>4, <1>5, <1>6, <1>7, <1>8, <1>9, <1>10, Zenon DEF Next

\* No thread ends, and a thread that binds its port has ignored SIGPIPE.
LEMMA ServersStep == PartsInv /\ NoneEnds /\ ServersIgnore /\ [Next]_vars => (NoneEnds /\ ServersIgnore)'
<1> SUFFICES ASSUME PartsInv, NoneEnds, ServersIgnore, [Next]_vars PROVE (NoneEnds /\ ServersIgnore)'
  OBVIOUS
<1> USE DEF NoneEnds, ServersIgnore
<1>1. CASE UNCHANGED <<thr, bound, ignored>>
  BY <1>1
<1>2. CASE Httpd
  <2>1. UNCHANGED <<bound, ignored>>
    BY <1>2 DEF Httpd, R!Run, R!Fill, R!Start, R!threads
  <2>2. NoneEnds'
    <3>1. \/ thr' = thr
          \/ thr' \in {[thr EXCEPT ![runCur] = "running"], [thr EXCEPT ![runCur] = "failed"]}
      BY <1>2 DEF Httpd, R!Run, R!Fill, R!Start, R!threads
    <3>2. thr \in [RP!Records -> {"none", "failed", "running", "ended", "joined"}]
      BY DEF PartsInv, RP!IInv, RP!TypeOK
    <3>3. QED  BY <3>1, <3>2
  <2>3. QED  BY <2>1, <2>2
<1>3. CASE RunDone
  <2>1. UNCHANGED <<bound, ignored>>
    BY <1>3 DEF RunDone, R!RunDone, R!Pick, R!Join, R!Destroy, R!Release, R!Dies, R!threads
  <2>2. ASSUME R!Join PROVE UNCHANGED thr
    <3>1. thr[runCur] # "ended"
      <4>1. runPc = "join"
        BY <2>2 DEF R!Join
      <4>2. runCur \in RP!Records
        BY <4>1 DEF PartsInv, RP!IInv, RP!CurrentOK, RP!TypeOK
      <4>3. QED  BY <4>2
    <3>2. QED  BY <2>2, <3>1 DEF R!Join, R!Joinable
  <2>3. UNCHANGED thr
    BY <1>3, <2>2 DEF RunDone, R!RunDone, R!Pick, R!Destroy, R!Release, R!Dies, R!threads
  <2>4. QED  BY <2>1, <2>3
<1>4. CASE Serve
  BY <1>4 DEF Serve, IgnoresSignal, R!Bind
<1>5. CASE Interpret \/ NoMore \/ Finish
  BY <1>1, <1>5 DEF Interpret, NoMore, Finish, runs
<1>6. CASE Stream \/ Uninstall \/ Command
  <2>1. UNCHANGED ignored
    BY <1>6 DEF Stream, Uninstall, Command, F!Fopen, F!Popen, F!Open, F!ReadLine, F!WriteString,
       F!WriteArg, F!CloseStream, F!Enter, F!Used, F!Closing, F!Uninstall, F!FileClose, F!Release,
       F!TakeOldest, F!Free, F!Exit, F!ScriptEnds, F!CommandEnds, F!streams
  <2>2. UNCHANGED runs
    BY <1>6 DEF Stream, Uninstall, Command
  <2>3. QED  BY <1>1, <2>1, <2>2 DEF runs
<1>7. CASE HeapAborts
  BY <1>1, <1>7 DEF HeapAborts, R!Abort, R!Dies, R!threads
<1>8. CASE UNCHANGED vars
  BY <1>1, <1>8 DEF vars, runs
<1>9. QED
  BY <1>2, <1>3, <1>4, <1>5, <1>6, <1>7, <1>8, Zenon DEF Next

\* run_done returns with no thread started, or after last_id wrapped: it would have
\* had to join a server.
LEMMA ReturnedAlone ==
  ASSUME PartsInv, NoneEnds, runPc = "returned" PROVE started \notin 1 .. IntMax + 1
<1> SUFFICES ASSUME started \in 1 .. IntMax + 1 PROVE FALSE
  OBVIOUS
<1>1. started \in 0 .. MaxRuns /\ RP!NoneOutlives
  BY DEF PartsInv, RP!IInv, RP!TypeOK
<1>2. IntMax \in Nat /\ MaxRuns \in Nat
  BY JsshAssumption DEF F!IntMaxAssumption, R!RunsAssumption
<1>3. 1 \in 1 .. started /\ 1 \in RP!Records /\ started <= IntMax + 1
  BY <1>1, <1>2 DEF RP!Records
<1>4. thr[1] = "joined"
  BY <1>1, <1>3 DEF RP!NoneOutlives
<1>5. QED  BY <1>3, <1>4 DEF NoneEnds

\* The end of main comes in its order, and not past a server.
LEMMA EndStep ==
  PartsInv /\ NoneEnds /\ EndsInOrder /\ ServerHoldsTheShell /\ [Next]_vars
    => (EndsInOrder /\ ServerHoldsTheShell)'
<1> SUFFICES ASSUME PartsInv, NoneEnds, EndsInOrder, ServerHoldsTheShell, [Next]_vars
             PROVE  (EndsInOrder /\ ServerHoldsTheShell)'
  OBVIOUS
<1> USE DEF EndsInOrder, ServerHoldsTheShell, EndPCs
<1>1. CASE UNCHANGED <<main, filePc, started>>
  BY <1>1
<1>2. CASE Interpret
  <2>1. main' # "exit"
    BY <1>2 DEF Interpret, S!ReadScript, S!ReadFails, S!ReadLine, S!Call, S!ExecConverts, S!Throw,
       S!PerformThrow, S!ExecEnds, S!PrintErr
  <2>2. filePc = "script" /\ filePc' = filePc /\ started' = started
    BY <1>2 DEF Interpret, streams, runs
  <2>3. QED  BY <2>1, <2>2
<1>3. CASE Stream
  <2>1. filePc \notin EndPCs
    BY <1>3 DEF Stream, InScript, F!InScript, F!Used, F!Closing, F!FileClose, F!Release
  <2>2. filePc' \notin EndPCs
    BY <1>3 DEF Stream, InScript, F!InScript, F!Fopen, F!Popen, F!Open, F!ReadLine, F!WriteString,
       F!WriteArg, F!CloseStream, F!Enter, F!Used, F!Closing, F!FileClose, F!Release
  <2>3. main' = main /\ started' = started
    BY <1>3 DEF Stream, shell, runs
  <2>4. QED  BY <2>1, <2>2, <2>3
<1>4. CASE Httpd
  <2>1. main' = main /\ filePc' = filePc
    BY <1>4 DEF Httpd, shell, streams
  <2>2. started' = started \/ main = "exec"
    BY <1>4 DEF Httpd, InScript, R!Fill, R!Start, R!table
  <2>3. QED  BY <2>1, <2>2
<1>5. CASE NoMore
  BY <1>5 DEF NoMore, S!NoMore, streams, runs
<1>6. CASE RunDone
  BY <1>1, <1>6 DEF RunDone, shell, streams, R!RunDone, R!Pick, R!Join, R!Destroy, R!Release,
     R!Dies, R!table
<1>7. CASE Uninstall
  <2>1. main = "run_done" /\ main' = main /\ started' = started
    BY <1>7 DEF Uninstall, shell, runs
  <2>2. started \notin 1 .. IntMax + 1
    BY <1>7, ReturnedAlone DEF Uninstall, AfterRunDone
  <2>3. QED  BY <2>1, <2>2
<1>8. CASE Finish
  <2>1. filePc = "exit" /\ filePc' = filePc /\ started' = started
    BY <1>8 DEF Finish, streams, runs
  <2>2. main' = "exit"
    BY <1>8 DEF Finish, S!Finish
  <2>3. QED  BY <2>1, <2>2
<1>9. CASE Serve
  BY <1>1, <1>9 DEF Serve, R!Bind, R!table, shell, streams
<1>10. CASE Command
  BY <1>1, <1>10 DEF Command, F!CommandEnds, shell, runs
<1>11. CASE HeapAborts
  BY <1>1, <1>11 DEF HeapAborts, R!Abort, R!Dies, R!table, shell, streams
<1>12. CASE UNCHANGED vars
  BY <1>1, <1>12 DEF vars, shell, streams, runs
<1>13. QED
  BY <1>2, <1>3, <1>4, <1>5, <1>6, <1>7, <1>8, <1>9, <1>10, <1>11, <1>12, Zenon DEF Next

-----------------------------------------------------------------------------
\* The first position of a text from j on with a mark in M is q; its end has none if
\* q is past it.
Least(t, M, j, q) ==
  /\ q \in j .. Len(t) + 1
  /\ \A x \in j .. q - 1 : t[x] \notin M
  /\ q <= Len(t) => t[q] \in M

\* From drops what stands before the first mark in M, wherever in a text it starts.
LEMMA FromSuffix ==
  ASSUME NEW t \in Seq(S!Marks), NEW M, NEW j \in 1 .. Len(t) + 1
  PROVE  \E q : Least(t, M, j, q) /\ S!From(SubSeq(t, j, Len(t)), M) = SubSeq(t, q, Len(t))
<1> DEFINE u == SubSeq(t, j, Len(t))
           n == Len(t) - j + 1
           hits == {i \in 1 .. Len(u) : u[i] \in M}
<1>1. Len(t) \in Nat /\ n \in Nat
  OBVIOUS
<1>2. Len(u) = n /\ u \in Seq(S!Marks) /\ \A i \in 1 .. n : u[i] = t[j + i - 1]
  <2>1. \A i \in j .. Len(t) : t[i] \in S!Marks
    OBVIOUS
  <2>2. QED  BY <1>1, <2>1, SubSeqProperties
<1> HIDE DEF u, n
<1>3. CASE hits = {}
  <2>1. S!From(u, M) = << >>
    BY <1>3 DEF S!From
  <2>2. SubSeq(t, Len(t) + 1, Len(t)) = << >>
    BY <1>1, SubSeqEmpty
  <2>3. \A x \in j .. Len(t) : t[x] \notin M
    <3> SUFFICES ASSUME NEW x \in j .. Len(t) PROVE t[x] \notin M
      OBVIOUS
    <3>1. x - j + 1 \in 1 .. n /\ j + (x - j + 1) - 1 = x
      BY <1>1 DEF n
    <3>2. u[x - j + 1] \notin M
      BY <1>2, <1>3, <3>1
    <3>3. QED  BY <1>2, <3>1, <3>2
  <2>4. Least(t, M, j, Len(t) + 1)
    BY <1>1, <2>3 DEF Least
  <2>5. QED  BY <2>1, <2>2, <2>4 DEF u
<1>4. CASE hits # {}
  <2>1. PICK k \in hits : \A y \in hits : k <= y
    <3>1. hits \in SUBSET Nat
      BY <1>1, <1>2
    <3> HIDE DEF hits
    <3>2. PICK k \in hits : \A y \in hits : <<y, k>> \notin OpToRel(<, Nat)
      BY <1>4, <3>1, NatLessThanWellFounded, WFMin, Zenon
    <3>3. \A y \in hits : ~ (y < k)
      BY <3>1, <3>2 DEF OpToRel
    <3>4. QED  BY <3>1, <3>3
  <2>2. k \in 1 .. n /\ u[k] \in M /\ \A y \in 1 .. n : u[y] \in M => k <= y
    BY <1>2, <2>1
  <2>3. S!Min(hits) = k
    <3>1. hits \in SUBSET Nat
      BY <1>1, <1>2
    <3>2. S!Min(hits) \in hits /\ \A y \in hits : S!Min(hits) <= y
      <4> HIDE DEF hits
      <4>1. QED  BY <2>1 DEF S!Min
    <3> HIDE DEF hits
    <3> DEFINE m == S!Min(hits)
    <3> HIDE DEF m
    <3>3. m \in hits /\ \A y \in hits : m <= y
      BY <3>2 DEF m
    <3>4. m <= k /\ k <= m /\ m \in Nat /\ k \in Nat
      BY <2>1, <3>1, <3>3
    <3>5. QED  BY <3>4 DEF m
  <2>4. S!From(u, M) = SubSeq(u, k, Len(u))
    BY <1>4, <2>3 DEF S!From
  <2>5. SubSeq(u, k, Len(u)) = SubSeq(t, j + k - 1, Len(t))
    <3>1. j \in 1 .. Len(t) /\ Len(t) \in 1 .. Len(t) /\ k \in 1 .. Len(t) - j + 1
          /\ Len(t) - j + 1 \in 1 .. Len(t) - j + 1
      BY <1>1, <2>2 DEF n
    <3>2. j + (Len(t) - j + 1) - 1 = Len(t)
      BY <1>1
    <3>3. SubSeq(SubSeq(t, j, Len(t)), k, Len(t) - j + 1) = SubSeq(t, j + k - 1, j + (Len(t) - j + 1) - 1)
      BY <3>1, SubSeqOfSubSeq
    <3>4. QED  BY <1>2, <3>2, <3>3 DEF u, n
  <2>6. Least(t, M, j, j + k - 1)
    <3>1. j + k - 1 \in j .. Len(t)
      BY <1>1, <2>2 DEF n
    <3>2. ASSUME NEW x \in j .. j + k - 2 PROVE t[x] \notin M
      <4>1. x - j + 1 \in 1 .. n /\ x - j + 1 < k /\ j + (x - j + 1) - 1 = x
        BY <1>1, <2>2, <3>1 DEF n
      <4>2. u[x - j + 1] \notin M
        BY <2>2, <4>1
      <4>3. QED  BY <1>2, <4>1, <4>2
    <3>3. t[j + k - 1] \in M
      BY <1>2, <2>2
    <3>4. QED  BY <1>1, <2>2, <3>1, <3>2, <3>3 DEF Least
  <2>7. QED  BY <2>4, <2>5, <2>6 DEF u
<1>5. QED  BY <1>3, <1>4

\* A sequence read from its end has its length, and its elements.
LEMMA Reversed ==
  ASSUME NEW s \in Seq(S!Marks)
  PROVE  /\ S!Reverse(s) \in Seq(S!Marks) /\ Len(S!Reverse(s)) = Len(s)
         /\ \A i \in 1 .. Len(s) : S!Reverse(s)[i] = s[Len(s) - i + 1]
<1>1. Len(s) \in Nat
  OBVIOUS
<1>2. \A i \in 1 .. Len(s) : s[Len(s) - i + 1] \in S!Marks
  BY <1>1
<1>3. S!Reverse(s) \in [1 .. Len(s) -> S!Marks]
  BY <1>2 DEF S!Reverse
<1>4. S!Reverse(s) \in Seq(S!Marks) /\ Len(S!Reverse(s)) = Len(s)
  BY <1>1, <1>3
<1>5. QED  BY <1>4 DEF S!Reverse

\* The end of a text is its suffix.
LEMMA EndIsSuffix ==
  ASSUME NEW t \in Seq(S!Marks), NEW q \in 1 .. Len(t) + 1
  PROVE  S!IsSuffix(SubSeq(t, q, Len(t)), t)
<1> DEFINE c == SubSeq(t, q, Len(t))
           rc == S!Reverse(c)
           rt == S!Reverse(t)
           n == Len(t) - q + 1
<1>1. Len(t) \in Nat /\ n \in 0 .. Len(t)
  OBVIOUS
<1>2. c \in Seq(S!Marks) /\ Len(c) = n /\ \A i \in 1 .. n : c[i] = t[q + i - 1]
  <2>1. \A i \in q .. Len(t) : t[i] \in S!Marks
    OBVIOUS
  <2>2. QED  BY <1>1, <2>1, SubSeqProperties
<1> HIDE DEF c, n
<1>3. /\ rc \in Seq(S!Marks) /\ Len(rc) = n
      /\ \A i \in 1 .. n : rc[i] = c[n - i + 1]
  BY <1>2, Reversed
<1>4. /\ rt \in Seq(S!Marks) /\ Len(rt) = Len(t)
      /\ \A i \in 1 .. Len(t) : rt[i] = t[Len(t) - i + 1]
  BY Reversed
<1> HIDE DEF rc, rt
<1>5. ASSUME NEW i \in 1 .. n PROVE rc[i] = rt[i]
  <2>1. i \in 1 .. Len(t) /\ n - i + 1 \in 1 .. n /\ q + (n - i + 1) - 1 = Len(t) - i + 1
    BY <1>1 DEF n
  <2>2. rc[i] = t[q + (n - i + 1) - 1]
    BY <1>2, <1>3, <2>1
  <2>3. QED  BY <1>4, <2>1, <2>2
<1>6. SubSeq(rc, 1, n) = SubSeq(rt, 1, n)
  <2>1. /\ SubSeq(rc, 1, n) \in Seq(S!Marks) /\ Len(SubSeq(rc, 1, n)) = n
        /\ \A i \in 1 .. n : SubSeq(rc, 1, n)[i] = rc[i]
    <3>1. \A i \in 1 .. n : rc[i] \in S!Marks
      BY <1>3
    <3>2. QED  BY <1>1, <1>3, <3>1, SubSeqProperties
  <2>2. /\ SubSeq(rt, 1, n) \in Seq(S!Marks) /\ Len(SubSeq(rt, 1, n)) = n
        /\ \A i \in 1 .. n : SubSeq(rt, 1, n)[i] = rt[i]
    <3>1. \A i \in 1 .. n : rt[i] \in S!Marks
      BY <1>1, <1>4
    <3>2. QED  BY <1>1, <1>4, <3>1, SubSeqProperties
  <2>3. QED  BY <1>5, <2>1, <2>2, SeqEqual
<1>7. QED  BY <1>1, <1>3, <1>4, <1>6 DEF S!IsSuffix, S!IsPrefix, c, rc, rt

\* What Body takes off a script is its first line and the line ends behind it,
\* however long the script.
LEMMA BodyTakesFirstLine ==
  ASSUME NEW t \in Seq(S!Marks), S!IsShebang(t)
  PROVE  S!TakesFirstLine(t, S!Body(t))
<1> DEFINE code == S!Body(t)
<1>1. Len(t) \in Nat /\ Len(t) > 2 /\ 3 \in 1 .. Len(t) + 1 /\ t[1] = "#" /\ t[2] = "!"
  BY DEF S!IsShebang
<1>2. PICK e : /\ Least(t, S!LineEnds, 3, e)
               /\ S!From(SubSeq(t, 3, Len(t)), S!LineEnds) = SubSeq(t, e, Len(t))
  BY <1>1, FromSuffix
<1>3. e \in 3 .. Len(t) + 1 /\ e \in 1 .. Len(t) + 1
  BY <1>1, <1>2 DEF Least
<1>4. PICK q : /\ Least(t, S!Marks \ S!LineEnds, e, q)
               /\ S!From(SubSeq(t, e, Len(t)), S!Marks \ S!LineEnds) = SubSeq(t, q, Len(t))
  BY <1>3, FromSuffix
<1>5. q \in e .. Len(t) + 1 /\ q \in 1 .. Len(t) + 1
  BY <1>1, <1>3, <1>4 DEF Least
<1>6. code = SubSeq(t, q, Len(t))
  BY <1>2, <1>4 DEF S!Body
<1>7. \A x \in 1 .. Len(t) : t[x] \in S!Marks
  OBVIOUS
<1>8. Len(code) = Len(t) - q + 1 /\ \A x \in 1 .. Len(t) - q + 1 : code[x] = t[q + x - 1]
  <2>1. \A x \in q .. Len(t) : t[x] \in S!Marks
    BY <1>5, <1>7
  <2>2. QED  BY <1>1, <1>5, <1>6, <2>1, SubSeqProperties
<1>9. S!IsSuffix(code, t)
  BY <1>5, <1>6, EndIsSuffix
<1> HIDE DEF code
<1> DEFINE line == SubSeq(t, 1, e - 1)
           ends == SubSeq(t, e, q - 1)
<1>10. /\ line \in Seq(S!Marks) /\ Len(line) = e - 1
       /\ \A x \in 1 .. e - 1 : line[x] = t[x]
  <2>1. \A x \in 1 .. e - 1 : t[x] \in S!Marks
    BY <1>1, <1>3, <1>7
  <2>2. QED  BY <1>1, <1>3, <2>1, SubSeqProperties
<1>11. /\ ends \in Seq(S!Marks) /\ Len(ends) = q - e
       /\ \A x \in 1 .. q - e : ends[x] = t[e + x - 1]
  <2>1. \A x \in e .. q - 1 : t[x] \in S!Marks
    BY <1>1, <1>3, <1>5, <1>7
  <2>2. QED  BY <1>1, <1>3, <1>5, <2>1, SubSeqProperties
<1> HIDE DEF line, ends
<1>12. S!ToSet(line) \cap {"n", "r"} = {}
  <2>1. ASSUME NEW x \in 1 .. e - 1 PROVE t[x] \notin {"n", "r"}
    <3>1. x \in 3 .. e - 1 \/ x = 1 \/ x = 2
      BY <1>3
    <3>2. \A y \in 3 .. e - 1 : t[y] \notin {"n", "r"}
      BY <1>2 DEF Least, S!LineEnds
    <3>3. QED  BY <1>1, <3>1, <3>2
  <2>2. DOMAIN line = 1 .. e - 1
    BY <1>10
  <2>3. QED  BY <1>10, <2>1, <2>2 DEF S!ToSet
<1>13. S!ToSet(ends) \subseteq {"n", "r"}
  <2>1. ASSUME NEW x \in 1 .. q - e PROVE ends[x] \in {"n", "r"}
    <3>1. e + x - 1 \in e .. q - 1 /\ e + x - 1 \in 1 .. Len(t)
      BY <1>1, <1>3, <1>5
    <3>2. t[e + x - 1] \notin S!Marks \ S!LineEnds
      BY <1>4, <3>1 DEF Least
    <3>3. QED  BY <1>7, <1>11, <3>1, <3>2 DEF S!LineEnds
  <2>2. DOMAIN ends = 1 .. q - e
    BY <1>11, <1>3, <1>5
  <2>3. QED  BY <2>1, <2>2 DEF S!ToSet
<1>14. code # << >> => ends # << >> /\ code[1] \notin {"n", "r"}
  <2> SUFFICES ASSUME code # << >> PROVE ends # << >> /\ code[1] \notin {"n", "r"}
    OBVIOUS
  <2>1. q <= Len(t)
    <3>1. q > Len(t) => code = << >>
      BY <1>1, <1>5, <1>6, SubSeqEmpty
    <3>2. QED  BY <1>1, <1>5, <3>1
  <2>2. t[q] \in S!Marks \ S!LineEnds
    BY <1>4, <2>1 DEF Least
  <2>3. q # e
    <3>1. e <= Len(t) => t[e] \in S!LineEnds
      BY <1>2 DEF Least
    <3>2. QED  BY <2>1, <2>2, <3>1
  <2>4. Len(ends) > 0
    BY <1>3, <1>5, <1>11, <2>3
  <2>5. code[1] = t[q]
    BY <1>1, <1>5, <1>8, <2>1
  <2>6. QED  BY <2>2, <2>4, <2>5 DEF S!LineEnds
<1>15. /\ e - 1 \in 2 .. Len(t) /\ Len(code) <= Len(t) - (e - 1)
       /\ (e - 1) + 1 = e /\ Len(t) - Len(code) = q - 1
  BY <1>1, <1>3, <1>5, <1>8
<1>16. SubSeq(t, (e - 1) + 1, Len(t) - Len(code)) = ends
  BY <1>15 DEF ends
<1>17. QED  BY <1>9, <1>12, <1>13, <1>14, <1>15, <1>16 DEF S!TakesFirstLine, code, line

-----------------------------------------------------------------------------
\* The invariant of the process: those of its parts, and what they are to each other.
THEOREM InductiveInvariant == Spec => []IInv
<1>1. IInv /\ [Next]_vars => IInv'
  BY PartsStep, ServersStep, EndStep DEF IInv
<1>2. QED  BY InitIInv, <1>1, PTL DEF Spec

\* Every part keeps its ranges in the process.
THEOREM TypeCorrect == Spec => []TypeOK
<1>1. IInv => TypeOK
  BY SameFiles, SameRuns, Zenon DEF IInv, PartsInv, FP!IInv, RP!IInv, TypeOK
<1>2. QED  BY <1>1, InductiveInvariant, PTL

\* Whatever was proved of the streams and of the threads alone holds in jssh: the
\* servers and the interpreter beside them take nothing away.
THEOREM PartsHold == Spec => [](FP!IInv /\ RP!IInv)
<1>1. IInv => FP!IInv /\ RP!IInv
  BY DEF IInv, PartsInv
<1>2. QED  BY <1>1, InductiveInvariant, PTL

\* Once httpd() has been called, the shell neither closes its streams nor exits:
\* run_done waits for a thread that does not end.
THEOREM ServerHolds == Spec => []ServerHoldsTheShell
<1>1. IInv => ServerHoldsTheShell
  BY DEF IInv
<1>2. QED  BY <1>1, InductiveInvariant, PTL

\* Once a server has its port, a write to a command that has ended, or the close
\* that flushes to it, no longer kills the process.
THEOREM ServerShields == Spec => ServerShieldsPipes
<1> DEFINE Shielded == bound # {} /\ filePc # "wild" => filePc' # "dead"
<1>1. IInv /\ [Next]_vars => [Shielded]_vars
  <2> SUFFICES ASSUME IInv, Next, bound # {}, filePc # "wild", filePc' = "dead" PROVE FALSE
    BY Zenon
  <2>1. filePc # "dead"
    BY DEF Next, Dead
  <2>2. \A s : ~F!Broken(s)
    BY DEF IInv, ServersIgnore, F!Broken
  <2>3. CASE Stream
    BY <2>1, <2>2, <2>3 DEF Stream, F!Fopen, F!Popen, F!Open, F!ReadLine, F!WriteString,
       F!WriteArg, F!CloseStream, F!Enter, F!Used, F!Closing, F!FileClose, F!Release
  <2>4. CASE Uninstall
    BY <2>1, <2>2, <2>4 DEF Uninstall, F!ScriptEnds, F!Uninstall, F!TakeOldest, F!FileClose, F!Free, F!Exit
  <2>5. CASE Interpret \/ Httpd \/ NoMore \/ RunDone \/ Finish \/ Serve \/ HeapAborts
    BY <2>1, <2>5 DEF Interpret, Httpd, NoMore, RunDone, Finish, Serve, HeapAborts, streams
  <2>6. CASE Command
    BY <2>1, <2>6 DEF Command, F!CommandEnds
  <2>7. QED  BY <2>3, <2>4, <2>5, <2>6, Zenon DEF Next
<1>2. QED  BY <1>1, InductiveInvariant, PTL DEF Spec, ServerShieldsPipes

\* A script loses its "#!" line and the line ends behind it and nothing else,
\* whatever its text and however it ends its lines: for a script of any length.
THEOREM FirstLineGoes == Spec => []OnlyFirstLineGoes
<1>1. ASSUME NEW t \in S!Texts PROVE t \in Seq(S!Marks)
  BY JsshAssumption DEF S!Texts
<1>2. S!ForEveryText
  BY <1>1, BodyTakesFirstLine DEF S!ForEveryText, S!Body
<1>3. OnlyFirstLineGoes
  BY <1>2 DEF OnlyFirstLineGoes, S!OnlyFirstLineGoes
<1>4. QED  BY <1>3, PTL
=============================================================================
