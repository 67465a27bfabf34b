-------------------------------- MODULE Runs ---------------------------------
(***************************************************************************)
(* The managed threads of js-clib/common.c: run, run_cancel and run_done   *)
(* over run_thread, wait_thread and destroy_thread.  One thread, that of   *)
(* the scripts, makes these calls; the threads it started run beside it.   *)
(*                                                                         *)
(* Each run makes one thread record inside one node of the table           *)
(* _run_res_mgn; both carry the serial number of the run.                  *)
(*                                                                         *)
(* The size that run asks for is, by the precedence of ?:, that of the     *)
(* parameter (or nothing), not that of the record: filling the record in   *)
(* writes past the node.  The outcomes are that the neighbour is padding,  *)
(* or that the heap is broken and any later use of it may abort.           *)
(***************************************************************************)
EXTENDS IdTable, FiniteSets

CONSTANT
  MaxRuns   \* bound: how many threads a behaviour may start

Records == 1 .. MaxRuns

ASSUME RunsAssumption ==
  /\ MaxRuns \in Nat
  /\ MaxRuns <= 2 * IntMax + 2   \* no more threads than ids

VARIABLES
  mgn,      \* does _run_res_mgn point to a table?
  lastId,   \* its last_id
  made,     \* how many records were made
  linked,   \* the records in the table
  freed,    \* the records given back
  idOf,     \* record -> the id of its node
  inst,     \* the records whose inst points to a pthread_t
  thr,      \* record -> "none", "failed", "running", "ended" or "joined"
  serves,   \* the records whose function never returns, as _httpd
  bound,    \* the records whose thread has bound the port of httpd
  asked,    \* the records pthread_cancel was called for before their join
  heap,     \* "ok" or "broken"
  pc,       \* where the calling thread is
  cur       \* the record its call works on

table == <<mgn, lastId, made, linked, freed, idOf>>
vars  == <<mgn, lastId, made, linked, freed, idOf, inst, thr, serves, bound, asked, heap, pc, cur>>
threads == <<inst, thr, serves, bound, asked>>

\* "dead": the process was killed, by abort in the heap, by a bad pthread_t or by
\* the null connection of a second httpd.
PCs == {"script", "fill", "start", "any", "join", "destroy", "release", "returned", "dead"}

-----------------------------------------------------------------------------
Init ==
  /\ mgn = FALSE /\ lastId = 0 /\ made = 0 /\ linked = {} /\ freed = {}
  /\ idOf = [n \in Records |-> 0]
  /\ inst = {} /\ serves = {} /\ bound = {} /\ asked = {}
  /\ thr = [n \in Records |-> "none"]
  /\ heap = "ok" /\ pc = "script" /\ cur = NoNode

Dies == pc' = "dead" /\ UNCHANGED <<table, threads, heap, cur>>
\* On a broken heap any allocation or free may abort: of a call below, of a
\* thread beside it, or of what the program does between these calls.
Abort == heap = "broken" /\ pc # "dead" /\ Dies

-----------------------------------------------------------------------------
(* run *)

\* The table is made on first use; res_create links a node for the record.
Run ==
  /\ pc = "script"
  /\ made < MaxRuns
  /\ mgn' = TRUE
  /\ made' = made + 1
  /\ linked' = linked \cup {made + 1}
  /\ idOf' = [idOf EXCEPT ![made + 1] = NewId(linked, idOf, lastId)]
  /\ lastId' = LastAfter(linked, idOf, lastId)
  /\ cur' = made + 1
  /\ pc' = "fill"
  /\ UNCHANGED <<freed, threads, heap>>

\* The parameter is copied and run_thread clears the record: past the node.
Fill ==
  /\ pc = "fill"
  /\ heap' \in {heap, "broken"}
  /\ pc' = "start"
  /\ UNCHANGED <<table, threads, cur>>

\* run_thread: inst is allocated; the result of pthread_create is not looked at.
Start ==
  /\ pc = "start"
  /\ inst' = inst \cup {cur}
  /\ thr' \in {[thr EXCEPT ![cur] = "running"], [thr EXCEPT ![cur] = "failed"]}
  /\ serves' \in {serves, serves \cup {cur}}
  /\ pc' = "script" /\ cur' = NoNode
  /\ UNCHANGED <<table, bound, asked, heap>>

\* run_cancel of an id that run returned; the pthread_t of a thread that was
\* never created is zero, which pthread_cancel does not survive.
RunCancel ==
  /\ pc = "script"
  /\ mgn
  /\ \E n \in linked :
       /\ IF thr[n] = "failed"
          THEN pc' = "dead" /\ UNCHANGED asked
          ELSE asked' = asked \cup {n} /\ UNCHANGED pc
  /\ UNCHANGED <<table, inst, thr, serves, bound, heap, cur>>

-----------------------------------------------------------------------------
(* The threads. *)

\* The thread function returns, or the thread meets a cancellation point.
Ends(n) ==
  /\ thr[n] = "running"
  /\ n \notin serves \/ n \in asked
  /\ pc # "dead"
  /\ thr' = [thr EXCEPT ![n] = "ended"]
  /\ UNCHANGED <<table, inst, serves, bound, asked, heap, pc, cur>>

ManyBind(n) == TRUE             \* mutant: the port can be shared
\* External: a socket stays bound to the port until the process ends, also when
\* its thread was cancelled.
PortFree(n) == bound = {}

\* _httpd: mg_bind, which also fails when another process has the port; its NULL
\* goes to mg_set_protocol_http_websocket, which writes to it.
Bind(n) ==
  /\ thr[n] = "running" /\ n \in serves \ bound
  /\ pc # "dead"
  /\ \/ PortFree(n) /\ bound' = bound \cup {n} /\ UNCHANGED pc
     \/ pc' = "dead" /\ UNCHANGED bound
  /\ UNCHANGED <<table, inst, thr, serves, asked, heap, cur>>

-----------------------------------------------------------------------------
(* run_done *)

\* main calls run_done when the scripts are over; without a table it returns.
RunDone ==
  /\ pc = "script"
  /\ pc' = IF mgn THEN "any" ELSE "returned"
  /\ UNCHANGED <<table, threads, heap, cur>>

Positive(id) == id > 0          \* mutant: the first run is not waited for
\* The condition of the loop.
GoesOn(id) == id >= 0

\* The loop asks for any run.  When it stops the table is released; the nodes
\* still in it, if there are any, are not.
Pick ==
  /\ pc = "any"
  /\ \/ /\ GoesOn(AnyId(linked, idOf))
        /\ cur' = At(linked, idOf, AnyId(linked, idOf))
        /\ pc' = "join"
        /\ UNCHANGED <<mgn, lastId, made, linked, freed, idOf>>
     \/ /\ ~GoesOn(AnyId(linked, idOf))
        /\ mgn' = FALSE
        /\ linked' = {}
        /\ pc' = "returned"
        /\ UNCHANGED <<lastId, made, freed, idOf, cur>>
  /\ UNCHANGED <<threads, heap>>

EndedOrNot(n) == TRUE           \* mutant: run_done does not wait
\* pthread_join returns.
Joinable(n) == thr[n] = "ended"

\* wait_thread: a zero pthread_t is not survived; else wait for the end.
Join ==
  /\ pc = "join"
  /\ \/ /\ thr[cur] = "failed"
        /\ pc' = "dead"
        /\ UNCHANGED thr
     \/ /\ thr[cur] # "failed"
        /\ Joinable(cur)
        /\ thr' = [thr EXCEPT ![cur] = IF @ = "ended" THEN "joined" ELSE @]
        /\ pc' = "destroy"
  /\ UNCHANGED <<table, inst, serves, bound, asked, heap, cur>>

\* destroy_thread: pthread_cancel of the thread just joined, which is undefined
\* (it may find no thread, or no memory), then inst is given back; the record is
\* the table's to free.
Destroy ==
  /\ pc = "destroy"
  /\ \/ Dies
     \/ /\ inst' = inst \ {cur}
        /\ pc' = "release"
        /\ UNCHANGED <<table, thr, serves, bound, asked, heap, cur>>

\* res_release
Release ==
  /\ pc = "release"
  /\ linked' = Unlinked(linked, cur)
  /\ freed' = freed \cup {cur}
  /\ pc' = "any" /\ cur' = NoNode
  /\ UNCHANGED <<mgn, lastId, made, idOf, threads, heap>>

-----------------------------------------------------------------------------
Script  == Run \/ RunCancel \/ RunDone
Working == Fill \/ Start \/ Pick \/ Join \/ Destroy \/ Release

Next == Script \/ Working \/ Abort \/ \E n \in Records : Ends(n) \/ Bind(n)

\* The calling thread runs when it can, and so do the threads it started.
Fairness == WF_vars(Working) /\ \A n \in Records : WF_vars(Ends(n)) /\ WF_vars(Bind(n))

Spec == Init /\ [][Next]_vars
FairSpec == Spec /\ Fairness
-----------------------------------------------------------------------------
(* Properties. *)

\* Every variable keeps its range; last_id of _run_res_mgn stays an int.
TypeOK ==
  /\ mgn \in BOOLEAN
  /\ lastId \in Ids
  /\ made \in 0 .. MaxRuns
  /\ linked \in SUBSET Records
  /\ freed \in SUBSET Records
  /\ idOf \in [Records -> Ids]
  /\ inst \in SUBSET Records
  /\ thr \in [Records -> {"none", "failed", "running", "ended", "joined"}]
  /\ serves \in SUBSET Records
  /\ bound \in SUBSET Records
  /\ asked \in SUBSET Records
  /\ heap \in {"ok", "broken"}
  /\ pc \in PCs
  /\ cur \in Records \cup {NoNode}

\* The record that holds a thread's parameter is not freed while it runs.
RecordOutlivesThread == \A n \in Records : thr[n] = "running" => n \notin freed

\* run_done dereferences inst only of a record that has one, and joins no
\* thread a second time.
JoinsOnce == pc = "join" => cur \in inst /\ thr[cur] # "joined"

\* Until last_id wraps, no thread outlives run_done: main goes on to close the
\* files and destroy the interpreter alone.
NoneOutlives ==
  pc = "returned" /\ made <= IntMax + 1 => \A n \in 1 .. made : thr[n] = "joined"

\* Every call of run_done returns, if the process lives and no thread that
\* serves for ever is left uncancelled.
Servers == {n \in serves \ asked : thr[n] = "running"}
RunDoneReturns == pc = "any" ~> pc \in {"returned", "dead"} \/ Servers # {}

\* Two servers are never left running: the one that comes second to mg_bind ends
\* the process, if it is not cancelled before.
SecondServerDies == Cardinality(Servers) > 1 ~> pc = "dead" \/ Cardinality(Servers) <= 1
=============================================================================
