------------------------------ MODULE ResTable ------------------------------
(***************************************************************************)
(* The resource table of js-clib/common.c (struct res_mgn_ and the res_*   *)
(* functions): a mutex-protected hash of res_ nodes, each under an int id  *)
(* taken from the counter last_id.  Every thread may be inside one call.   *)
(* A call is split where another thread could get in: waiting for the      *)
(* mutex, each access inside the critical section, the unlock, and the     *)
(* copy that res_create_and_clone makes after the mutex is released.       *)
(*                                                                         *)
(* A node is the serial number of its allocation.  HASH_ADD_INT appends to *)
(* the application-order list of the hash, under the same critical section *)
(* that allocates the node, so that list is the set head in the order of   *)
(* the serial numbers.                                                     *)
(***************************************************************************)
EXTENDS Integers, FiniteSets

CONSTANTS
  Threads,    \* the callers of the table
  NoThread,   \* no thread: a free mutex, or zeroed data
  IntMax,     \* the largest int; ids range over -IntMax-1 .. IntMax
  MaxNodes,   \* bound: how many nodes a behaviour may allocate
  MaxLive,    \* bound: how many nodes may be in the table at a time
  Shared      \* may a thread name an id that another thread created?

Ids    == (-IntMax - 1) .. IntMax
Nodes  == 1 .. MaxNodes
NoNode == 0
Ops    == {"create", "clone", "get", "release", "any", "all"}
Creates == {"create", "clone"}
\* The steps taken while the calling thread owns the mutex.
Critical == {"probe", "add", "find", "del", "iter", "drain", "unlock"}
PCs    == {"idle", "lock", "copy"} \cup Critical

ASSUME TableAssumption ==
  /\ NoThread \notin Threads
  /\ IntMax \in Nat
  /\ MaxNodes \in Nat
  /\ MaxLive \in Nat
  /\ MaxLive <= 2 * IntMax + 1   \* fewer entries than ids: 2^32 nodes never fit
  /\ Shared \in BOOLEAN

VARIABLES
  lastId,   \* mgn->last_id
  head,     \* mgn->head: the nodes linked in the hash
  mutex,    \* the owner of mgn->mutex
  made,     \* how many nodes were allocated
  idOf,     \* node -> res->id
  data,     \* node -> res->data: NoThread while zeroed, else who filled it
  freed,    \* the nodes given back by plat_mem_release
  pc,       \* thread -> where it is in its call
  op,       \* thread -> the function it is in
  arg,      \* thread -> the id argument, or the local id of create and any
  node,     \* thread -> the local res
  held      \* ghost, unless Shared: thread -> the nodes it created and did not release

heap == <<made, idOf, data, freed>>
vars == <<lastId, head, mutex, made, idOf, data, freed, pc, op, arg, node, held>>

-----------------------------------------------------------------------------
SuccUnbounded(i) == i + 1     \* mutant: an int that never wraps
SuccStuck(i)     == i         \* mutant: the ++ is lost
\* mgn->last_id++ on an int: the compiled increment wraps.
Succ(i) == IF i = IntMax THEN -IntMax - 1 ELSE i + 1

\* HASH_FIND_INT: the node linked under id i, or NULL.
Lookup(i) == LET hit == {n \in head : idOf[n] = i}
             IN  IF hit = {} THEN NoNode ELSE CHOOSE n \in hit : TRUE

NeverTaken(i) == FALSE        \* mutant: res_create does not look the id up
\* The test that sends res_create round its loop again.
Taken(i) == Lookup(i) # NoNode

\* HASH_DEL
Unlinked(n) == head \ {n}

\* The ends of the application-order list.
IsOldest(n) == n \in head /\ \A m \in head : n <= m
IsNewest(n) == n \in head /\ \A m \in head : m <= n

\* res_create_management: zeroed memory and an initialized mutex.
Init ==
  /\ lastId = 0
  /\ head = {}
  /\ mutex = NoThread
  /\ made = 0
  /\ idOf = [n \in Nodes |-> 0]
  /\ data = [n \in Nodes |-> NoThread]
  /\ freed = {}
  /\ pc = [t \in Threads |-> "idle"]
  /\ op = [t \in Threads |-> "any"]
  /\ arg = [t \in Threads |-> 0]
  /\ node = [t \in Threads |-> NoNode]
  /\ held = [t \in Threads |-> {}]

-----------------------------------------------------------------------------
(* What callers may ask for. *)

\* The creations under way, which count against both bounds.
Creating == {t \in Threads : pc[t] # "idle" /\ op[t] \in Creates}
Room == /\ made + Cardinality(Creating) < MaxNodes
        /\ Cardinality(head) + Cardinality(Creating) < MaxLive

\* The ids thread t may pass: its own, or any when ids are shared.
Known(t) == IF Shared THEN Ids ELSE {idOf[n] : n \in held[t]}

Call(t, o, i) ==
  /\ pc[t] = "idle"
  /\ pc' = [pc EXCEPT ![t] = "lock"]
  /\ op' = [op EXCEPT ![t] = o]
  /\ arg' = [arg EXCEPT ![t] = i]
  /\ held' = [held EXCEPT ![t] = IF o = "release" THEN {n \in @ : idOf[n] # i} ELSE @]
  /\ UNCHANGED <<lastId, head, mutex, heap, node>>

CallCreate(t)  == Room /\ \E o \in Creates : Call(t, o, 0)
CallGet(t)     == \E i \in Known(t) : Call(t, "get", i)
CallRelease(t) == \E i \in Known(t) : Call(t, "release", i)
CallAny(t)     == Call(t, "any", 0)
\* Emptying the table takes every node from its owner: a shared-table call.
CallAll(t)     == Shared /\ Call(t, "all", 0)

-----------------------------------------------------------------------------
(* The steps of a call. *)

\* The first step under the mutex.
Entry(o) == IF o \in Creates THEN "probe"
            ELSE IF o \in {"get", "release"} THEN "find"
            ELSE IF o = "any" THEN "iter" ELSE "drain"

AlwaysFree == TRUE            \* mutant: no mutex
MutexFree == mutex = NoThread

\* pthread_mutex_lock
Acquire(t) ==
  /\ pc[t] = "lock"
  /\ MutexFree
  /\ mutex' = t
  /\ pc' = [pc EXCEPT ![t] = Entry(op[t])]
  /\ UNCHANGED <<lastId, head, heap, op, arg, node, held>>

\* One turn of res_create's loop: take the next id, go on if it is free.
Probe(t) ==
  /\ pc[t] = "probe"
  /\ arg' = [arg EXCEPT ![t] = lastId]
  /\ lastId' = Succ(lastId)
  /\ pc' = [pc EXCEPT ![t] = IF Taken(lastId) THEN "probe" ELSE "add"]
  /\ UNCHANGED <<head, mutex, heap, op, node, held>>

\* Allocate the zeroed node, set its id, link it, hand out res->data.
Add(t) ==
  /\ pc[t] = "add"
  /\ made < MaxNodes
  /\ made' = made + 1
  /\ head' = head \cup {made + 1}
  /\ idOf' = [idOf EXCEPT ![made + 1] = arg[t]]
  /\ node' = [node EXCEPT ![t] = made + 1]
  /\ pc' = [pc EXCEPT ![t] = "unlock"]
  /\ UNCHANGED <<lastId, mutex, data, freed, op, arg, held>>

\* The lookup of res_get and res_release.
Find(t) ==
  /\ pc[t] = "find"
  /\ node' = [node EXCEPT ![t] = Lookup(arg[t])]
  /\ pc' = [pc EXCEPT ![t] = IF op[t] = "release" /\ Lookup(arg[t]) # NoNode
                             THEN "del" ELSE "unlock"]
  /\ UNCHANGED <<lastId, head, mutex, heap, op, arg, held>>

\* HASH_DEL and plat_mem_release of the node res_release found.
Del(t) ==
  /\ pc[t] = "del"
  /\ head' = Unlinked(node[t])
  /\ freed' = freed \cup {node[t]}
  /\ pc' = [pc EXCEPT ![t] = "unlock"]
  /\ UNCHANGED <<lastId, mutex, made, idOf, data, op, arg, node, held>>

\* res_any walks the whole list: the last id it saw, or -1.
Iter(t) ==
  /\ pc[t] = "iter"
  /\ \/ head = {} /\ arg' = [arg EXCEPT ![t] = -1]
     \/ \E n \in head : IsNewest(n) /\ arg' = [arg EXCEPT ![t] = idOf[n]]
  /\ pc' = [pc EXCEPT ![t] = "unlock"]
  /\ UNCHANGED <<lastId, head, mutex, heap, op, node, held>>

\* One turn of res_release_all: unlink, call back, free; or leave the loop.
Drain(t) ==
  /\ pc[t] = "drain"
  /\ \/ /\ head = {}
        /\ pc' = [pc EXCEPT ![t] = "unlock"]
        /\ UNCHANGED <<head, freed>>
     \/ \E n \in head :
        /\ IsOldest(n)
        /\ head' = Unlinked(n)
        /\ freed' = freed \cup {n}
        /\ UNCHANGED pc
  /\ UNCHANGED <<lastId, mutex, made, idOf, data, op, arg, node, held>>

\* The call returns: its locals are gone, and a creation is its caller's.
Return(t) ==
  /\ pc' = [pc EXCEPT ![t] = "idle"]
  /\ op' = [op EXCEPT ![t] = "any"]
  /\ arg' = [arg EXCEPT ![t] = 0]
  /\ node' = [node EXCEPT ![t] = NoNode]
  /\ held' = IF op[t] \in Creates /\ ~Shared
             THEN [held EXCEPT ![t] = @ \cup {node[t]}] ELSE held

\* pthread_mutex_unlock; only res_create_and_clone has work left, and only
\* when the id is not negative.
Unlock(t) ==
  /\ pc[t] = "unlock"
  /\ mutex' = NoThread
  /\ IF op[t] = "clone" /\ arg[t] >= 0
     THEN pc' = [pc EXCEPT ![t] = "copy"] /\ UNCHANGED <<op, arg, node, held>>
     ELSE Return(t)
  /\ UNCHANGED <<lastId, head, heap>>

LookedUp(t) == Lookup(arg[t]) \* mutant: the copy looks its node up again
\* Where the copy goes: the address that res_create handed out.
Target(t) == node[t]

\* plat_mem_copy into the new node, after the unlock; also when the node was given
\* back meanwhile, which writes to freed memory.
Copy(t) ==
  /\ pc[t] = "copy"
  /\ data' = [data EXCEPT ![Target(t)] = t]
  /\ Return(t)
  /\ UNCHANGED <<lastId, head, mutex, made, idOf, freed>>

-----------------------------------------------------------------------------
Invoke(t) == CallCreate(t) \/ CallGet(t) \/ CallRelease(t) \/ CallAny(t) \/ CallAll(t)

Inside(t) == Probe(t) \/ Add(t) \/ Find(t) \/ Del(t) \/ Iter(t) \/ Drain(t) \/ Unlock(t)

Next == \E t \in Threads : Invoke(t) \/ Acquire(t) \/ Inside(t) \/ Copy(t)

\* A thread that owns the mutex, or only has its copy left, is never blocked,
\* so the OS scheduler runs it.  Nothing is assumed of who gets the mutex.
Fairness == \A t \in Threads : WF_vars(Inside(t)) /\ WF_vars(Copy(t))

Spec     == Init /\ [][Next]_vars
FairSpec == Spec /\ Fairness
-----------------------------------------------------------------------------
(* Properties. *)

\* Every variable keeps its range; last_id stays an int however often res_create
\* increments it.
TypeOK ==
  /\ lastId \in Ids
  /\ head \in SUBSET Nodes
  /\ mutex \in Threads \cup {NoThread}
  /\ made \in 0 .. MaxNodes
  /\ idOf \in [Nodes -> Ids]
  /\ data \in [Nodes -> Threads \cup {NoThread}]
  /\ freed \in SUBSET Nodes
  /\ pc \in [Threads -> PCs]
  /\ op \in [Threads -> Ops]
  /\ arg \in [Threads -> Ids]
  /\ node \in [Threads -> Nodes \cup {NoNode}]
  /\ held \in [Threads -> SUBSET Nodes]

\* No two live entries answer to one id, although last_id wraps and comes back
\* to ids still in use: what the lookup in the loop of res_create is for.
UniqueIds == \A m, n \in head : idOf[m] = idOf[n] => m = n

\* The node res_release is about to unlink and free is linked and was not
\* freed: its lookup and its HASH_DEL are not separated by another call.
FreesLinked == \A t \in Threads : pc[t] = "del" => node[t] \in head \ freed

\* While threads keep to the ids they created, an entry stays in the table,
\* with nobody else's data, until its owner calls res_release: no wrapped id
\* and no interleaving makes one thread release or fill another one's entry.
OwnersKeepTheirs == ~Shared =>
  \A t \in Threads : \A n \in held[t] : n \in head \ freed /\ data[n] \in {t, NoThread}

\* Under the same rule the copy that res_create_and_clone makes after the unlock
\* goes into the node it made: not released, not filled by another, although every
\* thread could find it since the unlock.
CopiesIntoOwn == ~Shared =>
  \A t \in Threads : pc[t] = "copy" => node[t] \in head \ freed /\ data[node[t]] = NoThread

\* Under the same rule res_get finds the caller's own node.
OwnerGetsOwn == ~Shared =>
  \A t \in Threads : pc[t] = "unlock" /\ op[t] = "get" => node[t] \in held[t]

\* Ids, nodes and what is in the nodes change as ResAtomic promises.  A call has
\* had its effect on the table once it is past the step that decides its answer;
\* res_release_all empties the table, for everyone else, when it gets the mutex.
\* res_create_and_clone is not atomic and not claimed to be: its copy is a second
\* instant, at its return.
Draining == \E t \in Threads : pc[t] = "drain"
Past(t)  == pc[t] \in {"drain", "unlock", "copy"}

Atomic == INSTANCE ResAtomic WITH
  table <- [i \in Ids |-> IF Draining THEN NoNode ELSE Lookup(i)],
  used  <- 1 .. made,
  content <- data,
  stage <- [t \in Threads |-> IF pc[t] = "idle" THEN "idle"
                              ELSE IF Past(t) THEN "done" ELSE "called"],
  req   <- [t \in Threads |-> [fn |-> op[t],
              id |-> IF op[t] \in {"get", "release"} THEN arg[t] ELSE 0]],
  reply <- [t \in Threads |-> IF ~Past(t) \/ op[t] \in {"release", "all"}
              THEN [id |-> 0, node |-> NoNode]
              ELSE [id |-> IF op[t] = "get" THEN 0 ELSE arg[t], node |-> node[t]]]

IsAtomic == Atomic!ASpec

\* The search of res_create ends: whoever owns the mutex gives it back.
MutexComesBack == \A t \in Threads : mutex = t ~> mutex # t
=============================================================================
