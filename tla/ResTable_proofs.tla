--------------------------- MODULE ResTable_proofs ---------------------------
(***************************************************************************)
(* Proofs about ResTable: type correctness, the uniqueness of the ids in   *)
(* use, what owners of ids can rely on, and the refinement of ResAtomic,   *)
(* for any set of threads, any width of the ids and any bounds.            *)
(***************************************************************************)
EXTENDS ResTable, TLAPS

\* The inductive invariant: who may be where, and what the heap looks like.
Acquired == \A t \in Threads : pc[t] \in Critical <=> mutex = t
HeapOK ==
  /\ head \subseteq 1 .. made
  /\ freed \subseteq 1 .. made
  /\ head \cap freed = {}
  /\ \A n \in Nodes : n > made => data[n] = NoThread
  /\ \A t \in Threads : pc[t] \in {"unlock", "copy"} /\ op[t] \in Creates => node[t] \in 1 .. made
FreshId == \A t \in Threads : pc[t] = "add" => ~ \E n \in head : idOf[n] = arg[t]
\* A node that res_create has linked and its caller does not hold yet.
Pending(t, n) == pc[t] \in {"unlock", "copy"} /\ op[t] \in Creates /\ node[t] = n
StepsOK == \A t \in Threads :
  /\ pc[t] \in {"probe", "add", "copy"} => op[t] \in Creates
  /\ pc[t] \in {"find", "del"} => op[t] \in {"get", "release"}
  /\ pc[t] = "del" => op[t] = "release"
  /\ pc[t] = "drain" => op[t] = "all"
  /\ pc[t] = "iter" => op[t] = "any"
  /\ pc[t] = "idle" => op[t] = "any"
  /\ op[t] = "all" => Shared

IInv == TypeOK /\ Acquired /\ HeapOK /\ FreshId /\ StepsOK /\ UniqueIds /\ FreesLinked

\* Its continuation while threads keep to their own ids.
Unclaimed(n) == \A u \in Threads : n \notin held[u] /\ ~Pending(u, n)
Apart ==
  /\ \A t, u \in Threads : t # u => held[t] \cap held[u] = {}
  /\ \A t, u \in Threads, n \in Nodes : Pending(t, n) =>
       /\ n \in head
       /\ n \notin held[u]
       /\ u # t => ~Pending(u, n)
       /\ data[n] = NoThread
WantedBy(t) ==
  /\ pc[t] \in {"lock", "find"} /\ op[t] = "get" =>
       \E n \in held[t] : idOf[n] = arg[t]
  /\ pc[t] \in {"lock", "find"} /\ op[t] = "release" =>
       \E n \in head : idOf[n] = arg[t] /\ Unclaimed(n)
  /\ pc[t] = "del" => Unclaimed(node[t]) /\ idOf[node[t]] = arg[t]
Wanted == \A t \in Threads : WantedBy(t)
\* Each id had one owner, so no two threads are releasing the same one.
Releasing(t) == op[t] = "release" /\ pc[t] \in {"lock", "find", "del"}
Separate == \A t, u \in Threads : t # u /\ Releasing(t) /\ Releasing(u) => arg[t] # arg[u]

Own == OwnersKeepTheirs /\ OwnerGetsOwn /\ Apart /\ Wanted /\ Separate
OwnInv == IInv /\ (~Shared => Own)


-----------------------------------------------------------------------------
\* What HASH_FIND_INT returns: NULL when no linked node has the id, else one.
LEMMA LookupFinds ==
  ASSUME NEW i, NoNode \notin head
  PROVE  /\ Lookup(i) = NoNode => \A n \in head : idOf[n] # i
         /\ Lookup(i) # NoNode => Lookup(i) \in head /\ idOf[Lookup(i)] = i
<1> DEFINE hit == {n \in head : idOf[n] = i}
<1>1. CASE hit = {}
  BY <1>1 DEF Lookup
<1>2. CASE hit # {}
  <2>1. Lookup(i) \in hit
    BY <1>2 DEF Lookup
  <2>2. QED  BY <2>1
<1>3. QED  BY <1>1, <1>2

\* The counter stays an int.
LEMMA SuccInIds == ASSUME NEW i \in Ids PROVE Succ(i) \in Ids
BY TableAssumption DEF Succ, Ids

\* Initially everything holds: the table is empty and nobody is in a call.
LEMMA InitIInv == Init => IInv
<1> SUFFICES ASSUME Init PROVE IInv
  OBVIOUS
<1>1. TypeOK
  BY TableAssumption DEF Init, TypeOK, Ids, Nodes, NoNode, PCs, Critical, Ops
<1>2. QED
  BY <1>1, TableAssumption DEF Init, IInv, Acquired, HeapOK, FreshId, StepsOK,
     UniqueIds, FreesLinked, Critical

\* Type correctness of one step.
LEMMA TypeStep == TypeOK /\ StepsOK /\ HeapOK /\ FreesLinked /\ [Next]_vars => TypeOK'
<1> SUFFICES ASSUME TypeOK, StepsOK, HeapOK, FreesLinked, [Next]_vars PROVE TypeOK'
  OBVIOUS
<1> USE TableAssumption DEF TypeOK, heap, PCs, Critical, Ops
<1>0. NoNode \notin head /\ NoNode \notin Nodes
  BY DEF Nodes, NoNode
<1>1. ASSUME NEW t \in Threads, Invoke(t) PROVE TypeOK'
  <2>1. 0 \in Ids /\ Creates \subseteq Ops
    BY DEF Ids, Creates
  <2>2. ASSUME NEW o \in Ops, NEW i \in Ids, Call(t, o, i) PROVE TypeOK'
    BY <2>2 DEF Call
  <2>3. Known(t) \subseteq Ids
    BY DEF Known
  <2>4. QED
    BY <1>1, <2>1, <2>2, <2>3 DEF Invoke, CallCreate, CallGet, CallRelease, CallAny, CallAll
<1>2. ASSUME NEW t \in Threads, Acquire(t) PROVE TypeOK'
  BY <1>2 DEF Acquire, Entry
<1>3. ASSUME NEW t \in Threads, Probe(t) PROVE TypeOK'
  BY <1>3, SuccInIds DEF Probe
<1>4. ASSUME NEW t \in Threads, Add(t) PROVE TypeOK'
  <2>1. made + 1 \in Nodes /\ made + 1 \in 0 .. MaxNodes
    BY <1>4 DEF Add, Nodes
  <2>2. QED  BY <1>4, <2>1 DEF Add
<1>5. ASSUME NEW t \in Threads, Find(t) PROVE TypeOK'
  <2>1. Lookup(arg[t]) \in Nodes \cup {NoNode}
    BY <1>0, LookupFinds
  <2>2. QED  BY <1>5, <2>1 DEF Find
<1>6. ASSUME NEW t \in Threads, Del(t) PROVE TypeOK'
  BY <1>6 DEF Del, Unlinked, FreesLinked
<1>7. ASSUME NEW t \in Threads, Iter(t) PROVE TypeOK'
  <2>1. -1 \in Ids
    BY DEF Ids
  <2>2. QED  BY <1>7, <2>1 DEF Iter, IsNewest
<1>8. ASSUME NEW t \in Threads, Drain(t) PROVE TypeOK'
  BY <1>8 DEF Drain, Unlinked, IsOldest
<1>9. ASSUME NEW t \in Threads, Unlock(t) \/ Copy(t) PROVE TypeOK'
  <2>1. ASSUME Return(t) PROVE
          /\ pc' \in [Threads -> PCs] /\ op' \in [Threads -> Ops]
          /\ arg' \in [Threads -> Ids] /\ node' \in [Threads -> Nodes \cup {NoNode}]
    BY <2>1 DEF Return, Ids
  <2>2. ASSUME Return(t), op[t] \in Creates => node[t] \in Nodes
        PROVE  held' \in [Threads -> SUBSET Nodes]
    BY <2>2 DEF Return
  <2>3. op[t] \in Creates => node[t] \in Nodes
    BY <1>9 DEF HeapOK, StepsOK, Unlock, Copy, Nodes
  <2>4. CASE Unlock(t)
    BY <2>1, <2>2, <2>3, <2>4 DEF Unlock
  <2>5. CASE Copy(t)
    BY <2>1, <2>2, <2>3, <2>5 DEF Copy, Target
  <2>6. QED  BY <1>9, <2>4, <2>5
<1>10. CASE UNCHANGED vars
  BY <1>10 DEF vars
<1>11. QED
  BY <1>1, <1>2, <1>3, <1>4, <1>5, <1>6, <1>7, <1>8, <1>9, <1>10 DEF Next, Inside

\* Every step keeps the rest of the invariant.
LEMMA StepIInv == IInv /\ [Next]_vars => IInv'
<1> SUFFICES ASSUME IInv, [Next]_vars PROVE IInv'
  OBVIOUS
<1>0. TypeOK'
  BY TypeStep DEF IInv
<1> USE TableAssumption DEF IInv, heap, Critical
<1>a. NoNode \notin head /\ NoNode \notin Nodes
  BY DEF TypeOK, Nodes, NoNode
\* One thread at a time owns the mutex, so no other thread is in a critical step.
<1>b. \A t, u \in Threads : pc[t] \in Critical /\ pc[u] \in Critical => t = u
  BY DEF Acquired
<1>1. ASSUME NEW t \in Threads, Invoke(t) PROVE IInv'
  <2>1. ASSUME NEW o \in Ops, NEW i \in Ids, Call(t, o, i), o = "all" => Shared PROVE IInv'
    BY <1>0, <2>1 DEF Call, TypeOK, Acquired, HeapOK, FreshId, StepsOK, UniqueIds, FreesLinked
  <2>2. 0 \in Ids /\ Creates \subseteq Ops \ {"all"} /\ Known(t) \subseteq Ids
    BY DEF Ids, Creates, Known, TypeOK, Ops
  <2>3. {"get", "release", "any"} \subseteq Ops \ {"all"} /\ "all" \in Ops
    BY DEF Ops
  <2>4. QED
    BY <1>1, <2>1, <2>2, <2>3 DEF Invoke, CallCreate, CallGet, CallRelease, CallAny, CallAll
<1>2. ASSUME NEW t \in Threads, Acquire(t) PROVE IInv'
  <2>1. Acquired'
    <3>1. \A u \in Threads : pc[u] \notin Critical
      BY <1>2 DEF Acquire, Acquired, MutexFree
    <3>2. Entry(op[t]) \in Critical
      BY DEF Entry
    <3>3. QED  BY <1>2, <3>1, <3>2 DEF Acquire, Acquired, TypeOK
  <2>2. StepsOK' /\ FreshId' /\ FreesLinked'
    BY <1>2 DEF Acquire, Entry, TypeOK, Ops, Creates, StepsOK, FreshId, FreesLinked
  <2>3. HeapOK' /\ UniqueIds'
    BY <1>2 DEF Acquire, Entry, HeapOK, UniqueIds, TypeOK
  <2>4. QED  BY <1>0, <2>1, <2>2, <2>3
<1>3. ASSUME NEW t \in Threads, Probe(t) PROVE IInv'
  <2>1. FreshId'
    <3>1. ~Taken(lastId) => \A n \in head : idOf[n] # lastId
      BY <1>a, LookupFinds DEF Taken
    <3>2. QED  BY <1>3, <3>1, <1>b DEF Probe, FreshId, TypeOK
  <2>2. Acquired' /\ StepsOK' /\ FreesLinked'
    BY <1>3 DEF Probe, Acquired, StepsOK, FreesLinked, TypeOK
  <2>3. HeapOK' /\ UniqueIds'
    BY <1>3 DEF Probe, HeapOK, UniqueIds, TypeOK
  <2>4. QED  BY <1>0, <2>1, <2>2, <2>3
<1>4. ASSUME NEW t \in Threads, Add(t) PROVE IInv'
  <2>0. made + 1 \in Nodes /\ made + 1 \notin head /\ made + 1 \notin freed
    BY <1>4 DEF Add, Nodes, TypeOK, HeapOK
  <2>1. UniqueIds'
    <3>1. \A n \in head : idOf[n] # arg[t] /\ idOf'[n] = idOf[n]
      BY <1>4, <2>0 DEF Add, FreshId, TypeOK
    <3>2. idOf'[made + 1] = arg[t]
      BY <1>4, <2>0 DEF Add, TypeOK
    <3>3. QED  BY <1>4, <3>1, <3>2 DEF Add, UniqueIds
  <2>2. HeapOK'
    BY <1>4, <2>0 DEF Add, HeapOK, TypeOK
  <2>3. FreshId' /\ FreesLinked'
    BY <1>4, <1>b DEF Add, FreshId, FreesLinked, TypeOK
  <2>4. Acquired' /\ StepsOK'
    BY <1>4, <2>0, <1>a DEF Add, Acquired, StepsOK, TypeOK
  <2>5. QED  BY <1>0, <2>1, <2>2, <2>3, <2>4
<1>5. ASSUME NEW t \in Threads, Find(t) PROVE IInv'
  <2>1. FreesLinked'
    <3>1. Lookup(arg[t]) # NoNode => Lookup(arg[t]) \in head
      BY <1>a, LookupFinds
    <3>2. QED  BY <1>5, <3>1 DEF Find, FreesLinked, HeapOK, TypeOK
  <2>2. Acquired' /\ StepsOK' /\ FreshId'
    BY <1>5 DEF Find, Acquired, StepsOK, FreshId, TypeOK, Creates
  <2>3. HeapOK' /\ UniqueIds'
    BY <1>5 DEF Find, HeapOK, StepsOK, UniqueIds, TypeOK, Creates
  <2>4. QED  BY <1>0, <2>1, <2>2, <2>3
<1>6. ASSUME NEW t \in Threads, Del(t) PROVE IInv'
  <2>1. HeapOK' /\ UniqueIds'
    BY <1>6 DEF Del, Unlinked, HeapOK, StepsOK, UniqueIds, FreesLinked, TypeOK, Creates
  <2>2. FreesLinked'
    BY <1>6, <1>b DEF Del, Unlinked, FreesLinked, TypeOK
  <2>3. Acquired' /\ StepsOK' /\ FreshId'
    BY <1>6 DEF Del, Unlinked, Acquired, StepsOK, FreshId, TypeOK, Creates
  <2>4. QED  BY <1>0, <2>1, <2>2, <2>3
<1>7. ASSUME NEW t \in Threads, Iter(t) PROVE IInv'
  <2>2. Acquired' /\ StepsOK' /\ FreesLinked'
    BY <1>7 DEF Iter, Acquired, StepsOK, FreesLinked, TypeOK, Creates
  <2>3. FreshId'
    BY <1>7, <1>b DEF Iter, FreshId, TypeOK
  <2>4. HeapOK' /\ UniqueIds'
    BY <1>7 DEF Iter, HeapOK, StepsOK, UniqueIds, TypeOK, Creates
  <2>5. QED  BY <1>0, <2>2, <2>3, <2>4
<1>8. ASSUME NEW t \in Threads, Drain(t) PROVE IInv'
  <2>1. HeapOK' /\ UniqueIds'
    BY <1>8 DEF Drain, Unlinked, IsOldest, HeapOK, StepsOK, UniqueIds, TypeOK, Creates
  <2>2. FreesLinked' /\ FreshId'
    BY <1>8, <1>b DEF Drain, Unlinked, FreesLinked, FreshId, TypeOK
  <2>3. Acquired' /\ StepsOK'
    BY <1>8 DEF Drain, Acquired, StepsOK, TypeOK, Creates
  <2>4. QED  BY <1>0, <2>1, <2>2, <2>3
<1>9. ASSUME NEW t \in Threads, Unlock(t) PROVE IInv'
  <2>1. Acquired'
    BY <1>9, <1>b DEF Unlock, Return, Acquired, TypeOK
  <2>2. StepsOK' /\ FreshId' /\ FreesLinked'
    BY <1>9, <1>b DEF Unlock, Return, StepsOK, FreshId, FreesLinked, TypeOK, Creates
  <2>3. HeapOK' /\ UniqueIds'
    BY <1>9 DEF Unlock, Return, HeapOK, UniqueIds, TypeOK, Creates
  <2>4. QED  BY <1>0, <2>1, <2>2, <2>3
<1>10. ASSUME NEW t \in Threads, Copy(t) PROVE IInv'
  <2>1. Acquired' /\ StepsOK' /\ FreshId' /\ FreesLinked'
    BY <1>10 DEF Copy, Return, Acquired, StepsOK, FreshId, FreesLinked, TypeOK, Creates
  <2>2. HeapOK' /\ UniqueIds'
    BY <1>10 DEF Copy, Target, Return, HeapOK, UniqueIds, StepsOK, TypeOK, Creates
  <2>3. QED  BY <1>0, <2>1, <2>2
<1>11. CASE UNCHANGED vars
  BY <1>11 DEF vars, TypeOK, Acquired, HeapOK, FreshId, StepsOK, UniqueIds, FreesLinked
<1>12. QED
  BY <1>1, <1>2, <1>3, <1>4, <1>5, <1>6, <1>7, <1>8, <1>9, <1>10, <1>11 DEF Next, Inside

-----------------------------------------------------------------------------
\* The invariant of the table holds in every reachable state.
THEOREM InductiveInvariant == Spec => []IInv
BY InitIInv, StepIInv, PTL DEF Spec

\* The variables keep their types: ids stay within the int although last_id is
\* incremented without end, and every node is one the table allocated.
THEOREM TypeCorrect == Spec => []TypeOK
<1>1. IInv => TypeOK
  BY DEF IInv
<1>2. QED  BY <1>1, InductiveInvariant, PTL

\* res_create never hands out an id that a live entry has, however often
\* last_id has wrapped and whatever the other threads do.
THEOREM IdsAreUnique == Spec => []UniqueIds
<1>1. IInv => UniqueIds
  BY DEF IInv
<1>2. QED  BY <1>1, InductiveInvariant, PTL

\* res_release frees only what is linked and not freed yet, once.
THEOREM NoDoubleFree == Spec => []FreesLinked
<1>1. IInv => FreesLinked
  BY DEF IInv
<1>2. QED  BY <1>1, InductiveInvariant, PTL

-----------------------------------------------------------------------------
\* Every step keeps what owners rely on.
LEMMA StepOwn == ASSUME ~Shared, IInv, IInv', Own, [Next]_vars PROVE Own'
<1> USE TableAssumption DEF IInv, heap, Critical, TypeOK
<1>a. NoNode \notin head /\ NoNode \notin Nodes /\ Nodes \subseteq Nat
  BY DEF Nodes, NoNode
<1>b. \A t, u \in Threads : pc[t] \in Critical /\ pc[u] \in Critical => t = u
  BY DEF Acquired
<1>c. \A t \in Threads : op[t] # "all"
  BY DEF StepsOK
<1> USE DEF Own
<1>1. ASSUME NEW t \in Threads, Invoke(t) PROVE Own'
  <2>1. PICK o \in Ops, i \in Ids : Call(t, o, i) /\ (o \in {"get", "release"} => i \in Known(t))
    <3>1. 0 \in Ids /\ Creates \subseteq {"create", "clone"} /\ Known(t) \subseteq Ids
      BY DEF Ids, Creates, Known
    <3>2. QED
      BY <1>1, <3>1 DEF Invoke, CallCreate, CallGet, CallRelease, CallAny, CallAll, Ops
  <2>2. \A u \in Threads : held'[u] \subseteq held[u]
    BY <2>1 DEF Call
  <2>3. \A u \in Threads, n \in Nodes : Pending(u, n)' <=> Pending(u, n)
    BY <2>1 DEF Call, Pending
  <2>4. OwnersKeepTheirs' /\ OwnerGetsOwn'
    BY <2>1, <2>2 DEF Call, OwnersKeepTheirs, OwnerGetsOwn
  <2>5. Apart'
    BY <2>1, <2>2, <2>3 DEF Call, Apart
  <2>6. Wanted'
    <3>1. \A n \in Nodes : Unclaimed(n) => Unclaimed(n)'
      BY <2>2, <2>3 DEF Unclaimed
    <3>2. ASSUME o = "get" PROVE \E n \in held'[t] : idOf'[n] = i
      BY <2>1, <3>2 DEF Call, Known
    <3>3. ASSUME o = "release" PROVE \E n \in head' : idOf'[n] = i /\ Unclaimed(n)'
      <4>1. PICK n \in held[t] : idOf[n] = i
        BY <2>1, <3>3 DEF Known
      <4>2. n \in head /\ n \in Nodes
        BY DEF OwnersKeepTheirs
      <4>3. \A u \in Threads : n \notin held'[u]
        BY <2>1, <3>3, <4>1, <4>2 DEF Call, Apart
      <4>4. \A u \in Threads : ~Pending(u, n)
        BY <4>1, <4>2 DEF Apart
      <4>5. QED  BY <2>1, <2>3, <4>1, <4>2, <4>3, <4>4 DEF Call, Unclaimed
    <3>4. ASSUME NEW u \in Threads, u # t PROVE WantedBy(u)'
      BY <2>1, <3>1, <3>4 DEF Call, Wanted, WantedBy, FreesLinked
    <3>5. WantedBy(t)'
      BY <2>1, <3>2, <3>3 DEF Call, WantedBy
    <3>6. QED  BY <3>4, <3>5 DEF Wanted
  <2>7. Separate'
    <3>1. ASSUME o = "release", NEW u \in Threads, u # t, Releasing(u) PROVE arg[u] # i
      <4>1. PICK n \in held[t] : idOf[n] = i
        BY <2>1, <3>1 DEF Known
      <4>2. PICK m \in head : idOf[m] = arg[u] /\ Unclaimed(m)
        BY <3>1 DEF Releasing, Wanted, WantedBy, FreesLinked
      <4>3. n \in head /\ n # m
        BY <4>2 DEF OwnersKeepTheirs, Unclaimed
      <4>4. QED  BY <4>1, <4>2, <4>3 DEF UniqueIds
    <3>2. QED  BY <2>1, <3>1 DEF Call, Separate, Releasing
  <2>8. QED  BY <2>4, <2>5, <2>6, <2>7
<1>2. ASSUME NEW t \in Threads, Acquire(t) PROVE Own'
  <2>1. \A u \in Threads, n \in Nodes : Pending(u, n)' <=> Pending(u, n)
    BY <1>2 DEF Acquire, Entry, Pending
  <2>2. OwnersKeepTheirs' /\ OwnerGetsOwn' /\ Apart'
    BY <1>2, <2>1 DEF Acquire, Entry, OwnersKeepTheirs, OwnerGetsOwn, Apart
  <2>3. Wanted'
    <3>1. \A n \in Nodes : Unclaimed(n)' <=> Unclaimed(n)
      BY <1>2, <2>1 DEF Acquire, Unclaimed
    <3>2. ASSUME NEW u \in Threads, u # t PROVE WantedBy(u)'
      BY <1>2, <3>1, <3>2 DEF Acquire, Wanted, WantedBy, FreesLinked
    <3>3. op[t] \in {"get", "release"} <=> Entry(op[t]) = "find"
      BY <1>c DEF Entry, Creates
    <3>4. WantedBy(t)'
      BY <1>2, <3>1, <3>3 DEF Acquire, Entry, Wanted, WantedBy
    <3>5. QED  BY <3>2, <3>4 DEF Wanted
  <2>4. Separate'
    BY <1>2 DEF Acquire, Entry, Separate, Releasing, Creates
  <2>5. QED  BY <2>2, <2>3, <2>4
<1>3. ASSUME NEW t \in Threads, Probe(t) PROVE Own'
  <2>1. op[t] \in Creates /\ op' = op
    BY <1>3 DEF Probe, StepsOK
  <2>2. \A u \in Threads, n \in Nodes : Pending(u, n)' <=> Pending(u, n)
    BY <1>3 DEF Probe, Pending
  <2>3. OwnersKeepTheirs' /\ OwnerGetsOwn' /\ Apart'
    BY <1>3, <2>2 DEF Probe, OwnersKeepTheirs, OwnerGetsOwn, Apart
  <2>4. Wanted'
    <3>1. \A n \in Nodes : Unclaimed(n)' <=> Unclaimed(n)
      BY <1>3, <2>2 DEF Probe, Unclaimed
    <3>2. ASSUME NEW u \in Threads, u # t PROVE WantedBy(u)'
      BY <1>3, <3>1, <3>2 DEF Probe, Wanted, WantedBy, FreesLinked
    <3>3. WantedBy(t)'
      BY <1>3 DEF Probe, WantedBy
    <3>4. QED  BY <3>2, <3>3 DEF Wanted
  <2>5. Separate'
    BY <1>3, <2>1 DEF Probe, Separate, Releasing, Creates
  <2>6. QED  BY <2>3, <2>4, <2>5
<1>4. ASSUME NEW t \in Threads, Add(t) PROVE Own'
  <2>0. /\ made + 1 \in Nodes /\ made + 1 \notin head /\ op[t] \in Creates
        /\ data[made + 1] = NoThread /\ made + 1 \notin 1 .. made
        /\ \A n \in Nodes : n # made + 1 => idOf'[n] = idOf[n]
    BY <1>4 DEF Add, Nodes, HeapOK, StepsOK
  <2>1. \A u \in Threads : made + 1 \notin held[u] /\ ~Pending(u, made + 1)
    BY <2>0 DEF OwnersKeepTheirs, Apart
  <2>2. \A u \in Threads, n \in Nodes :
           Pending(u, n)' <=> (Pending(u, n) \/ (u = t /\ n = made + 1))
    BY <1>4, <2>0 DEF Add, Pending
  <2>3. OwnersKeepTheirs' /\ OwnerGetsOwn'
    BY <1>4, <2>0 DEF Add, OwnersKeepTheirs, OwnerGetsOwn, Creates
  <2>4. Apart'
    <3>1. \A u, v \in Threads : u # v => held'[u] \cap held'[v] = {}
      BY <1>4 DEF Add, Apart
    <3>2. ASSUME NEW u \in Threads, NEW v \in Threads, NEW n \in Nodes, Pending(u, n)'
          PROVE  n \in head' /\ n \notin held'[v] /\ (v # u => ~Pending(v, n)') /\ data'[n] = NoThread
      BY <1>4, <2>0, <2>1, <2>2, <3>2 DEF Add, Apart
    <3>3. QED  BY <3>1, <3>2 DEF Apart
  <2>5. Wanted'
    <3>1. \A n \in head : n # made + 1 /\ n \in Nodes
      BY <2>0
    <3>2. \A n \in head : Unclaimed(n) => Unclaimed(n)'
      BY <1>4, <2>2, <3>1 DEF Add, Unclaimed
    <3>3. \A u \in Threads : pc'[u] \in {"lock", "find", "del"} => pc[u] = pc'[u]
      BY <1>4 DEF Add
    <3>4. \A u \in Threads : pc'[u] # "del"
      BY <1>4, <1>b, <3>3 DEF Add
    <3>5. ASSUME NEW u \in Threads, op'[u] = "get", pc'[u] \in {"lock", "find"}
          PROVE \E n \in held'[u] : idOf'[n] = arg'[u]
      BY <1>4, <2>0, <2>1, <3>3, <3>5 DEF Add, Wanted, WantedBy
    <3>6. ASSUME NEW u \in Threads, op'[u] = "release", pc'[u] \in {"lock", "find"}
          PROVE \E n \in head' : idOf'[n] = arg'[u] /\ Unclaimed(n)'
      BY <1>4, <2>0, <3>1, <3>2, <3>3, <3>6 DEF Add, Wanted, WantedBy
    <3>7. QED  BY <3>4, <3>5, <3>6 DEF Wanted, WantedBy
  <2>6. Separate'
    BY <1>4 DEF Add, Separate, Releasing
  <2>7. QED  BY <2>3, <2>4, <2>5, <2>6
<1>5. ASSUME NEW t \in Threads, Find(t) PROVE Own'
  <2>0. op[t] \in {"get", "release"} /\ op[t] \notin Creates
    BY <1>5 DEF Find, StepsOK, Creates
  <2>1. \A u \in Threads, n \in Nodes : Pending(u, n)' <=> Pending(u, n)
    BY <1>5, <2>0 DEF Find, Pending
  <2>2. \A n \in Nodes : Unclaimed(n)' <=> Unclaimed(n)
    BY <1>5, <2>1 DEF Find, Unclaimed
  \* The id names one linked node, so it is the one the caller wanted.
  <2>3. \A n \in head : idOf[n] = arg[t] => Lookup(arg[t]) = n
    BY <1>a, LookupFinds DEF UniqueIds
  <2>4. op[t] = "get" => Lookup(arg[t]) \in held[t]
    BY <1>5, <2>3 DEF Find, Wanted, WantedBy, OwnersKeepTheirs
  <2>5. op[t] = "release" => /\ Lookup(arg[t]) \in Nodes /\ Unclaimed(Lookup(arg[t]))
                             /\ idOf[Lookup(arg[t])] = arg[t]
    BY <1>5, <2>3 DEF Find, Wanted, WantedBy
  <2>6. OwnersKeepTheirs' /\ Apart'
    BY <1>5, <2>1 DEF Find, OwnersKeepTheirs, Apart
  <2>7. OwnerGetsOwn'
    BY <1>5, <2>4 DEF Find, OwnerGetsOwn
  <2>8. Wanted'
    <3>1. ASSUME NEW u \in Threads, u # t PROVE WantedBy(u)'
      BY <1>5, <2>2, <3>1 DEF Find, Wanted, WantedBy, FreesLinked
    <3>2. WantedBy(t)'
      BY <1>5, <2>2, <2>5 DEF Find, WantedBy
    <3>3. QED  BY <3>1, <3>2 DEF Wanted
  <2>9. Separate'
    BY <1>5 DEF Find, Separate, Releasing
  <2>10. QED  BY <2>6, <2>7, <2>8, <2>9
<1>6. ASSUME NEW t \in Threads, Del(t) PROVE Own'
  <2>0. op[t] = "release" /\ op[t] \notin Creates /\ node[t] \in Nodes /\ Unclaimed(node[t])
    BY <1>6 DEF Del, StepsOK, Creates, FreesLinked, Wanted, WantedBy
  <2>1. \A u \in Threads, n \in Nodes : Pending(u, n)' <=> Pending(u, n)
    BY <1>6, <2>0 DEF Del, Pending
  <2>2. \A n \in Nodes : Unclaimed(n)' <=> Unclaimed(n)
    BY <1>6, <2>1 DEF Del, Unclaimed
  <2>3. OwnersKeepTheirs' /\ OwnerGetsOwn' /\ Apart'
    BY <1>6, <2>0, <2>1 DEF Del, Unlinked, Unclaimed, OwnersKeepTheirs, OwnerGetsOwn, Apart
  <2>4. Wanted'
    <3>1. ASSUME NEW u \in Threads, u # t, pc[u] \in {"lock", "find"}, op[u] = "release"
          PROVE  \E n \in head' : idOf[n] = arg[u] /\ Unclaimed(n)'
      <4>1. PICK n \in head : idOf[n] = arg[u] /\ Unclaimed(n)
        BY <3>1 DEF Wanted, WantedBy
      <4>2. arg[u] # arg[t] /\ idOf[node[t]] = arg[t]
        BY <1>6, <2>0, <3>1 DEF Del, Separate, Releasing, Wanted, WantedBy
      <4>3. QED  BY <1>6, <2>2, <4>1, <4>2 DEF Del, Unlinked
    <3>2. ASSUME NEW u \in Threads, u # t PROVE WantedBy(u)'
      BY <1>6, <2>2, <3>1, <3>2, <1>b DEF Del, Wanted, WantedBy
    <3>3. WantedBy(t)'
      BY <1>6 DEF Del, WantedBy
    <3>4. QED  BY <3>2, <3>3 DEF Wanted
  <2>5. Separate'
    BY <1>6 DEF Del, Separate, Releasing
  <2>6. QED  BY <2>3, <2>4, <2>5
<1>7. ASSUME NEW t \in Threads, Iter(t) PROVE Own'
  <2>0. op[t] = "any" /\ op[t] \notin Creates
    BY <1>7 DEF Iter, StepsOK, Creates
  <2>1. \A u \in Threads, n \in Nodes : Pending(u, n)' <=> Pending(u, n)
    BY <1>7, <2>0 DEF Iter, Pending
  <2>2. \A n \in Nodes : Unclaimed(n)' <=> Unclaimed(n)
    BY <1>7, <2>1 DEF Iter, Unclaimed
  <2>3. OwnersKeepTheirs' /\ OwnerGetsOwn' /\ Apart'
    BY <1>7, <2>0, <2>1 DEF Iter, OwnersKeepTheirs, OwnerGetsOwn, Apart
  <2>4. \A u \in Threads : pc'[u] \in {"lock", "find", "del"} =>
           pc'[u] = pc[u] /\ arg'[u] = arg[u]
    BY <1>7 DEF Iter
  <2>5. Wanted'
    <3>1. ASSUME NEW u \in Threads PROVE WantedBy(u)'
      BY <1>7, <2>2, <2>4 DEF Iter, Wanted, WantedBy, FreesLinked
    <3>2. QED  BY <3>1 DEF Wanted
  <2>6. Separate'
    BY <1>7, <2>4 DEF Iter, Separate, Releasing
  <2>7. QED  BY <2>3, <2>5, <2>6
<1>8. ASSUME NEW t \in Threads, Drain(t) PROVE FALSE
  BY <1>8, <1>c DEF Drain, StepsOK
<1>9. ASSUME NEW t \in Threads, Unlock(t), op[t] = "clone" /\ arg[t] >= 0 PROVE Own'
  <2>1. \A u \in Threads, n \in Nodes : Pending(u, n)' <=> Pending(u, n)
    BY <1>9 DEF Unlock, Pending
  <2>2. \A n \in Nodes : Unclaimed(n)' <=> Unclaimed(n)
    BY <1>9, <2>1 DEF Unlock, Unclaimed
  <2>3. OwnersKeepTheirs' /\ OwnerGetsOwn' /\ Apart'
    BY <1>9, <2>1 DEF Unlock, OwnersKeepTheirs, OwnerGetsOwn, Apart
  <2>4. Wanted'
    <3>1. ASSUME NEW u \in Threads PROVE WantedBy(u)'
      BY <1>9, <2>2 DEF Unlock, Wanted, WantedBy, FreesLinked
    <3>2. QED  BY <3>1 DEF Wanted
  <2>5. Separate'
    BY <1>9 DEF Unlock, Separate, Releasing
  <2>6. QED  BY <2>3, <2>4, <2>5
\* A call returns; a node that it created goes from pending to held.
<1>10. ASSUME NEW t \in Threads, Unlock(t) \/ Copy(t), Return(t) PROVE Own'
  <2>0. /\ head' = head /\ idOf' = idOf /\ freed' = freed /\ pc[t] \in {"unlock", "copy"}
        /\ \A u \in Threads \ {t} : /\ pc'[u] = pc[u] /\ op'[u] = op[u] /\ arg'[u] = arg[u]
                                    /\ node'[u] = node[u] /\ held'[u] = held[u]
        /\ pc'[t] = "idle" /\ op'[t] = "any"
    BY <1>10 DEF Unlock, Copy, Return
  <2>1. op[t] \in Creates => node[t] \in Nodes /\ Pending(t, node[t])
    BY <2>0 DEF Pending, HeapOK, Nodes
  <2>2. held'[t] = IF op[t] \in Creates THEN held[t] \cup {node[t]} ELSE held[t]
    BY <1>10 DEF Return
  <2>3. /\ \A u \in Threads \ {t}, n \in Nodes : Pending(u, n)' <=> Pending(u, n)
        /\ \A n \in Nodes : ~Pending(t, n)'
    BY <2>0 DEF Pending
  <2>4. \A n \in Nodes : Unclaimed(n) => Unclaimed(n)'
    BY <2>0, <2>1, <2>2, <2>3 DEF Unclaimed
  <2>5. \A n \in Nodes : data'[n] = data[n] \/ (n = node[t] /\ data'[n] = t /\ op[t] \in Creates)
    BY <1>10 DEF Unlock, Copy, Target, StepsOK
  <2>6. OwnersKeepTheirs'
    <3>1. ASSUME NEW u \in Threads, NEW n \in held'[u]
          PROVE  n \in head \ freed /\ data'[n] \in {u, NoThread}
      <4>1. CASE n \in held[u]
        <5>1. n \in head \ freed /\ data[n] \in {u, NoThread} /\ n \in Nodes
          BY <4>1 DEF OwnersKeepTheirs
        <5>2. op[t] \in Creates => n # node[t]
          BY <2>1, <4>1, <5>1 DEF Apart
        <5>3. QED  BY <2>5, <5>1, <5>2
      <4>2. CASE n \notin held[u]
        <5>1. u = t /\ n = node[t] /\ op[t] \in Creates
          BY <2>0, <2>2, <3>1, <4>2
        <5>2. n \in head /\ data[n] = NoThread
          BY <2>1, <5>1 DEF Apart
        <5>3. QED  BY <2>5, <5>1, <5>2 DEF HeapOK
      <4>3. QED  BY <4>1, <4>2
    <3>2. QED  BY <2>0, <3>1 DEF OwnersKeepTheirs
  <2>7. OwnerGetsOwn'
    BY <2>0 DEF OwnerGetsOwn
  <2>8. Apart'
    <3>1. ASSUME NEW u \in Threads, NEW v \in Threads, u # v PROVE held'[u] \cap held'[v] = {}
      BY <2>0, <2>1, <2>2, <3>1 DEF Apart
    <3>2. ASSUME NEW u \in Threads, NEW v \in Threads, NEW n \in Nodes, Pending(u, n)'
          PROVE  n \in head' /\ n \notin held'[v] /\ (v # u => ~Pending(v, n)') /\ data'[n] = NoThread
      <4>1. u # t /\ Pending(u, n)
        BY <2>3, <3>2
      <4>2. op[t] \in Creates => n # node[t]
        BY <2>1, <4>1 DEF Apart
      <4>3. QED  BY <2>0, <2>2, <2>3, <2>5, <4>1, <4>2 DEF Apart
    <3>3. QED  BY <3>1, <3>2 DEF Apart
  <2>9. Wanted'
    <3>1. ASSUME NEW u \in Threads, u # t PROVE WantedBy(u)'
      BY <2>0, <2>4, <3>1 DEF Wanted, WantedBy, FreesLinked
    <3>2. WantedBy(t)'
      BY <2>0 DEF WantedBy
    <3>3. QED  BY <3>1, <3>2 DEF Wanted
  <2>10. Separate'
    BY <2>0 DEF Separate, Releasing
  <2>11. QED  BY <2>6, <2>7, <2>8, <2>9, <2>10
<1>11. CASE UNCHANGED vars
  BY <1>11 DEF vars, OwnersKeepTheirs, OwnerGetsOwn, Apart, Wanted, WantedBy, Unclaimed, Pending, Separate, Releasing
<1>12. ASSUME NEW t \in Threads, Unlock(t) \/ Copy(t) PROVE Own'
  BY <1>9, <1>10, <1>12 DEF Unlock, Copy
<1>13. QED
  BY <1>1, <1>2, <1>3, <1>4, <1>5, <1>6, <1>7, <1>8, <1>11, <1>12 DEF Next, Inside

\* The same with the constant made explicit, for the temporal argument.
LEMMA StepOwnInv == OwnInv /\ [Next]_vars => OwnInv'
BY StepIInv, StepOwn DEF OwnInv

\* An empty table has no owners.
LEMMA InitOwnInv == Init => OwnInv
<1> SUFFICES ASSUME Init, ~Shared PROVE Own
  BY InitIInv DEF OwnInv
<1> QED
  BY DEF Init, Own, OwnersKeepTheirs, OwnerGetsOwn, Apart, Wanted, WantedBy,
     Separate, Releasing, Pending

\* Ownership and the invariant of the table hold together in every reachable state.
LEMMA OwnInvariant == Spec => []OwnInv
BY InitOwnInv, StepOwnInv, PTL DEF Spec

\* While threads keep to their own ids, nothing the others do, and no wrapped
\* id, takes an entry from its owner or puts other data in it.
THEOREM OwnersKeep == Spec => []OwnersKeepTheirs
<1>1. OwnInv => OwnersKeepTheirs
  BY DEF OwnInv, Own, OwnersKeepTheirs
<1>2. QED  BY <1>1, OwnInvariant, PTL

\* Under the same rule the copy after the unlock goes into the zeroed node that the
\* call made, which nobody can have released or filled: its id is not yet known.
THEOREM CopiesAreOwn == Spec => []CopiesIntoOwn
<1>1. ASSUME OwnInv, ~Shared, NEW t \in Threads, pc[t] = "copy"
      PROVE  node[t] \in head \ freed /\ data[node[t]] = NoThread
  <2>1. Pending(t, node[t]) /\ node[t] \in Nodes
    BY <1>1, TableAssumption DEF OwnInv, IInv, TypeOK, HeapOK, StepsOK, Pending, Nodes
  <2>2. node[t] \in head /\ data[node[t]] = NoThread
    BY <1>1, <2>1 DEF OwnInv, Own, Apart
  <2>3. QED  BY <1>1, <2>2 DEF OwnInv, IInv, HeapOK
<1>2. OwnInv => CopiesIntoOwn
  BY <1>1 DEF CopiesIntoOwn
<1>3. QED  BY <1>2, OwnInvariant, PTL

\* Under the same rule the res_get of an owner finds the node it created.
THEOREM OwnersGet == Spec => []OwnerGetsOwn
<1>1. OwnInv => OwnerGetsOwn
  BY DEF OwnInv, Own, OwnerGetsOwn
<1>2. QED  BY <1>1, OwnInvariant, PTL

-----------------------------------------------------------------------------
(***************************************************************************)
(* ResTable implements ResAtomic: ids, nodes and what is in the nodes      *)
(* change as if each call took effect at one instant, but for              *)
(* res_create_and_clone, which links its node at one and fills it at       *)
(* another, with anything between them.                                    *)
(***************************************************************************)

\* What the refinement needs beside IInv: the node to release is the one with
\* the id, the calls that answer no node have none, and only a clone with an id
\* that is not negative copies.
Locals == \A t \in Threads :
  /\ pc[t] = "del" => idOf[node[t]] = arg[t]
  /\ pc[t] \in {"idle", "lock", "probe", "add", "find", "iter"} => node[t] = NoNode
  /\ pc[t] = "unlock" /\ op[t] = "any" => node[t] = NoNode
  /\ pc[t] = "copy" => op[t] = "clone" /\ arg[t] >= 0
RInv == IInv /\ Locals

\* The variables of ResAtomic in terms of those of ResTable.
Table == [i \in Ids |-> IF Draining THEN NoNode ELSE Lookup(i)]
Used  == 1 .. made
Stage == [t \in Threads |-> IF pc[t] = "idle" THEN "idle" ELSE IF Past(t) THEN "done" ELSE "called"]
Req   == [t \in Threads |-> [fn |-> op[t], id |-> IF op[t] \in {"get", "release"} THEN arg[t] ELSE 0]]
NoAnswer == [id |-> 0, node |-> NoNode]
Reply == [t \in Threads |-> IF ~Past(t) \/ op[t] \in {"release", "all"} THEN NoAnswer
                            ELSE [id |-> IF op[t] = "get" THEN 0 ELSE arg[t], node |-> node[t]]]

-----------------------------------------------------------------------------
\* With one node under each id, HASH_FIND_INT finds the node under its own id.
LEMMA LookupIs ==
  ASSUME UniqueIds, NoNode \notin head, NEW n \in head PROVE Lookup(idOf[n]) = n
BY LookupFinds DEF UniqueIds

\* A node of a set, if it has one.
One(S) == IF S = {} THEN NoNode ELSE CHOOSE n \in S : TRUE
\* A lookup depends on the linked nodes with the id alone.
LEMMA LookupIsOne ==
  ASSUME NEW i
  PROVE  /\ Lookup(i) = One({m \in head : idOf[m] = i})
         /\ Lookup(i)' = One({m \in head' : idOf'[m] = i})
BY DEF Lookup, One

\* The locals of a call are as its answer needs them, at every step.
LEMMA LocalsStep == RInv /\ [Next]_vars => Locals'
<1> SUFFICES ASSUME RInv, [Next]_vars PROVE Locals'
  OBVIOUS
<1> USE TableAssumption DEF RInv, IInv, heap
<1>1. NoNode \notin head /\ NoNode \notin Nodes
  BY DEF TypeOK, Nodes, NoNode
<1>2. \A t, u \in Threads : pc[t] \in Critical /\ pc[u] \in Critical => t = u
  BY DEF Acquired
<1>3. ASSUME NEW t \in Threads, Invoke(t) PROVE Locals'
  <2>1. PICK o, i : Call(t, o, i)
    BY <1>3 DEF Invoke, CallCreate, CallGet, CallRelease, CallAny, CallAll
  <2>2. QED  BY <2>1 DEF Call, Locals, TypeOK
<1>4. ASSUME NEW t \in Threads, Acquire(t) PROVE Locals'
  BY <1>4 DEF Acquire, Entry, Locals, TypeOK
<1>5. ASSUME NEW t \in Threads, Probe(t) PROVE Locals'
  BY <1>5 DEF Probe, Locals, TypeOK
<1>6. ASSUME NEW t \in Threads, Add(t) PROVE Locals'
  <2>1. \A u \in Threads : pc[u] # "del"
    BY <1>6, <1>2 DEF Add, Critical
  <2>2. op[t] # "any"
    BY <1>6 DEF Add, StepsOK, Creates
  <2>3. QED  BY <1>6, <2>1, <2>2 DEF Add, Locals, TypeOK
<1>7. ASSUME NEW t \in Threads, Find(t) PROVE Locals'
  <2>1. Lookup(arg[t]) # NoNode => idOf[Lookup(arg[t])] = arg[t]
    BY <1>1, LookupFinds
  <2>2. op[t] # "any"
    BY <1>7 DEF Find, StepsOK
  <2>3. QED  BY <1>7, <2>1, <2>2 DEF Find, Locals, TypeOK
<1>8. ASSUME NEW t \in Threads, Del(t) PROVE Locals'
  BY <1>8 DEF Del, Locals, TypeOK, StepsOK
<1>9. ASSUME NEW t \in Threads, Iter(t) PROVE Locals'
  BY <1>9 DEF Iter, Locals, TypeOK
<1>10. ASSUME NEW t \in Threads, Drain(t) PROVE Locals'
  BY <1>10 DEF Drain, Locals, TypeOK, StepsOK
<1>11. ASSUME NEW t \in Threads, Unlock(t) PROVE Locals'
  BY <1>11 DEF Unlock, Return, Locals, TypeOK
<1>12. ASSUME NEW t \in Threads, Copy(t) PROVE Locals'
  BY <1>12 DEF Copy, Return, Locals, TypeOK
<1>13. CASE UNCHANGED vars
  BY <1>13 DEF vars, Locals
<1>14. QED
  BY <1>3, <1>4, <1>5, <1>6, <1>7, <1>8, <1>9, <1>10, <1>11, <1>12, <1>13 DEF Next, Inside

\* RInv is an invariant.
LEMMA RInvHolds == Spec => []RInv
<1>1. Init => RInv
  BY InitIInv DEF Init, RInv, Locals
<1>2. RInv /\ [Next]_vars => RInv'
  BY StepIInv, LocalsStep DEF RInv
<1>3. QED  BY <1>1, <1>2, PTL DEF Spec

\* ResAtomic in these terms: what IsAtomic names, before Table and the others
\* are expanded.
A == INSTANCE ResAtomic WITH
       table <- Table, used <- Used, content <- data, stage <- Stage, req <- Req, reply <- Reply

-----------------------------------------------------------------------------
\* The two instances of ResAtomic are the same.
LEMMA SameAtomic ==
  /\ A!AInit <=> Atomic!AInit
  /\ A!ANext <=> Atomic!ANext
  /\ UNCHANGED A!avars <=> UNCHANGED Atomic!avars
<1> USE DEF Table, Used, Stage, Req, Reply, NoAnswer
<1>1. A!AInit <=> Atomic!AInit
  BY DEF A!AInit, Atomic!AInit, A!NoReply, Atomic!NoReply
<1>2. A!ANext <=> Atomic!ANext
  BY DEF A!ANext, Atomic!ANext, A!AInvoke, A!ACreate, A!AGet, A!ARelease, A!AAny, A!AReleaseAll,
     A!AReturn, A!Fills, A!Answer, A!InUse, A!Calls, A!NoReply, Atomic!AInvoke, Atomic!ACreate, Atomic!AGet,
     Atomic!ARelease, Atomic!AAny, Atomic!AReleaseAll, Atomic!AReturn, Atomic!Fills, Atomic!Answer,
     Atomic!InUse, Atomic!Calls, Atomic!NoReply
<1>3. UNCHANGED A!avars <=> UNCHANGED Atomic!avars
  BY DEF A!avars, Atomic!avars
<1>4. QED  BY <1>1, <1>2, <1>3

-----------------------------------------------------------------------------
\* While the owner of the mutex is at another step, nobody empties the table.
LEMMA NotDraining ==
  ASSUME RInv, NEW t \in Threads, pc[t] \in Critical \ {"drain"} PROVE ~Draining
BY DEF RInv, IInv, Acquired, Draining, Critical

\* The table of a caller does not change unless the hash or the mutex does.
LEMMA TableStays ==
  ASSUME head' = head, idOf' = idOf, Draining' = Draining PROVE Table' = Table
BY DEF Table, Lookup

\* A step of the call of t alone.
Moves(t, p, o, a, n) ==
  /\ pc' = [pc EXCEPT ![t] = p] /\ op' = [op EXCEPT ![t] = o]
  /\ arg' = [arg EXCEPT ![t] = a] /\ node' = [node EXCEPT ![t] = n]

\* What it does to the abstract call of t.
LEMMA OneCallMoves ==
  ASSUME RInv, NEW t \in Threads, NEW p, NEW o, NEW a, NEW n, Moves(t, p, o, a, n)
  PROVE  /\ Stage' = [Stage EXCEPT ![t] = IF p = "idle" THEN "idle"
                        ELSE IF p \in {"drain", "unlock", "copy"} THEN "done" ELSE "called"]
         /\ Req' = [Req EXCEPT ![t] = [fn |-> o, id |-> IF o \in {"get", "release"} THEN a ELSE 0]]
         /\ Reply' = [Reply EXCEPT ![t] =
              IF p \notin {"drain", "unlock", "copy"} \/ o \in {"release", "all"} THEN NoAnswer
              ELSE [id |-> IF o = "get" THEN 0 ELSE a, node |-> n]]
<1> USE DEF RInv, IInv, TypeOK, Moves
<1>1. Stage' = [Stage EXCEPT ![t] = IF p = "idle" THEN "idle"
                  ELSE IF p \in {"drain", "unlock", "copy"} THEN "done" ELSE "called"]
  BY DEF Stage, Past
<1>2. Req' = [Req EXCEPT ![t] = [fn |-> o, id |-> IF o \in {"get", "release"} THEN a ELSE 0]]
  BY DEF Req
<1>3. Reply' = [Reply EXCEPT ![t] =
        IF p \notin {"drain", "unlock", "copy"} \/ o \in {"release", "all"} THEN NoAnswer
        ELSE [id |-> IF o = "get" THEN 0 ELSE a, node |-> n]]
  BY DEF Reply, Past
<1>4. QED  BY <1>1, <1>2, <1>3

\* Calling a function of the table is an invocation.
LEMMA InvokeSteps == ASSUME RInv, NEW t \in Threads, Invoke(t) PROVE A!ANext
<1> USE DEF RInv, IInv, TypeOK
<1>1. PICK o \in Ops, i \in Ids : Call(t, o, i) /\ (o \notin {"get", "release"} => i = 0)
  <2>1. 0 \in Ids /\ Creates \subseteq {"create", "clone"} /\ Known(t) \subseteq Ids
    BY TableAssumption DEF Ids, Creates, Known
  <2>2. QED
    BY <2>1 DEF Invoke, CallCreate, CallGet, CallRelease, CallAny, CallAll, Ops
<1>2. Stage' = [Stage EXCEPT ![t] = "called"] /\ Req' = [Req EXCEPT ![t] = [fn |-> o, id |-> i]]
      /\ Reply' = [Reply EXCEPT ![t] = NoAnswer]
  <2>1. Moves(t, "lock", o, i, node[t])
    BY <1>1 DEF Call, Moves
  <2>2. o \notin {"get", "release"} => i = 0
    BY <1>1
  <2>3. QED  BY <2>1, <2>2, OneCallMoves
<1>3. Stage[t] = "idle" /\ Reply[t] = NoAnswer /\ Reply \in [Threads -> {Reply[u] : u \in Threads}]
  BY <1>1 DEF Call, Stage, Reply, Past
<1>4. Reply' = Reply
  BY <1>2, <1>3
<1>5. Table' = Table /\ Used' = Used /\ data' = data
  <2>1. Draining' = Draining
    BY <1>1 DEF Call, Draining
  <2>2. QED  BY <1>1, <2>1, TableStays DEF Call, Used, heap
<1>6. A!AInvoke(t, o, i)
  BY <1>2, <1>3, <1>4, <1>5 DEF A!AInvoke
<1>7. <<o, i>> \in A!Calls
  BY <1>1 DEF A!Calls, Ops
<1>8. \E c \in A!Calls : A!AInvoke(t, c[1], c[2])
  <2>1. <<o, i>>[1] = o /\ <<o, i>>[2] = i
    OBVIOUS
  <2>2. A!AInvoke(t, <<o, i>>[1], <<o, i>>[2])
    BY <1>6, <2>1
  <2>3. QED  BY <1>7, <2>2
<1>9. QED  BY <1>8 DEF A!ANext

\* A step that takes a call past its deciding step is its answer.
LEMMA DecidingMove ==
  ASSUME RInv, NEW t \in Threads, pc[t] \in PCs \ {"idle", "drain", "unlock", "copy"},
         NEW p \in {"drain", "unlock"}, NEW a, NEW n, Moves(t, p, op[t], a, n),
         op[t] \in {"get", "release"} => a = arg[t], data' = data
  PROVE  A!Answer(t, IF op[t] \in {"release", "all"} THEN NoAnswer
                     ELSE [id |-> IF op[t] = "get" THEN 0 ELSE a, node |-> n])
<1>1. Stage[t] = "called"
  BY DEF Stage, Past
<1>2. Stage' = [Stage EXCEPT ![t] = "done"]
  BY OneCallMoves
<1>3. Reply' = [Reply EXCEPT ![t] = IF op[t] \in {"release", "all"} THEN NoAnswer
                  ELSE [id |-> IF op[t] = "get" THEN 0 ELSE a, node |-> n]]
  BY OneCallMoves
<1>4. Req' = Req
  <2>1. Req' = [Req EXCEPT ![t] = [fn |-> op[t], id |-> IF op[t] \in {"get", "release"} THEN a ELSE 0]]
    BY OneCallMoves
  <2>2. Req[t] = [fn |-> op[t], id |-> IF op[t] \in {"get", "release"} THEN a ELSE 0]
    BY DEF Req
  <2>3. QED  BY <2>1, <2>2 DEF Req
<1>5. QED  BY <1>1, <1>2, <1>3, <1>4 DEF A!Answer

\* A step before the deciding one, or after it, does not show.
LEMMA HiddenMove ==
  ASSUME RInv, NEW t \in Threads, NEW p \in PCs \ {"idle"}, NEW a, NEW n,
         Moves(t, p, op[t], a, n), pc[t] # "idle",
         Past(t) <=> p \in {"drain", "unlock", "copy"},
         op[t] \in {"get", "release"} => a = arg[t],
         Past(t) => a = arg[t] /\ n = node[t]
  PROVE  Stage' = Stage /\ Req' = Req /\ Reply' = Reply
<1>1. Stage' = Stage
  <2>1. Stage[t] = IF p \in {"drain", "unlock", "copy"} THEN "done" ELSE "called"
    BY DEF Stage
  <2>2. Stage' = [Stage EXCEPT ![t] = IF p \in {"drain", "unlock", "copy"} THEN "done" ELSE "called"]
    BY OneCallMoves
  <2>3. QED  BY <2>1, <2>2 DEF Stage
<1>2. Req' = Req
  <2>1. Req' = [Req EXCEPT ![t] = [fn |-> op[t], id |-> IF op[t] \in {"get", "release"} THEN a ELSE 0]]
    BY OneCallMoves
  <2>2. Req[t] = [fn |-> op[t], id |-> IF op[t] \in {"get", "release"} THEN a ELSE 0]
    BY DEF Req
  <2>3. QED  BY <2>1, <2>2 DEF Req
<1>3. Reply' = Reply
  <2> DEFINE r == IF p \notin {"drain", "unlock", "copy"} \/ op[t] \in {"release", "all"} THEN NoAnswer
                  ELSE [id |-> IF op[t] = "get" THEN 0 ELSE a, node |-> n]
  <2>1. Reply' = [Reply EXCEPT ![t] = r]
    BY OneCallMoves
  <2>2. Reply[t] = r
    BY DEF Reply
  <2>3. Reply = [u \in Threads |-> Reply[u]]
    BY DEF Reply
  <2> HIDE DEF r
  <2>4. QED  BY <2>1, <2>2, <2>3
<1>4. QED  BY <1>1, <1>2, <1>3

\* Getting the mutex is where res_release_all has its effect, and no other call.
LEMMA AcquireSteps ==
  ASSUME RInv, NEW t \in Threads, Acquire(t) PROVE A!ANext \/ UNCHANGED A!avars
<1> USE TableAssumption DEF RInv, IInv, TypeOK
<1>1. ~Draining /\ (Draining' <=> Entry(op[t]) = "drain")
  BY DEF Acquire, MutexFree, Draining, Acquired, Critical
<1>2. Moves(t, Entry(op[t]), op[t], arg[t], node[t])
  BY DEF Acquire, Moves
<1>3. op[t] = "all" <=> Entry(op[t]) = "drain"
  BY DEF Entry, Ops, Creates
<1>4. CASE op[t] = "all"
  <2>1. A!Answer(t, NoAnswer)
    <3>1. Moves(t, "drain", op[t], arg[t], node[t])
      BY <1>2, <1>3, <1>4
    <3>2. pc[t] \in PCs \ {"idle", "drain", "unlock", "copy"} /\ data' = data
      BY DEF Acquire, heap
    <3>3. QED  BY <3>1, <3>2, <1>4, DecidingMove
  <2>2. Table' = [i \in Ids |-> NoNode]
    BY <1>1, <1>3, <1>4 DEF Table
  <2>3. Used' = Used /\ Req[t].fn = "all"
    BY <1>4 DEF Acquire, heap, Used, Req
  <2>4. A!AReleaseAll(t)
    BY <2>1, <2>2, <2>3 DEF A!AReleaseAll, A!NoReply, NoAnswer
  <2>5. QED  BY <2>4 DEF A!ANext
<1>5. CASE op[t] # "all"
  <2>1. Stage' = Stage /\ Req' = Req /\ Reply' = Reply
    <3>1. Entry(op[t]) \in PCs \ {"idle", "drain", "unlock", "copy"}
      BY <1>5 DEF Entry, PCs, Critical, Ops, Creates
    <3>2. ~Past(t) /\ pc[t] # "idle"
      BY DEF Acquire, Past
    <3>3. QED  BY <1>2, <3>1, <3>2, HiddenMove
  <2>2. Table' = Table /\ Used' = Used /\ data' = data
    <3>1. head' = head /\ idOf' = idOf /\ made' = made /\ data' = data
      BY DEF Acquire, heap
    <3>2. Draining' = Draining
      BY <1>1, <1>3, <1>5 DEF Draining
    <3>3. QED  BY <3>1, <3>2, TableStays DEF Used
  <2>3. QED  BY <2>1, <2>2 DEF A!avars
<1>6. QED  BY <1>4, <1>5

\* The search of res_create does not show, and the node it links has its effect.
LEMMA CreateSteps ==
  ASSUME RInv, NEW t \in Threads, Probe(t) \/ Add(t) PROVE A!ANext \/ UNCHANGED A!avars
<1> USE TableAssumption DEF RInv, IInv, TypeOK
<1>0. data' = data
  BY DEF Probe, Add, heap
<1>1. ~Draining /\ Draining' = Draining
  <2>1. pc[t] \in {"probe", "add"} /\ \E p \in PCs \ {"drain"} : pc' = [pc EXCEPT ![t] = p]
    BY DEF Probe, Add, PCs, Critical
  <2>2. ~Draining
    BY <2>1, NotDraining DEF Critical
  <2>3. QED  BY <2>1, <2>2 DEF Draining
<1>2. op[t] \in Creates
  BY DEF Probe, Add, StepsOK
<1>3. CASE Probe(t)
  <2>1. Table' = Table /\ Used' = Used
    BY <1>1, <1>3, TableStays DEF Probe, heap, Used
  <2>2. PICK p \in {"probe", "add"} : Moves(t, p, op[t], lastId, node[t])
    BY <1>3 DEF Probe, Moves
  <2>3. Stage' = Stage /\ Req' = Req /\ Reply' = Reply
    <3>1. p \in PCs \ {"idle", "drain", "unlock", "copy"} /\ pc[t] # "idle" /\ ~Past(t)
      BY <1>3 DEF Probe, PCs, Critical, Past
    <3>2. QED  BY <1>2, <2>2, <3>1, HiddenMove DEF Creates
  <2>4. QED  BY <1>0, <2>1, <2>3 DEF A!avars
<1>4. CASE Add(t)
  <2>1. made + 1 \in Nodes \ Used /\ Used' = Used \cup {made + 1} /\ made + 1 \notin head
    BY <1>4 DEF Add, Nodes, Used, HeapOK
  <2>2. \A m \in head : idOf[m] # arg[t]
    BY <1>4 DEF Add, FreshId
  <2>3. arg[t] \in Ids \ A!InUse
    <3>1. Lookup(arg[t]) = NoNode
      BY <2>2 DEF Lookup
    <3>2. QED  BY <3>1 DEF A!InUse, Table
  <2>4. Table' = [Table EXCEPT ![arg[t]] = made + 1]
    <3>1. head' = head \cup {made + 1} /\ idOf'[made + 1] = arg[t]
          /\ \A m \in head : idOf'[m] = idOf[m]
      BY <1>4, <2>1 DEF Add
    <3>2. Lookup(arg[t])' = made + 1
      <4>1. {m \in head' : idOf'[m] = arg[t]} = {made + 1}
        BY <2>2, <3>1
      <4>2. (CHOOSE m \in {made + 1} : TRUE) = made + 1
        OBVIOUS
      <4>3. arg'[t] = arg[t]
        BY <1>4 DEF Add
      <4>4. QED  BY <4>1, <4>2, <4>3 DEF Lookup
    <3>3. ASSUME NEW i \in Ids, i # arg[t] PROVE Lookup(i)' = Lookup(i)
      <4>1. {m \in head' : idOf'[m] = i} = {m \in head : idOf[m] = i}
        BY <3>1, <3>3
      <4>2. /\ Lookup(i) = One({m \in head : idOf[m] = i})
            /\ Lookup(i)' = One({m \in head' : idOf'[m] = i})
        BY LookupIsOne, Zenon
      <4>3. QED  BY <4>1, <4>2, Zenon
    <3>4. arg'[t] = arg[t]
      BY <1>4 DEF Add
    <3>5. QED  BY <1>1, <3>2, <3>3, <3>4 DEF Table
  <2>5. A!Answer(t, [id |-> arg[t], node |-> made + 1])
    <3>1. Moves(t, "unlock", op[t], arg[t], made + 1)
      BY <1>4 DEF Add, Moves
    <3>2. pc[t] \in PCs \ {"idle", "drain", "unlock", "copy"}
      BY <1>4 DEF Add, PCs, Critical
    <3>3. QED  BY <1>0, <1>2, <3>1, <3>2, DecidingMove DEF Creates
  <2>6. Req[t].fn \in {"create", "clone"}
    BY <1>2 DEF Req, Creates
  <2>7. A!ACreate(t)
    BY <2>1, <2>3, <2>4, <2>5, <2>6 DEF A!ACreate
  <2>8. QED  BY <2>7 DEF A!ANext
<1>5. QED  BY <1>3, <1>4

\* The lookup is the effect of res_get, and of a res_release that finds nothing.
LEMMA FindSteps ==
  ASSUME RInv, NEW t \in Threads, Find(t) PROVE A!ANext \/ UNCHANGED A!avars
<1> USE TableAssumption DEF RInv, IInv, TypeOK
<1>1. ~Draining /\ Table' = Table /\ Used' = Used /\ data' = data
  <2>1. pc[t] = "find" /\ \E p \in PCs \ {"drain"} : pc' = [pc EXCEPT ![t] = p]
    BY DEF Find, PCs, Critical
  <2>2. ~Draining
    BY <2>1, NotDraining DEF Critical
  <2>3. Draining' = Draining
    BY <2>1, <2>2 DEF Draining
  <2>4. QED  BY <2>2, <2>3, TableStays DEF Find, heap, Used
<1>2. pc[t] \in PCs \ {"idle", "drain", "unlock", "copy"} /\ ~Past(t) /\ pc[t] # "idle"
  BY DEF Find, PCs, Critical, Past
<1>3. op[t] \in {"get", "release"}
  BY DEF Find, StepsOK
<1>4. Table[arg[t]] = Lookup(arg[t]) /\ Req[t] = [fn |-> op[t], id |-> arg[t]]
  BY <1>1, <1>3 DEF Table, Req
<1>5. CASE op[t] = "get"
  <2>1. Moves(t, "unlock", op[t], arg[t], Lookup(arg[t]))
    BY <1>5 DEF Find, Moves
  <2>2. A!Answer(t, [id |-> 0, node |-> Lookup(arg[t])])
    BY <1>1, <1>2, <1>5, <2>1, DecidingMove
  <2>3. A!AGet(t)
    BY <1>1, <1>4, <1>5, <2>2 DEF A!AGet
  <2>4. QED  BY <2>3 DEF A!ANext
<1>6. CASE op[t] = "release" /\ Lookup(arg[t]) = NoNode
  <2>1. Moves(t, "unlock", op[t], arg[t], Lookup(arg[t]))
    BY <1>6 DEF Find, Moves
  <2>2. A!Answer(t, NoAnswer)
    BY <1>1, <1>2, <1>6, <2>1, DecidingMove
  <2>3. [Table EXCEPT ![arg[t]] = NoNode] = Table
    BY <1>4, <1>6 DEF Table
  <2>4. A!ARelease(t)
    BY <1>1, <1>4, <1>6, <2>2, <2>3 DEF A!ARelease, A!NoReply, NoAnswer
  <2>5. QED  BY <2>4 DEF A!ANext
<1>7. CASE op[t] = "release" /\ Lookup(arg[t]) # NoNode
  <2>1. Moves(t, "del", op[t], arg[t], Lookup(arg[t]))
    BY <1>7 DEF Find, Moves
  <2>2. "del" \in PCs \ {"idle", "drain", "unlock", "copy"}
    BY DEF PCs, Critical
  <2>3. Stage' = Stage /\ Req' = Req /\ Reply' = Reply
    BY <1>2, <2>1, <2>2, HiddenMove
  <2>4. QED  BY <1>1, <2>3 DEF A!avars
<1>8. QED  BY <1>3, <1>5, <1>6, <1>7

\* The unlinking is the effect of a res_release that found its node.
LEMMA DelSteps == ASSUME RInv, NEW t \in Threads, Del(t) PROVE A!ANext
<1> USE TableAssumption DEF RInv, IInv, TypeOK
<1>1. ~Draining /\ ~Draining'
  <2>1. pc[t] = "del" /\ pc' = [pc EXCEPT ![t] = "unlock"]
    BY DEF Del
  <2>2. ~Draining
    BY <2>1, NotDraining DEF Critical
  <2>3. QED  BY <2>1, <2>2 DEF Draining
<1>2. op[t] = "release" /\ idOf[node[t]] = arg[t] /\ node[t] \in head
  BY DEF Del, StepsOK, Locals, FreesLinked
<1>3. Table' = [Table EXCEPT ![arg[t]] = NoNode]
  <2>1. head' = head \ {node[t]} /\ idOf' = idOf /\ arg' = arg
    BY DEF Del, Unlinked
  <2>2. Lookup(arg[t])' = NoNode
    <3>1. {m \in head' : idOf'[m] = arg'[t]} = {}
      BY <1>2, <2>1 DEF UniqueIds
    <3>2. QED  BY <3>1 DEF Lookup
  <2>3. ASSUME NEW i \in Ids, i # arg[t] PROVE Lookup(i)' = Lookup(i)
    <3>1. {m \in head' : idOf'[m] = i} = {m \in head : idOf[m] = i}
      BY <1>2, <2>1, <2>3
    <3>2. /\ Lookup(i) = One({m \in head : idOf[m] = i})
          /\ Lookup(i)' = One({m \in head' : idOf'[m] = i})
      BY LookupIsOne, Zenon
    <3>3. QED  BY <3>1, <3>2, Zenon
  <2>4. QED  BY <1>1, <2>1, <2>2, <2>3 DEF Table
<1>4. A!Answer(t, NoAnswer)
  <2>1. Moves(t, "unlock", op[t], arg[t], node[t])
    BY DEF Del, Moves
  <2>2. pc[t] \in PCs \ {"idle", "drain", "unlock", "copy"}
    BY DEF Del, PCs, Critical
  <2>3. data' = data
    BY DEF Del
  <2>4. QED  BY <1>2, <2>1, <2>2, <2>3, DecidingMove
<1>5. Used' = Used /\ Req[t] = [fn |-> "release", id |-> arg[t]]
  BY <1>2 DEF Del, Used, Req
<1>6. A!ARelease(t)
  BY <1>3, <1>4, <1>5 DEF A!ARelease, A!NoReply, NoAnswer
<1>7. QED  BY <1>6 DEF A!ANext

\* The walk is the effect of res_any.
LEMMA IterSteps == ASSUME RInv, NEW t \in Threads, Iter(t) PROVE A!ANext
<1> USE TableAssumption DEF RInv, IInv, TypeOK
<1>1. ~Draining /\ Table' = Table /\ Used' = Used /\ data' = data
  <2>1. pc[t] = "iter" /\ pc' = [pc EXCEPT ![t] = "unlock"]
    BY DEF Iter
  <2>2. ~Draining
    BY <2>1, NotDraining DEF Critical
  <2>3. Draining' = Draining
    BY <2>1, <2>2 DEF Draining
  <2>4. QED  BY <2>2, <2>3, TableStays DEF Iter, heap, Used
<1>2. op[t] = "any" /\ node[t] = NoNode
  BY DEF Iter, StepsOK, Locals
<1>3. NoNode \notin head
  BY DEF Nodes, NoNode
<1>4. PICK a : /\ a \in IF A!InUse = {} THEN {-1} ELSE A!InUse
               /\ arg' = [arg EXCEPT ![t] = a]
  <2>1. A!InUse = {idOf[n] : n \in head}
    <3>1. \A i \in Ids : Lookup(i) # NoNode <=> \E n \in head : idOf[n] = i
      BY <1>3, LookupFinds
    <3>2. A!InUse = {i \in Ids : Lookup(i) # NoNode}
      BY <1>1 DEF A!InUse, Table
    <3>3. QED  BY <3>1, <3>2
  <2>2. QED  BY <2>1 DEF Iter, IsNewest
<1>5. A!Answer(t, [id |-> a, node |-> NoNode])
  <2>1. Moves(t, "unlock", op[t], a, node[t])
    BY <1>4 DEF Iter, Moves
  <2>2. pc[t] \in PCs \ {"idle", "drain", "unlock", "copy"}
    BY DEF Iter, PCs, Critical
  <2>3. QED  BY <1>1, <1>2, <2>1, <2>2, DecidingMove
<1>6. Req[t].fn = "any"
  BY <1>2 DEF Req
<1>7. A!AAny(t)
  BY <1>1, <1>4, <1>5, <1>6 DEF A!AAny
<1>8. QED  BY <1>7 DEF A!ANext

\* Nobody sees the turns of res_release_all: the table is empty already.
LEMMA DrainSteps == ASSUME RInv, NEW t \in Threads, Drain(t) PROVE UNCHANGED A!avars
<1> USE TableAssumption DEF RInv, IInv, TypeOK
<1>1. pc[t] = "drain" /\ op[t] = "all" /\ Past(t) /\ Draining
  BY DEF Drain, StepsOK, Past, Draining
<1>2. PICK p \in {"drain", "unlock"} :
        /\ Moves(t, p, op[t], arg[t], node[t])
        /\ p = "drain" \/ head' = {}
  BY <1>1 DEF Drain, Moves
<1>3. Stage' = Stage /\ Req' = Req /\ Reply' = Reply
  <2>1. p \in PCs \ {"idle"}
    BY DEF PCs, Critical
  <2>2. QED  BY <1>1, <1>2, <2>1, HiddenMove
<1>4. Table' = Table
  <2>1. Table = [i \in Ids |-> NoNode]
    BY <1>1 DEF Table
  <2>2. CASE p = "drain"
    BY <1>2, <2>1, <2>2 DEF Table, Draining, Moves
  <2>3. CASE head' = {}
    BY <2>1, <2>3 DEF Table, Lookup
  <2>4. QED  BY <1>2, <2>2, <2>3
<1>5. QED  BY <1>3, <1>4 DEF Drain, Used, A!avars

\* A call whose effect is past returns with the answer it has; a clone that has
\* an id that is not negative has filled its node.
LEMMA ReturnSteps ==
  ASSUME RInv, NEW t \in Threads, Past(t), Return(t), Table' = Table, Used' = Used,
         data' = IF A!Fills(t) THEN [data EXCEPT ![Reply[t].node] = t] ELSE data
  PROVE  A!ANext
<1> USE DEF RInv, IInv, TypeOK
<1>1. Moves(t, "idle", "any", 0, NoNode)
  BY DEF Return, Moves
<1>2. Stage[t] = "done"
  BY DEF Stage, Past
<1>3. /\ Stage' = [Stage EXCEPT ![t] = "idle"]
      /\ Req' = [Req EXCEPT ![t] = [fn |-> "any", id |-> 0]]
      /\ Reply' = [Reply EXCEPT ![t] = NoAnswer]
  BY <1>1, OneCallMoves
<1>4. A!AReturn(t)
  BY <1>2, <1>3 DEF A!AReturn, A!NoReply, NoAnswer
<1>5. QED  BY <1>4 DEF A!ANext

\* After the unlock a clone with an id that is not negative still copies, and fills
\* its node as it returns; every other call returns.
LEMMA LeaveSteps ==
  ASSUME RInv, NEW t \in Threads, Unlock(t) \/ Copy(t) PROVE A!ANext \/ UNCHANGED A!avars
<1> USE DEF RInv, IInv, TypeOK
<1>1. Past(t) /\ pc[t] \in {"unlock", "copy"} /\ pc[t] # "idle"
  BY DEF Unlock, Copy, Past
<1>2. Table' = Table /\ Used' = Used
  <2>1. head' = head /\ idOf' = idOf /\ made' = made
    BY DEF Unlock, Copy, heap
  <2>2. \E p \in {"idle", "copy"} : pc' = [pc EXCEPT ![t] = p]
    BY DEF Unlock, Copy, Return
  <2>3. Draining' = Draining
    BY <1>1, <2>2 DEF Draining
  <2>4. QED  BY <2>1, <2>3, TableStays DEF Used
<1>3. CASE Return(t)
  <2>1. A!Fills(t) <=> op[t] = "clone" /\ arg[t] >= 0
    BY <1>1 DEF A!Fills, Req, Reply
  <2>2. op[t] = "clone" => Reply[t].node = node[t]
    BY <1>1 DEF Reply
  <2>3. data' = IF A!Fills(t) THEN [data EXCEPT ![Reply[t].node] = t] ELSE data
    <3>1. CASE Unlock(t)
      <4>1. ~(op[t] = "clone" /\ arg[t] >= 0)
        BY <1>3, <3>1 DEF Unlock, Return
      <4>2. QED  BY <2>1, <3>1, <4>1 DEF Unlock, heap
    <3>2. CASE Copy(t)
      <4>1. op[t] = "clone" /\ arg[t] >= 0
        BY <3>2 DEF Copy, Locals
      <4>2. QED  BY <2>1, <2>2, <3>2, <4>1 DEF Copy, Target
    <3>3. QED  BY <3>1, <3>2
  <2>4. QED  BY <1>1, <1>2, <1>3, <2>3, ReturnSteps
<1>4. CASE ~Return(t)
  <2>1. Moves(t, "copy", op[t], arg[t], node[t])
    BY <1>4 DEF Unlock, Copy, Moves
  <2>2. "copy" \in PCs \ {"idle"}
    BY DEF PCs
  <2>3. Stage' = Stage /\ Req' = Req /\ Reply' = Reply
    BY <1>1, <2>1, <2>2, HiddenMove
  <2>4. data' = data
    BY <1>4 DEF Unlock, Copy, heap
  <2>5. QED  BY <1>2, <2>3, <2>4 DEF A!avars
<1>5. QED  BY <1>3, <1>4

-----------------------------------------------------------------------------
\* The table starts empty, with nobody in a call.
LEMMA InitMaps == Init => A!AInit
<1> SUFFICES ASSUME Init PROVE A!AInit
  OBVIOUS
<1> USE DEF Init
<1>1. Table = [i \in Ids |-> NoNode]
  BY DEF Table, Draining, Lookup
<1>2. Used = {}
  BY DEF Used
<1>3. /\ Stage = [t \in Threads |-> "idle"]
      /\ Req = [t \in Threads |-> [fn |-> "any", id |-> 0]]
      /\ Reply = [t \in Threads |-> NoAnswer]
  BY DEF Stage, Req, Reply, Past
<1>4. QED  BY <1>1, <1>2, <1>3 DEF A!AInit, A!NoReply, NoAnswer

\* Each step of the table is a step of ResAtomic, or does not show.
LEMMA StepMaps == RInv /\ [Next]_vars => [A!ANext]_(A!avars)
<1> SUFFICES ASSUME RInv, [Next]_vars PROVE A!ANext \/ UNCHANGED A!avars
  OBVIOUS
<1>1. CASE UNCHANGED vars
  BY <1>1 DEF vars, heap, A!avars, Table, Used, Stage, Req, Reply, Draining, Lookup, Past
<1>2. QED
  BY <1>1, InvokeSteps, AcquireSteps, CreateSteps, FindSteps, DelSteps, IterSteps, DrainSteps,
     LeaveSteps DEF Next, Inside

\* Ids, nodes and contents change as ResAtomic promises: the waiting, the search
\* for an id and the turns of res_release_all do not show, and the late copy of
\* res_create_and_clone does, as an instant of its own.
THEOREM TableIsAtomic == Spec => IsAtomic
<1>1. Init => Atomic!AInit
  BY InitMaps, SameAtomic
<1>2. RInv /\ [Next]_vars => [Atomic!ANext]_(Atomic!avars)
  BY StepMaps, SameAtomic
<1>3. QED  BY <1>1, <1>2, RInvHolds, PTL DEF Spec, IsAtomic, Atomic!ASpec
=============================================================================
