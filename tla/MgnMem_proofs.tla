---------------------------- MODULE MgnMem_proofs ----------------------------
(***************************************************************************)
(* Proofs about MgnMem: the retained counts are the numbers of owners, no  *)
(* owner is left with memory that was given back, and autoreleased memory  *)
(* stays until a purge, for any number of owners, any addresses and any    *)
(* sizes.                                                                  *)
(***************************************************************************)
EXTENDS MgnMem, FiniteSetTheorems, TLAPS

\* The inductive invariant.  Each part needs the others: a count is known to be
\* positive only because the owner that gives it up is one of those it counts,
\* and new memory has no owner only because owned memory is live.
IInv == TypeOK /\ CountsOwners /\ OwnedIsLive /\ PoolIsComplete

\* What an entry of the pool is, its count not bounded.
Entry == [s : Sizes, r : Nat]
IsPool(p) == p \in [DOMAIN p -> Entry]
Ranges ==
  /\ IsPool(pool)
  /\ live \subseteq Addrs
  /\ holds \in [Owners -> SUBSET Addrs]

-----------------------------------------------------------------------------
(* The operators on the pool. *)

\* q is p but for the entry of a, which is out, new with one reference, or has
\* the count n.
Same(p, q, a) == IsPool(q) /\ \A x \in DOMAIN p \ {a} : q[x] = p[x]
Deleted(p, q, a) == DOMAIN q = DOMAIN p \ {a} /\ Same(p, q, a)
Added(p, q, a) == DOMAIN q = DOMAIN p \cup {a} /\ q[a].r = 1 /\ Same(p, q, a)
Recounted(p, q, a, n) == DOMAIN q = DOMAIN p /\ q[a].r = n /\ Same(p, q, a)

\* HASH_DEL leaves the other entries as they were.
LEMMA WithoutIs == ASSUME NEW p, IsPool(p), NEW a PROVE Deleted(p, Without(p, a), a)
BY DEF Without, Restrict, IsPool, Deleted, Same

\* HASH_ADD_PTR adds an entry with one reference.
LEMMA WithIs == ASSUME NEW p, IsPool(p), NEW a, NEW s \in Sizes PROVE Added(p, With(p, a, s), a)
BY DEF With, Entry, IsPool, Added, Same

\* A count is changed in place.
LEMMA CountedIs ==
  ASSUME NEW p, IsPool(p), NEW a \in DOMAIN p, NEW n \in Nat
  PROVE  Recounted(p, Counted(p, a, n), a, n)
BY DEF Counted, Entry, IsPool, Recounted, Same

-----------------------------------------------------------------------------
(* The owners of a memory. *)

\* Counting owners: there are finitely many.
LEMMA OwnersCount ==
  ASSUME NEW h \in SUBSET Owners
  PROVE  /\ IsFiniteSet(h)
         /\ Cardinality(h) \in Nat
         /\ Cardinality(h) \in 0 .. Cardinality(Owners)
         /\ Cardinality(h) = 0 <=> h = {}
BY MgnMemAssumption, FS_Subset, FS_CardinalityType, FS_EmptySet

\* The count of the owners of a memory is between zero and all of them.
LEMMA HoldersType ==
  ASSUME NEW a
  PROVE  /\ IsFiniteSet(Holders(a))
         /\ Cardinality(Holders(a)) \in Nat
         /\ Cardinality(Holders(a)) \in 0 .. Cardinality(Owners)
         /\ Cardinality(Holders(a)) = 0 <=> Holders(a) = {}
<1>1. Holders(a) \in SUBSET Owners
  BY DEF Holders
<1>2. QED
  BY <1>1, OwnersCount

\* Memory that no owner is left with after a step.
LEMMA NoHolders ==
  ASSUME NEW a, Cardinality(Holders(a)') = 0
  PROVE  \A o \in Owners : a \notin holds'[o]
<1>1. Holders(a)' \in SUBSET Owners
  BY DEF Holders
<1>2. Holders(a)' = {}
  BY <1>1, OwnersCount
<1>3. QED
  BY <1>2 DEF Holders

\* Giving a reference makes one more owner of that memory, and changes no other.
LEMMA GiveHolders ==
  ASSUME TypeOK, NEW o \in Owners, NEW a \in Addrs, a \notin holds[o], Give(o, a)
  PROVE  /\ holds' \in [Owners -> SUBSET Addrs]
         /\ Cardinality(Holders(a)') = Cardinality(Holders(a)) + 1
         /\ \A x \in Addrs \ {a} : Holders(x)' = Holders(x)
<1>1. holds' \in [Owners -> SUBSET Addrs]
  BY DEF TypeOK, Give
<1>2. Holders(a)' = Holders(a) \cup {o} /\ o \notin Holders(a)
  BY DEF TypeOK, Give, Holders
<1>3. \A x \in Addrs \ {a} : Holders(x)' = Holders(x)
  BY DEF TypeOK, Give, Holders
<1>4. QED
  BY <1>1, <1>2, <1>3, HoldersType, FS_AddElement

\* Giving one up makes one less, of at least one.
LEMMA TakeHolders ==
  ASSUME TypeOK, NEW o \in Owners, NEW a \in holds[o], Take(o, a)
  PROVE  /\ holds' \in [Owners -> SUBSET Addrs]
         /\ Cardinality(Holders(a)') = Cardinality(Holders(a)) - 1
         /\ Cardinality(Holders(a)) > 0
         /\ \A x \in Addrs \ {a} : Holders(x)' = Holders(x)
<1>1. holds' \in [Owners -> SUBSET Addrs]
  BY DEF TypeOK, Take
<1>2. Holders(a)' = Holders(a) \ {o} /\ o \in Holders(a)
  BY DEF TypeOK, Take, Holders
<1>3. \A x \in Addrs \ {a} : Holders(x)' = Holders(x)
  BY DEF TypeOK, Take, Holders
<1>4. Cardinality(Holders(a)) \in Nat /\ Cardinality(Holders(a)) # 0
  BY <1>2, HoldersType
<1>5. Cardinality(Holders(a) \ {o}) = Cardinality(Holders(a)) - 1
  BY <1>2, HoldersType, FS_RemoveElement
<1>6. QED
  BY <1>1, <1>2, <1>3, <1>4, <1>5

\* Extending exchanges the owner's reference for one to the new memory.
LEMMA SwapHolders ==
  ASSUME TypeOK, NEW o \in Owners, NEW a \in holds[o], NEW b \in Addrs, b \notin holds[o],
         Swap(o, a, b)
  PROVE  /\ holds' \in [Owners -> SUBSET Addrs]
         /\ Cardinality(Holders(a)') = Cardinality(Holders(a)) - 1
         /\ Cardinality(Holders(a)) > 0
         /\ Cardinality(Holders(b)') = Cardinality(Holders(b)) + 1
         /\ \A x \in Addrs \ {a, b} : Holders(x)' = Holders(x)
<1>1. holds' \in [Owners -> SUBSET Addrs]
  BY DEF TypeOK, Swap
<1>2. Holders(a)' = Holders(a) \ {o} /\ o \in Holders(a)
  BY DEF TypeOK, Swap, Holders
<1>3. Holders(b)' = Holders(b) \cup {o} /\ o \notin Holders(b)
  BY DEF TypeOK, Swap, Holders
<1>4. \A x \in Addrs \ {a, b} : Holders(x)' = Holders(x)
  BY DEF TypeOK, Swap, Holders
<1>5. Cardinality(Holders(a)) \in Nat /\ Cardinality(Holders(a)) # 0
  BY <1>2, HoldersType
<1>6. Cardinality(Holders(a) \ {o}) = Cardinality(Holders(a)) - 1
  BY <1>2, HoldersType, FS_RemoveElement
<1>7. Cardinality(Holders(b) \cup {o}) = Cardinality(Holders(b)) + 1
  BY <1>3, HoldersType, FS_AddElement
<1>8. QED
  BY <1>1, <1>2, <1>3, <1>4, <1>5, <1>6, <1>7

\* Memory that is not live has no owner.
LEMMA FreshHasNone ==
  ASSUME TypeOK, OwnedIsLive, NEW b \in Fresh
  PROVE  /\ \A o \in Owners : b \notin holds[o]
         /\ Cardinality(Holders(b)) = 0
<1>1. \A o \in Owners : b \notin holds[o]
  BY DEF OwnedIsLive, Fresh
<1>2. Holders(b) = {}
  BY <1>1 DEF Holders
<1>3. QED
  BY <1>1, <1>2, HoldersType

\* The bound on the counts comes with what they count.
LEMMA TypeFromCounts == Ranges /\ CountsOwners /\ PoolIsComplete => TypeOK
<1> SUFFICES ASSUME Ranges, CountsOwners, PoolIsComplete PROVE TypeOK
  OBVIOUS
<1> USE DEF Ranges, PoolIsComplete, IsPool, InPool
<1>1. \A a \in InPool : pool[a] \in [s : Sizes, r : 0 .. Cardinality(Owners)]
  <2> TAKE a \in InPool
  <2>1. pool[a] \in Entry /\ pool[a].r \in 0 .. Cardinality(Owners)
    BY HoldersType DEF CountsOwners
  <2>2. QED
    BY <2>1 DEF Entry
<1>2. pool \in [InPool -> [s : Sizes, r : 0 .. Cardinality(Owners)]]
  BY <1>1
<1>3. QED
  BY <1>2 DEF TypeOK

\* What the invariant says of the pool before a step.
LEMMA PoolOK ==
  ASSUME TypeOK, CountsOwners
  PROVE  /\ IsPool(pool)
         /\ \A a \in InPool : pool[a].r \in Nat /\ pool[a].s \in Sizes
         /\ \A a \in InPool : pool[a].r = Cardinality(Holders(a))
<1>1. \A a \in InPool : pool[a] \in Entry
  BY MgnMemAssumption, FS_CardinalityType DEF TypeOK, Entry
<1>2. QED
  BY <1>1 DEF TypeOK, CountsOwners, Entry, InPool, IsPool

-----------------------------------------------------------------------------
(* One step. *)

Kept == Ranges' /\ CountsOwners' /\ OwnedIsLive' /\ PoolIsComplete'

\* mgn_mem_alloc: new memory, one reference, one owner.
LEMMA AllocStep ==
  ASSUME IInv, NEW o \in Owners, NEW s \in Sizes, Alloc(o, s)
  PROVE  Kept
<1> USE DEF IInv
<1>0. IsPool(pool)
  BY PoolOK
<1>1. PICK a \in Fresh : pool' = With(pool, a, s) /\ live' = live \cup {a} /\ Give(o, a)
  BY DEF Alloc
<1>2. a \in Addrs /\ a \notin live /\ a \notin InPool /\ live \subseteq Addrs
  BY DEF Fresh, PoolIsComplete, TypeOK
<1>3. /\ holds' \in [Owners -> SUBSET Addrs]
      /\ Cardinality(Holders(a)') = 1
      /\ \A x \in Addrs \ {a} : Holders(x)' = Holders(x)
  BY <1>1, <1>2, FreshHasNone, GiveHolders
<1>4. Added(pool, pool', a)
  BY <1>0, <1>1, WithIs
<1>5. CountsOwners'
  BY <1>2, <1>3, <1>4 DEF CountsOwners, TypeOK, InPool, Added, Same
<1>6. OwnedIsLive'
  BY <1>1 DEF OwnedIsLive, Give, TypeOK
<1>7. PoolIsComplete'
  BY <1>1, <1>2, <1>3, <1>4 DEF PoolIsComplete, TypeOK, InPool, Added, Same
<1>8. QED
  BY <1>1, <1>2, <1>3, <1>4, <1>5, <1>6, <1>7 DEF Kept, Ranges, Added, Same

\* What holds where an owner extends or gives up a memory of the pool.
LEMMA OwnedInPool ==
  ASSUME IInv, NEW o \in Owners, NEW a \in holds[o] \cap InPool
  PROVE  /\ IsPool(pool)
         /\ a \in Addrs /\ a \in live
         /\ pool[a].r \in Nat /\ pool[a].r > 0
         /\ pool[a].r = Cardinality(Holders(a))
         /\ Less(pool[a].r) = Cardinality(Holders(a)) - 1
         /\ Less(pool[a].r) \in Nat
<1> USE DEF IInv
<1>1. o \in Holders(a)
  BY DEF Holders
<1>2. Cardinality(Holders(a)) \in Nat /\ Cardinality(Holders(a)) # 0
  BY <1>1, HoldersType
<1>3. pool[a].r = Cardinality(Holders(a))
  BY DEF CountsOwners
<1>4. a \in Addrs /\ a \in live
  BY DEF TypeOK, PoolIsComplete
<1>5. QED
  BY <1>2, <1>3, <1>4, PoolOK DEF Less

\* mgn_mem_ralloc by the only owner: the old memory goes with its last reference.
LEMMA MoveStep ==
  ASSUME IInv, NEW o \in Owners, NEW s \in Sizes, NEW a \in Addrs, Move(o, a, s)
  PROVE  Kept
<1> USE DEF IInv
<1>1. PICK b \in Fresh : /\ pool' = With(Without(pool, a), b, s)
                         /\ live' = (live \ {a}) \cup {b}
                         /\ Swap(o, a, b)
  BY DEF Move
<1>2. a \in holds[o] \cap InPool /\ pool[a].r = 1
  BY DEF Move, Extends, OnlyOwner
<1>3. /\ b \in Addrs /\ b \notin live /\ b \notin InPool /\ b # a
      /\ live \subseteq Addrs /\ InPool \subseteq Addrs /\ InPool \subseteq live
  BY <1>2 DEF Fresh, PoolIsComplete, TypeOK
<1>4. /\ holds' \in [Owners -> SUBSET Addrs]
      /\ Cardinality(Holders(a)') = 0
      /\ Cardinality(Holders(b)') = 1
      /\ \A x \in Addrs \ {a, b} : Holders(x)' = Holders(x)
  <2>1. Cardinality(Holders(a)) = 1
    BY <1>2, OwnedInPool
  <2>2. b \notin holds[o] /\ Cardinality(Holders(b)) = 0
    BY FreshHasNone
  <2>3. QED
    BY <1>1, <1>2, <1>3, <2>1, <2>2, SwapHolders
<1>5. PICK w : Deleted(pool, w, a) /\ Added(w, pool', b)
  <2>1. Deleted(pool, Without(pool, a), a)
    BY PoolOK, WithoutIs
  <2>2. Added(Without(pool, a), pool', b)
    BY <1>1, <2>1, WithIs DEF Deleted, Same
  <2>3. QED
    BY <2>1, <2>2
<1>6. /\ InPool' = (InPool \ {a}) \cup {b} /\ IsPool(pool') /\ pool'[b].r = 1
      /\ \A x \in InPool \ {a, b} : pool'[x] = pool[x]
  BY <1>3, <1>5 DEF Deleted, Added, Same, InPool
<1>7. CountsOwners'
  BY <1>2, <1>3, <1>4, <1>6 DEF CountsOwners
<1>8. OwnedIsLive'
  <2>1. \A u \in Owners : a \notin holds'[u]
    BY <1>4, NoHolders
  <2>2. QED
    BY <1>1, <2>1 DEF OwnedIsLive, Swap, TypeOK
<1>9. PoolIsComplete'
  BY <1>1, <1>2, <1>3, <1>4, <1>6 DEF PoolIsComplete
<1>10. QED
  BY <1>1, <1>3, <1>4, <1>6, <1>7, <1>8, <1>9 DEF Kept, Ranges

\* The same without memory: the entry is lost, and its one owner keeps the memory.
LEMMA MoveFailsStep ==
  ASSUME IInv, NEW o \in Owners, NEW s \in Sizes, NEW a \in Addrs, MoveFails(o, a, s)
  PROVE  Kept
<1> USE DEF IInv
<1>1. /\ a \in holds[o] \cap InPool /\ pool[a].r = 1
      /\ pool' = Without(pool, a) /\ UNCHANGED <<live, holds>>
  BY DEF MoveFails, Extends, OnlyOwner
<1>2. \A x : Holders(x)' = Holders(x)
  BY <1>1 DEF Holders
<1>3. Cardinality(Holders(a)) = 1
  BY <1>1, OwnedInPool
<1>4. Deleted(pool, pool', a)
  BY <1>1, PoolOK, WithoutIs
<1>5. CountsOwners'
  BY <1>2, <1>4 DEF CountsOwners, Deleted, Same, InPool
<1>6. OwnedIsLive'
  BY <1>1 DEF OwnedIsLive
<1>7. PoolIsComplete'
  BY <1>1, <1>2, <1>3, <1>4 DEF PoolIsComplete, Deleted, InPool
<1>8. QED
  BY <1>1, <1>4, <1>5, <1>6, <1>7 DEF Kept, Ranges, Deleted, Same, TypeOK

\* mgn_mem_ralloc of a memory with other owners: one reference moves to the copy.
LEMMA SplitStep ==
  ASSUME IInv, NEW o \in Owners, NEW s \in Sizes, NEW a \in Addrs, Split(o, a, s)
  PROVE  Kept
<1> USE DEF IInv
<1> DEFINE r == Less(pool[a].r)
<1>1. PICK b \in Fresh : /\ pool' = With(Counted(pool, a, r), b, s)
                         /\ live' = live \cup {b}
                         /\ Swap(o, a, b)
  BY DEF Split
<1>2. a \in holds[o] \cap InPool
  BY DEF Split, Extends
<1>3. /\ b \in Addrs /\ b \notin live /\ b \notin InPool /\ b # a
      /\ live \subseteq Addrs /\ InPool \subseteq Addrs /\ InPool \subseteq live
  BY <1>2 DEF Fresh, PoolIsComplete, TypeOK
<1>4. /\ holds' \in [Owners -> SUBSET Addrs]
      /\ Cardinality(Holders(a)') = r
      /\ Cardinality(Holders(b)') = 1
      /\ \A x \in Addrs \ {a, b} : Holders(x)' = Holders(x)
  <2>1. r = Cardinality(Holders(a)) - 1
    BY <1>2, OwnedInPool
  <2>2. b \notin holds[o] /\ Cardinality(Holders(b)) = 0
    BY FreshHasNone
  <2>3. QED
    BY <1>1, <1>2, <1>3, <2>1, <2>2, SwapHolders
<1>5. PICK w : Recounted(pool, w, a, r) /\ Added(w, pool', b)
  <2>1. IsPool(pool) /\ r \in Nat /\ a \in DOMAIN pool
    BY <1>2, OwnedInPool DEF InPool
  <2>2. Recounted(pool, Counted(pool, a, r), a, r)
    BY <2>1, CountedIs
  <2>3. Added(Counted(pool, a, r), pool', b)
    BY <1>1, <2>2, WithIs DEF Recounted, Same
  <2>4. QED
    BY <2>2, <2>3
<1>6. /\ InPool' = InPool \cup {b} /\ IsPool(pool') /\ pool'[b].r = 1 /\ pool'[a].r = r
      /\ \A x \in InPool \ {a, b} : pool'[x] = pool[x]
  BY <1>2, <1>3, <1>5 DEF Recounted, Added, Same, InPool
<1>7. CountsOwners'
  BY <1>2, <1>3, <1>4, <1>6 DEF CountsOwners
<1>8. OwnedIsLive'
  BY <1>1 DEF OwnedIsLive, Swap, TypeOK
<1>9. PoolIsComplete'
  BY <1>1, <1>2, <1>3, <1>4, <1>6 DEF PoolIsComplete
<1>10. QED
  BY <1>1, <1>3, <1>4, <1>6, <1>7, <1>8, <1>9 DEF Kept, Ranges

\* A reference is given up and the memory stays: the same change by
\* mgn_mem_autorelease, by mgn_mem_release of a memory with other owners and by
\* mgn_mem_ralloc that gets no memory for its copy.
LEMMA LessStep ==
  ASSUME IInv, NEW o \in Owners, NEW a \in holds[o] \cap InPool,
         pool' = Counted(pool, a, Less(pool[a].r)), Take(o, a), UNCHANGED live
  PROVE  Kept
<1> USE DEF IInv
<1> DEFINE r == Less(pool[a].r)
<1>1. IsPool(pool) /\ r \in Nat /\ r = Cardinality(Holders(a)) - 1 /\ a \in Addrs
  BY OwnedInPool
<1>2. /\ holds' \in [Owners -> SUBSET Addrs]
      /\ Cardinality(Holders(a)') = r
      /\ \A x \in Addrs \ {a} : Holders(x)' = Holders(x)
  BY <1>1, TakeHolders
<1>3. Recounted(pool, pool', a, r)
  BY <1>1, CountedIs DEF InPool
<1>4. /\ InPool' = InPool /\ IsPool(pool') /\ pool'[a].r = r
      /\ \A x \in InPool \ {a} : pool'[x] = pool[x]
  BY <1>3 DEF Recounted, Same, InPool
<1>5. CountsOwners'
  BY <1>2, <1>4 DEF CountsOwners, TypeOK
<1>6. OwnedIsLive'
  BY DEF OwnedIsLive, Take, TypeOK
<1>7. PoolIsComplete'
  BY <1>2, <1>4 DEF PoolIsComplete, TypeOK
<1>8. QED
  BY <1>2, <1>4, <1>5, <1>6, <1>7 DEF Kept, Ranges, TypeOK

\* mgn_mem_retain: one more reference, one more owner.
LEMMA RetainStep ==
  ASSUME IInv, NEW o \in Owners, NEW a \in Addrs, Retain(o, a)
  PROVE  Kept
<1> USE DEF IInv
<1> DEFINE r == pool[a].r + 1
<1>0. /\ a \in InPool /\ a \notin holds[o] /\ a \in live /\ UNCHANGED live
      /\ pool' = Counted(pool, a, r) /\ Give(o, a)
  BY DEF Retain, PoolIsComplete
<1>1. IsPool(pool) /\ r \in Nat /\ r = Cardinality(Holders(a)) + 1
  <2>1. pool[a].r \in Nat /\ pool[a].r = Cardinality(Holders(a))
    BY <1>0, PoolOK
  <2>2. QED
    BY <2>1, PoolOK
<1>2. /\ holds' \in [Owners -> SUBSET Addrs]
      /\ Cardinality(Holders(a)') = r
      /\ \A x \in Addrs \ {a} : Holders(x)' = Holders(x)
  BY <1>0, <1>1, GiveHolders
<1>3. Recounted(pool, pool', a, r)
  BY <1>0, <1>1, CountedIs DEF InPool
<1>4. /\ InPool' = InPool /\ IsPool(pool') /\ pool'[a].r = r
      /\ \A x \in InPool \ {a} : pool'[x] = pool[x]
  BY <1>3 DEF Recounted, Same, InPool
<1>5. CountsOwners'
  BY <1>2, <1>4 DEF CountsOwners, TypeOK
<1>6. OwnedIsLive'
  BY <1>0 DEF OwnedIsLive, Give, TypeOK
<1>7. PoolIsComplete'
  BY <1>0, <1>2, <1>4 DEF PoolIsComplete, TypeOK
<1>8. QED
  BY <1>0, <1>2, <1>4, <1>5, <1>6, <1>7 DEF Kept, Ranges, TypeOK

\* mgn_mem_release frees only with the last reference, whose owner is the caller.
LEMMA ReleaseStep ==
  ASSUME IInv, NEW o \in Owners, NEW a \in Addrs, Release(o, a)
  PROVE  Kept
<1> USE DEF IInv
<1>0. a \in holds[o] \cap InPool /\ Take(o, a)
  BY DEF Release
<1>1. CASE ~Unused(Less(pool[a].r))
  BY <1>0, <1>1, LessStep DEF Release
<1>2. CASE Unused(Less(pool[a].r))
  <2>1. pool' = Without(pool, a) /\ live' = live \ {a}
    BY <1>2 DEF Release
  <2>2. IsPool(pool) /\ Cardinality(Holders(a)) = 1
    BY <1>0, <1>2, OwnedInPool DEF Unused
  <2>3. /\ holds' \in [Owners -> SUBSET Addrs]
        /\ Cardinality(Holders(a)') = 0
        /\ \A x \in Addrs \ {a} : Holders(x)' = Holders(x)
    BY <1>0, <2>2, TakeHolders
  <2>4. Deleted(pool, pool', a)
    BY <2>1, <2>2, WithoutIs
  <2>5. CountsOwners'
    BY <2>3, <2>4 DEF CountsOwners, Deleted, Same, InPool, TypeOK
  <2>6. OwnedIsLive'
    <3>1. \A u \in Owners : a \notin holds'[u]
      BY <2>3, NoHolders
    <3>2. QED
      BY <1>0, <2>1, <3>1 DEF OwnedIsLive, Take, TypeOK
  <2>7. PoolIsComplete'
    BY <2>1, <2>3, <2>4 DEF PoolIsComplete, Deleted, InPool, TypeOK
  <2>8. QED
    BY <2>1, <2>3, <2>4, <2>5, <2>6, <2>7 DEF Kept, Ranges, Deleted, Same, TypeOK
<1>3. QED
  BY <1>1, <1>2

\* mgn_mem_release_unused frees what has no owner.
LEMMA ReleaseUnusedStep ==
  ASSUME IInv, ReleaseUnused
  PROVE  Kept
<1> USE DEF IInv
<1>1. /\ pool' = Restrict(pool, InPool \ AllUnused) /\ live' = live \ AllUnused
      /\ UNCHANGED holds
  BY DEF ReleaseUnused
<1>2. \A x : Holders(x)' = Holders(x)
  BY <1>1 DEF Holders
<1>3. /\ InPool' = InPool \ AllUnused /\ IsPool(pool')
      /\ \A x \in InPool \ AllUnused : pool'[x] = pool[x]
  BY <1>1, PoolOK DEF Restrict, IsPool, InPool
<1>4. CountsOwners'
  BY <1>2, <1>3 DEF CountsOwners
<1>5. OwnedIsLive'
  <2>1. ASSUME NEW a \in AllUnused, NEW o \in Owners PROVE a \notin holds[o]
    <3>1. a \in InPool /\ pool[a].r = 0
      BY DEF AllUnused
    <3>2. Holders(a) = {}
      BY <3>1, HoldersType DEF CountsOwners
    <3>3. QED
      BY <3>2 DEF Holders
  <2>2. QED
    BY <1>1, <2>1 DEF OwnedIsLive
<1>6. PoolIsComplete'
  BY <1>1, <1>2, <1>3 DEF PoolIsComplete, AllUnused
<1>7. QED
  BY <1>1, <1>3, <1>4, <1>5, <1>6 DEF Kept, Ranges, TypeOK

\* The empty pool.
LEMMA EmptyPool == IsPool(<< >>) /\ DOMAIN << >> = {}
BY DEF IsPool

\* mgn_mem_release_all: the references to what it frees go too.
LEMMA ReleaseAllStep ==
  ASSUME IInv, ReleaseAll
  PROVE  Kept
<1> USE DEF IInv
<1>1. /\ pool' = << >> /\ live' = live \ InPool
      /\ holds' = [o \in Owners |-> holds[o] \ InPool]
  BY DEF ReleaseAll
<1>2. InPool' = {} /\ IsPool(pool')
  BY <1>1, EmptyPool DEF InPool
<1>3. \A x \in live \ InPool : Holders(x)' = Holders(x)
  BY <1>1 DEF Holders, TypeOK
<1>4. CountsOwners'
  BY <1>2 DEF CountsOwners
<1>5. OwnedIsLive'
  BY <1>1 DEF OwnedIsLive, TypeOK
<1>6. PoolIsComplete'
  BY <1>1, <1>2, <1>3 DEF PoolIsComplete
<1>7. holds' \in [Owners -> SUBSET Addrs]
  BY <1>1 DEF TypeOK
<1>8. QED
  BY <1>1, <1>2, <1>4, <1>5, <1>6, <1>7 DEF Kept, Ranges, TypeOK

\* Initially nothing is allocated.
LEMMA InitIInv == Init => IInv
<1> SUFFICES ASSUME Init PROVE IInv
  OBVIOUS
<1>1. InPool = {} /\ IsPool(pool)
  BY EmptyPool DEF Init, InPool
<1>2. Ranges /\ CountsOwners /\ OwnedIsLive /\ PoolIsComplete
  BY <1>1 DEF Init, Ranges, CountsOwners, OwnedIsLive, PoolIsComplete
<1>3. QED
  BY <1>2, TypeFromCounts DEF IInv

\* Every call keeps the invariant.
LEMMA StepIInv == IInv /\ [Next]_vars => IInv'
<1> SUFFICES ASSUME IInv, [Next]_vars PROVE IInv'
  OBVIOUS
<1>1. ASSUME Kept PROVE IInv'
  <2>1. Ranges' /\ CountsOwners' /\ PoolIsComplete' => TypeOK'
    BY TypeFromCounts, PTL
  <2>2. QED
    BY <1>1, <2>1 DEF Kept, IInv
<1>2. ASSUME NEW o \in Owners, NEW s \in Sizes, Alloc(o, s) PROVE IInv'
  BY <1>1, <1>2, AllocStep
<1>3. ASSUME NEW o \in Owners, NEW s \in Sizes, NEW a \in Addrs, Move(o, a, s) PROVE IInv'
  BY <1>1, <1>3, MoveStep
<1>4. ASSUME NEW o \in Owners, NEW s \in Sizes, NEW a \in Addrs, MoveFails(o, a, s) PROVE IInv'
  BY <1>1, <1>4, MoveFailsStep
<1>5. ASSUME NEW o \in Owners, NEW s \in Sizes, NEW a \in Addrs, Split(o, a, s) PROVE IInv'
  BY <1>1, <1>5, SplitStep
<1>6. ASSUME NEW o \in Owners, NEW s \in Sizes, NEW a \in Addrs, SplitFails(o, a, s) PROVE IInv'
  BY <1>1, <1>6, LessStep DEF SplitFails, Extends
<1>7. ASSUME NEW o \in Owners, NEW a \in Addrs, Retain(o, a) PROVE IInv'
  BY <1>1, <1>7, RetainStep
<1>8. ASSUME NEW o \in Owners, NEW a \in Addrs, Release(o, a) PROVE IInv'
  BY <1>1, <1>8, ReleaseStep
<1>9. ASSUME NEW o \in Owners, NEW a \in Addrs, Autorelease(o, a) PROVE IInv'
  BY <1>1, <1>9, LessStep DEF Autorelease
<1>10. CASE ReleaseUnused
  BY <1>1, <1>10, ReleaseUnusedStep
<1>11. CASE ReleaseAll
  BY <1>1, <1>11, ReleaseAllStep
<1>12. CASE UNCHANGED vars
  BY <1>12 DEF vars, IInv, TypeOK, CountsOwners, OwnedIsLive, PoolIsComplete, InPool, Holders
<1>13. QED
  BY <1>2, <1>3, <1>4, <1>5, <1>6, <1>7, <1>8, <1>9, <1>10, <1>11, <1>12 DEF Next

\* A step that takes memory without an owner out of the pool is one of the two
\* purges: the calls of an owner take out the memory of that owner, if any.
LEMMA StepKeepsUnused ==
  ASSUME IInv, [Next]_vars, NEW a \in InPool, Holders(a) = {}, a \notin DOMAIN pool'
  PROVE  ReleaseUnused \/ ReleaseAll
<1> USE DEF IInv
<1>0. IsPool(pool) /\ a \in DOMAIN pool /\ (\A x \in DOMAIN pool : pool[x].r \in Nat)
  BY PoolOK DEF InPool
<1>1. ASSUME NEW o \in Owners PROVE a \notin holds[o]
  BY DEF Holders
<1>2. ASSUME NEW p, IsPool(p), a \in DOMAIN p, NEW b, NEW s \in Sizes, pool' = With(p, b, s)
      PROVE  FALSE
  <2>1. Added(p, pool', b)
    BY <1>2, WithIs
  <2>2. QED
    BY <1>2, <2>1 DEF Added
<1>3. ASSUME NEW b \in InPool, NEW n \in Nat, pool' = Counted(pool, b, n) PROVE FALSE
  BY <1>0, <1>3, CountedIs DEF Recounted, InPool
<1>4. ASSUME NEW o \in Owners, NEW s \in Sizes, Alloc(o, s) PROVE FALSE
  BY <1>0, <1>2, <1>4 DEF Alloc
<1>5. ASSUME NEW o \in Owners, NEW s \in Sizes, NEW b \in Addrs, Move(o, b, s) PROVE FALSE
  <2>1. b # a
    BY <1>1, <1>5 DEF Move, Extends
  <2>2. Deleted(pool, Without(pool, b), b)
    BY <1>0, WithoutIs
  <2>3. IsPool(Without(pool, b)) /\ a \in DOMAIN Without(pool, b)
    BY <1>0, <2>1, <2>2 DEF Deleted, Same
  <2>4. QED
    BY <1>2, <1>5, <2>3 DEF Move
<1>6. ASSUME NEW o \in Owners, NEW s \in Sizes, NEW b \in Addrs, MoveFails(o, b, s) PROVE FALSE
  <2>1. b # a /\ pool' = Without(pool, b)
    BY <1>1, <1>6 DEF MoveFails, Extends
  <2>2. Deleted(pool, pool', b)
    BY <1>0, <2>1, WithoutIs
  <2>3. QED
    BY <1>0, <2>1, <2>2 DEF Deleted
<1>7. ASSUME NEW o \in Owners, NEW s \in Sizes, NEW b \in Addrs, Split(o, b, s) PROVE FALSE
  <2> DEFINE p == Counted(pool, b, Less(pool[b].r))
  <2>1. b \in holds[o] \cap InPool
    BY <1>7 DEF Split, Extends
  <2>2. Less(pool[b].r) \in Nat
    BY <2>1, OwnedInPool
  <2>3. Recounted(pool, p, b, Less(pool[b].r))
    BY <1>0, <2>1, <2>2, CountedIs DEF InPool
  <2>4. IsPool(p) /\ a \in DOMAIN p
    BY <1>0, <2>3 DEF Recounted, Same
  <2>5. QED
    BY <1>2, <1>7, <2>4 DEF Split
<1>8. ASSUME NEW o \in Owners, NEW b \in holds[o] \cap InPool, pool' = Counted(pool, b, Less(pool[b].r))
      PROVE  FALSE
  <2>1. b \in InPool /\ Less(pool[b].r) \in Nat
    BY OwnedInPool
  <2>2. QED
    BY <1>3, <1>8, <2>1
<1>9. ASSUME NEW o \in Owners, NEW s \in Sizes, NEW b \in Addrs, SplitFails(o, b, s) PROVE FALSE
  BY <1>8, <1>9 DEF SplitFails, Extends
<1>10. ASSUME NEW o \in Owners, NEW b \in Addrs, Retain(o, b) PROVE FALSE
  <2>1. b \in InPool /\ pool' = Counted(pool, b, pool[b].r + 1)
    BY <1>10 DEF Retain
  <2>2. pool[b].r + 1 \in Nat
    BY <1>0, <2>1 DEF InPool
  <2>3. QED
    BY <1>3, <2>1, <2>2
<1>11. ASSUME NEW o \in Owners, NEW b \in Addrs, Release(o, b) PROVE FALSE
  <2>1. CASE pool' = Counted(pool, b, Less(pool[b].r))
    BY <1>8, <1>11, <2>1 DEF Release
  <2>2. CASE pool' = Without(pool, b)
    <3>1. b # a
      BY <1>1, <1>11 DEF Release
    <3>2. Deleted(pool, pool', b)
      BY <1>0, <2>2, WithoutIs
    <3>3. QED
      BY <1>0, <3>1, <3>2 DEF Deleted
  <2>3. QED
    BY <1>11, <2>1, <2>2 DEF Release
<1>12. ASSUME NEW o \in Owners, NEW b \in Addrs, Autorelease(o, b) PROVE FALSE
  BY <1>8, <1>12 DEF Autorelease
<1>13. CASE UNCHANGED vars
  BY <1>0, <1>13 DEF vars
<1>14. QED
  BY <1>4, <1>5, <1>6, <1>7, <1>9, <1>10, <1>11, <1>12, <1>13 DEF Next

\* mgn_mem_autorelease changes the count only.
LEMMA AutoreleaseKeeps ==
  ASSUME IInv, NEW o \in Owners, NEW a \in Addrs, Autorelease(o, a) PROVE a \in DOMAIN pool'
<1>1. a \in holds[o] \cap InPool /\ pool' = Counted(pool, a, Less(pool[a].r))
  BY DEF Autorelease
<1>2. IsPool(pool) /\ Less(pool[a].r) \in Nat /\ a \in DOMAIN pool
  BY <1>1, OwnedInPool DEF InPool
<1>3. QED
  BY <1>1, <1>2, CountedIs DEF Recounted

\* The counts that mgn_mem_release_unused looks for are those of no owner.
LEMMA UnusedAreUnowned ==
  ASSUME IInv, ReleaseUnused PROVE DOMAIN pool' = {a \in InPool : Holders(a) # {}}
<1>1. DOMAIN pool' = InPool \ AllUnused
  BY DEF ReleaseUnused, Restrict
<1>2. \A a \in InPool : pool[a].r = 0 <=> Holders(a) = {}
  BY HoldersType DEF IInv, CountsOwners
<1>3. QED
  BY <1>1, <1>2 DEF AllUnused

-----------------------------------------------------------------------------
\* The invariant holds in every reachable state.
THEOREM InductiveInvariant == Spec => []IInv
BY InitIInv, StepIInv, PTL DEF Spec

\* Whatever owners call, every count stays between zero and the number of
\* owners and every variable keeps its range.
THEOREM TypeCorrect == Spec => []TypeOK
<1>1. IInv => TypeOK
  BY DEF IInv
<1>2. QED
  BY <1>1, InductiveInvariant, PTL

\* The retained count of plat_mgn_mem.h is the number of owners, through
\* retains, releases, autoreleases and extensions that move, copy or fail.
THEOREM CountsAreOwners == Spec => []CountsOwners
<1>1. IInv => CountsOwners
  BY DEF IInv
<1>2. QED
  BY <1>1, InductiveInvariant, PTL

\* No call of one owner gives back memory that another still owns.
THEOREM OwnedStaysLive == Spec => []OwnedIsLive
<1>1. IInv => OwnedIsLive
  BY DEF IInv
<1>2. QED
  BY <1>1, InductiveInvariant, PTL

\* The pool has no dangling entry, and lacks only the live memory of which a
\* failed mgn_mem_ralloc took the entry from its single owner.
THEOREM PoolLacksOnlyTheLost == Spec => []PoolIsComplete
<1>1. IInv => PoolIsComplete
  BY DEF IInv
<1>2. QED
  BY <1>1, InductiveInvariant, PTL

\* Memory whose last reference was autoreleased, like all that nobody owns, leaves
\* the pool only when mgn_mem_release_unused takes all such memory, and no other, or
\* when mgn_mem_release_all empties the pool.
THEOREM AutoreleasedOutlives == Spec => AutoreleasedStays
<1> DEFINE Keeps ==
      /\ \A o \in Owners, a \in Addrs : Autorelease(o, a) => a \in DOMAIN pool'
      /\ \A a \in InPool \ DOMAIN pool' : Holders(a) = {} => ReleaseUnused \/ ReleaseAll
      /\ ReleaseUnused => DOMAIN pool' = {a \in InPool : Holders(a) # {}}
<1>1. IInv /\ [Next]_vars => [Keeps]_vars
  BY AutoreleaseKeeps, StepKeepsUnused, UnusedAreUnowned
<1>2. QED
  BY <1>1, InductiveInvariant, PTL DEF Spec, AutoreleasedStays
=============================================================================
