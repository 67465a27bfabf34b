------------------------------- MODULE MgnMem --------------------------------
(***************************************************************************)
(* The managed memory pool of platform/plat_mgn_mem.h: reference-counted   *)
(* memories kept in a hash keyed by their address.  Owners are the holders *)
(* of one reference each, and follow the rules of the header: only an      *)
(* owner releases, autoreleases or extends a memory, and a memory is       *)
(* retained while it is in the pool.                                       *)
(*                                                                         *)
(* Sizes stay below 2^32: plat_mem_allocate takes a uint, and would cut a  *)
(* larger one.                                                             *)
(*                                                                         *)
(* Calls that only return (size 0, a size that fits, an address the pool   *)
(* does not know) change nothing and have no action.                       *)
(***************************************************************************)
EXTENDS Integers, FiniteSets, Functions

CONSTANTS
  Owners,      \* who may hold a reference
  Addrs,       \* the addresses plat_mem_allocate may return
  MaxSize      \* bound: the largest size asked for

ASSUME MgnMemAssumption ==
  /\ IsFiniteSet(Owners)
  /\ MaxSize \in Nat \ {0}

VARIABLES
  pool,    \* address in the pool -> its size s and retained count r
  live,    \* the addresses allocated and not given back
  holds    \* ghost: owner -> the addresses it owns a reference to

vars == <<pool, live, holds>>

Sizes  == 1 .. MaxSize
Fresh  == Addrs \ live
InPool == DOMAIN pool

-----------------------------------------------------------------------------
\* pool without a (HASH_DEL), with a new entry for a (HASH_ADD_PTR), and with
\* another count for a.
KeepKey(p, a) == p             \* mutant: the entry stays under the old address
Without(p, a) == Restrict(p, DOMAIN p \ {a})
With(p, a, s) == [x \in DOMAIN p \cup {a} |-> IF x = a THEN [s |-> s, r |-> 1] ELSE p[x]]
Counted(p, a, n) == [p EXCEPT ![a].r = n]

\* The count after an owner gives its reference up; it never goes below zero.
Stays(r) == r                  \* mutant: the r-- is left out
Less(r) == IF r > 0 THEN r - 1 ELSE 0

AnyCount(r) == TRUE            \* mutant: free without looking at the count
\* A release frees the memory when no reference is left.
Unused(r) == r = 0

\* mgn_mem_ralloc moves the memory when the caller is its only owner.
OnlyOwner(r) == r = 1

Init == pool = << >> /\ live = {} /\ holds = [o \in Owners |-> {}]

Give(o, a) == holds' = [holds EXCEPT ![o] = @ \cup {a}]
Take(o, a) == holds' = [holds EXCEPT ![o] = @ \ {a}]
Swap(o, a, b) == holds' = [holds EXCEPT ![o] = (@ \ {a}) \cup {b}]

-----------------------------------------------------------------------------
\* mgn_mem_alloc
Alloc(o, s) == \E a \in Fresh :
  /\ pool' = With(pool, a, s)
  /\ live' = live \cup {a}
  /\ Give(o, a)

Extends(o, a, s) == a \in holds[o] \cap InPool /\ s > pool[a].s

\* mgn_mem_ralloc by the only owner: the entry moves to the new memory.
Move(o, a, s) ==
  /\ Extends(o, a, s)
  /\ OnlyOwner(pool[a].r)
  /\ \E b \in Fresh :
       /\ pool' = With(Without(pool, a), b, s)
       /\ live' = (live \ {a}) \cup {b}
       /\ Swap(o, a, b)

\* Without memory for it: the entry is already out of the hash and is not put
\* back; the caller gets NULL and still has the old memory.
MoveFails(o, a, s) ==
  /\ Extends(o, a, s)
  /\ OnlyOwner(pool[a].r)
  /\ pool' = Without(pool, a)
  /\ UNCHANGED <<live, holds>>

\* mgn_mem_ralloc of a memory with other owners: the caller gives its reference
\* up and gets a copy of its own.
Split(o, a, s) ==
  /\ Extends(o, a, s)
  /\ ~OnlyOwner(pool[a].r)
  /\ \E b \in Fresh :
       /\ pool' = With(Counted(pool, a, Less(pool[a].r)), b, s)
       /\ live' = live \cup {b}
       /\ Swap(o, a, b)

\* Without memory for the copy: the reference is given up all the same.
SplitFails(o, a, s) ==
  /\ Extends(o, a, s)
  /\ ~OnlyOwner(pool[a].r)
  /\ pool' = Counted(pool, a, Less(pool[a].r))
  /\ Take(o, a)
  /\ UNCHANGED live

\* mgn_mem_retain
Retain(o, a) ==
  /\ a \in InPool
  /\ a \notin holds[o]
  /\ pool' = Counted(pool, a, pool[a].r + 1)
  /\ Give(o, a)
  /\ UNCHANGED live

\* mgn_mem_release
Release(o, a) ==
  /\ a \in holds[o] \cap InPool
  /\ IF Unused(Less(pool[a].r))
     THEN pool' = Without(pool, a) /\ live' = live \ {a}
     ELSE pool' = Counted(pool, a, Less(pool[a].r)) /\ UNCHANGED live
  /\ Take(o, a)

\* mgn_mem_autorelease: the count drops, the memory stays.
Autorelease(o, a) ==
  /\ a \in holds[o] \cap InPool
  /\ pool' = Counted(pool, a, Less(pool[a].r))
  /\ Take(o, a)
  /\ UNCHANGED live

FirstUnused == {CHOOSE a \in InPool : pool[a].r = 0}   \* mutant: one a call
AllUnused == {a \in InPool : pool[a].r = 0}
\* mgn_mem_release_unused
ReleaseUnused ==
  /\ \E a \in InPool : pool[a].r = 0
  /\ pool' = Restrict(pool, InPool \ AllUnused)
  /\ live' = live \ AllUnused
  /\ UNCHANGED holds

\* mgn_mem_release_all; the references to what was in the pool are void.
ReleaseAll ==
  /\ pool # << >>
  /\ pool' = << >>
  /\ live' = live \ InPool
  /\ holds' = [o \in Owners |-> holds[o] \ InPool]

Next ==
  \/ \E o \in Owners, s \in Sizes :
       \/ Alloc(o, s)
       \/ \E a \in Addrs : Move(o, a, s) \/ MoveFails(o, a, s) \/ Split(o, a, s) \/ SplitFails(o, a, s)
  \/ \E o \in Owners, a \in Addrs : Retain(o, a) \/ Release(o, a) \/ Autorelease(o, a)
  \/ ReleaseUnused \/ ReleaseAll

Spec == Init /\ [][Next]_vars
-----------------------------------------------------------------------------
(* Properties. *)

\* The retained counts of the pool neither go below zero nor above the number of
\* owners, and every variable keeps its range.
TypeOK ==
  /\ InPool \subseteq Addrs
  /\ pool \in [InPool -> [s : Sizes, r : 0 .. Cardinality(Owners)]]
  /\ live \in SUBSET Addrs
  /\ holds \in [Owners -> SUBSET Addrs]

Holders(a) == {o \in Owners : a \in holds[o]}

\* The retained count of a memory is the number of its owners, through any
\* sequence of calls by any of them, failed ones included.
CountsOwners == \A a \in InPool : pool[a].r = Cardinality(Holders(a))

\* No owner is left with a memory that was given back.
OwnedIsLive == \A o \in Owners : holds[o] \subseteq live

\* The pool knows live memory only, and all of it but what a failed extension
\* lost: such a memory had a single owner, and still has it.
PoolIsComplete ==
  /\ InPool \subseteq live
  /\ \A a \in live \ InPool : Cardinality(Holders(a)) = 1

\* Memory that nobody owns any more leaves the pool in mgn_mem_release_unused or
\* mgn_mem_release_all only, and never in the mgn_mem_autorelease that gives up its
\* last reference; mgn_mem_release_unused takes all of it, and no other memory.
AutoreleasedStays ==
  [][/\ \A o \in Owners, a \in Addrs : Autorelease(o, a) => a \in DOMAIN pool'
     /\ \A a \in InPool \ DOMAIN pool' : Holders(a) = {} => ReleaseUnused \/ ReleaseAll
     /\ ReleaseUnused => DOMAIN pool' = {a \in InPool : Holders(a) # {}}]_vars

\* plat_mgn_mem.h:44 "Release all memories": nothing is left after that.
AllReleased == pool = << >> => live = {}
=============================================================================
