------------------------------- MODULE UtHash --------------------------------
(***************************************************************************)
(* js-clib/uthash.h, the hash table under the resource table, as common.c  *)
(* uses it: HASH_FIND, HASH_ADD, HASH_DELETE, HASH_ITER, and the doubling  *)
(* of the buckets by HASH_EXPAND_BUCKETS.                                  *)
(*                                                                         *)
(* An element stands for its key, as the caller adds no key twice.  The    *)
(* links of an element are there from its HASH_ADD to its HASH_DELETE,     *)
(* after which the caller frees it.                                        *)
(***************************************************************************)
EXTENDS Integers, FiniteSets, SequencesExt

CONSTANTS
  Keys,      \* the keys, one element each
  NULL,
  Hashes,    \* the values of the hash function, 0 .. some 2^k - 1
  InitLog2,  \* HASH_INITIAL_NUM_BUCKETS_LOG2
  Thresh,    \* HASH_BKT_CAPACITY_THRESH
  MaxLog2    \* bound: how many times, from one bucket, the buckets may double

ASSUME UtHashAssumption ==
  /\ NULL \notin Keys /\ IsFiniteSet(Keys)
  /\ Hashes \subseteq Nat
  /\ InitLog2 \in Nat /\ MaxLog2 \in Nat /\ InitLog2 <= MaxLog2
  /\ Thresh \in Nat \ {0}

VARIABLES
  hashv,       \* the hash function, fixed but any
  head,        \* the first element, NULL when there is no table
  tbl,         \* the table: tail, items, log2 of the buckets, ineffective, noexpand
  prev, next,  \* the links in the order of addition
  chains,      \* the buckets, and the links in them: hh_prev and hh_next
  el, tmp,     \* the two variables of HASH_ITER
  walking      \* is it under way?

iter == <<walking, el, tmp>>
vars == <<hashv, head, tbl, prev, next, chains, iter>>

Linked == DOMAIN next
Pow2[n \in 0 .. MaxLog2] == IF n = 0 THEN 1 ELSE 2 * Pow2[n - 1]

NoLinks == [k \in {} |-> NULL]
Empty(lg) == [bkts |-> [b \in 0 .. Pow2[lg] - 1 |-> [first |-> NULL, count |-> 0, mult |-> 0]],
              next |-> NoLinks, prev |-> NoLinks]
\* HASH_MAKE_TABLE
NewTable == [tail |-> NULL, items |-> 0, log2 |-> InitLog2, ineffective |-> 0, noexpand |-> FALSE]

\* What the link of e leads to, if there is such an element.
After(links, e)  == IF e = NULL THEN NULL ELSE links[e]
\* The link of e, if there is such an element, is set to v.
Set(links, e, v) ==
  IF e = NULL THEN links ELSE [k \in DOMAIN links \cup {e} |-> IF k = e THEN v ELSE links[k]]
Unset(links, e)  == [k \in DOMAIN links \ {e} |-> links[k]]

-----------------------------------------------------------------------------
(* The buckets. *)

\* HASH_TO_BKT
ToBkt(k, lg) == hashv[k] % Pow2[lg]

\* The elements met from first on, following links; one more than there are, at
\* most, should they not end.
Walk(first, links) ==
  LET met[i \in 1 .. Cardinality(DOMAIN links) + 1] ==
        IF i = 1 THEN first ELSE After(links, met[i - 1])
  IN  SubSeq(met, 1, Cardinality({i \in DOMAIN met : met[i] # NULL}))

Chain(c, b) == Walk(c.bkts[b].first, c.next)

\* HASH_FIND
Find(k) ==
  IF head # NULL /\ Contains(Chain(chains, ToBkt(k, tbl.log2)), k) THEN k ELSE NULL

ForgetBack(c, b, e) ==          \* mutant: the old first element keeps its hh_prev
  [bkts |-> [c.bkts EXCEPT ![b].first = e, ![b].count = @ + 1],
   next |-> Set(c.next, e, c.bkts[b].first),
   prev |-> Set(c.prev, e, NULL)]
\* How HASH_ADD_TO_BKT and HASH_EXPAND_BUCKETS put an element into a bucket.
PushFront(c, b, e) ==
  [bkts |-> [c.bkts EXCEPT ![b].first = e, ![b].count = @ + 1],
   next |-> Set(c.next, e, c.bkts[b].first),
   prev |-> Set(Set(c.prev, c.bkts[b].first, e), e, NULL)]

\* HASH_DEL_IN_BKT
DelInBkt(c, b, e) ==
  [bkts |-> [c.bkts EXCEPT ![b].count = @ - 1, ![b].first = IF @ = e THEN c.next[e] ELSE @],
   next |-> Unset(Set(c.next, c.prev[e], c.next[e]), e),
   prev |-> Unset(Set(c.prev, c.next[e], c.prev[e]), e)]

-----------------------------------------------------------------------------
(* HASH_EXPAND_BUCKETS *)

\* The longest chain when n elements are spread evenly over 2^lg buckets.
Ideal(n, lg) == n \div Pow2[lg] + IF n % Pow2[lg] # 0 THEN 1 ELSE 0

\* How many of n elements are past the ideal length of their chain.
Nonideal(c, n, lg) ==
  Cardinality({x \in (DOMAIN c.bkts) \X (1 .. n) :
                 Ideal(n, lg) < x[2] /\ x[2] <= c.bkts[x[1]].count})

\* Each bucket learns how many times the ideal length its chain is.
WithMult(c, ideal) ==
  [c EXCEPT !.bkts = [b \in DOMAIN c.bkts |-> [c.bkts[b] EXCEPT
     !.mult = IF c.bkts[b].count > ideal THEN c.bkts[b].count \div ideal ELSE 0]]]

\* Chain after chain is emptied into twice as many buckets.
Spread(c, n, lg) ==
  LET old  == FlattenSeq([i \in 1 .. Pow2[lg] |-> Chain(c, i - 1)])
      moved[i \in 0 .. Len(old)] ==
        IF i = 0 THEN Empty(lg + 1) ELSE PushFront(moved[i - 1], ToBkt(old[i], lg + 1), old[i])
  IN  WithMult(moved[Len(old)], Ideal(n, lg + 1))

SameSize(lg) == lg              \* mutant: num_buckets is not doubled
Doubled(lg)  == lg + 1

\* Two expansions in a row that leave more than half of the elements past the
\* ideal length are the last.
Expanded(t, c) ==
  LET i == IF Nonideal(c, t.items, t.log2 + 1) > t.items \div 2 THEN t.ineffective + 1 ELSE 0
  IN  [t EXCEPT !.log2 = Doubled(@), !.ineffective = i, !.noexpand = @ \/ i > 1]

\* The bucket an element was just added to has reached its threshold.
Full(c, b) == c.bkts[b].count >= (c.bkts[b].mult + 1) * Thresh

-----------------------------------------------------------------------------
Init ==
  /\ hashv \in [Keys -> Hashes]
  /\ head = NULL /\ tbl = NewTable /\ chains = Empty(InitLog2)
  /\ prev = NoLinks /\ next = NoLinks
  /\ walking = FALSE /\ el = NULL /\ tmp = NULL

\* HASH_ADD: the element goes last in the order, first in its bucket.
Add(k) ==
  /\ ~walking /\ k \notin Linked
  /\ head' = IF head = NULL THEN k ELSE head
  /\ prev' = Set(prev, k, tbl.tail)
  /\ next' = Set(Set(next, tbl.tail, k), k, NULL)
  /\ LET b == ToBkt(k, tbl.log2)
         t == [tbl EXCEPT !.tail = k, !.items = @ + 1]
         c == PushFront(chains, b, k)
         d == Spread(c, t.items, t.log2)
     IN  IF Full(c, b) /\ ~t.noexpand
         THEN t.log2 < MaxLog2 /\ chains' = d /\ tbl' = Expanded(t, d)
         ELSE chains' = c /\ tbl' = t
  /\ UNCHANGED <<hashv, iter>>

KeepTail(t, e, p)    == t        \* mutant: the tail is deleted and stays the tail
TailWithout(t, e, p) == IF t = e THEN p ELSE t

\* HASH_DELETE: the last element takes the table with it; the next HASH_ADD
\* makes a new one.
Unlink(e) ==
  LET p == prev[e]
      n == next[e]
  IN  /\ prev' = Unset(Set(prev, n, p), e)
      /\ next' = Unset(Set(next, p, n), e)
      /\ head' = IF p = NULL THEN n ELSE head
      /\ IF p = NULL /\ n = NULL
         THEN tbl' = NewTable /\ chains' = Empty(InitLog2)
         ELSE /\ tbl' = [tbl EXCEPT !.tail = TailWithout(@, e, p), !.items = @ - 1]
              /\ chains' = DelInBkt(chains, ToBkt(e, tbl.log2), e)

Delete(k) ==
  /\ ~walking /\ k \in Linked
  /\ Unlink(k)
  /\ UNCHANGED <<hashv, iter>>

-----------------------------------------------------------------------------
(* HASH_ITER: a step is the body of the loop and then the step of the loop. *)

Begin ==
  /\ ~walking
  /\ walking' = TRUE
  /\ el' = head /\ tmp' = After(next, head)
  /\ UNCHANGED <<hashv, head, tbl, prev, next, chains>>

\* res_release_all deletes what it reaches, res_any does not.
Keep == UNCHANGED <<head, tbl, prev, next, chains>>
Visit ==
  /\ walking /\ el # NULL
  /\ Unlink(el) \/ Keep
  /\ el' = tmp /\ tmp' = After(next', tmp)
  /\ UNCHANGED <<hashv, walking>>

End ==
  /\ walking /\ el = NULL
  /\ walking' = FALSE
  /\ UNCHANGED <<hashv, head, tbl, prev, next, chains, el, tmp>>

Next == Begin \/ Visit \/ End \/ \E k \in Keys : Add(k) \/ Delete(k)

Spec == Init /\ [][Next]_vars
-----------------------------------------------------------------------------
(* Properties. *)

\* Every field keeps its range; there is a table just when there is an element.
TypeOK ==
  /\ hashv \in [Keys -> Hashes]
  /\ head \in Linked \cup {NULL} /\ (head = NULL <=> Linked = {})
  /\ Linked \subseteq Keys
  /\ DOMAIN prev = Linked /\ DOMAIN chains.next = Linked /\ DOMAIN chains.prev = Linked
  /\ \A k \in Linked : {prev[k], next[k], chains.prev[k], chains.next[k]} \subseteq Linked \cup {NULL}
  /\ tbl \in [tail : Linked \cup {NULL}, items : 0 .. Cardinality(Keys), log2 : InitLog2 .. MaxLog2,
              ineffective : 0 .. MaxLog2, noexpand : BOOLEAN]
  /\ DOMAIN chains.bkts = 0 .. Pow2[tbl.log2] - 1
  /\ walking \in BOOLEAN /\ {el, tmp} \subseteq Keys \cup {NULL}

\* What HASH_FSCK tests after every operation of a debugging build: the links of
\* each chain and of the order agree in both directions, and the counts with them.
BackLinks(s, links) == \A i \in 1 .. Len(s) : links[s[i]] = IF i = 1 THEN NULL ELSE s[i - 1]
Fsck ==
  /\ \A b \in DOMAIN chains.bkts :
       /\ BackLinks(Chain(chains, b), chains.prev)
       /\ chains.bkts[b].count = Len(Chain(chains, b))
  /\ BackLinks(Walk(head, next), prev)
  /\ tbl.items = Len(Walk(head, next))
  /\ tbl.items = Len(FlattenSeq([i \in 1 .. Pow2[tbl.log2] |-> Chain(chains, i - 1)]))
  /\ tbl.tail = IF head = NULL THEN NULL ELSE Last(Walk(head, next))

\* The table is the ordered map that the resource table takes it for: whatever
\* the hash function, in every state each element can be found and the walk
\* reaches each element once, oldest first, also while it deletes them.
Map == INSTANCE OrderedMap WITH
         order  <- Walk(head, next),
         left   <- Walk(el, next),
         answer <- [k \in Keys |-> Find(k)]
IsOrderedMap == Map!Spec
=============================================================================
