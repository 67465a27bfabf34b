------------------------------- MODULE IdTable -------------------------------
(***************************************************************************)
(* The resource table of js-clib/common.c as its two users in this program *)
(* see it: each table is used by one thread at a time, so a call is one    *)
(* step (ResTable is the table under concurrent callers).  A table is the  *)
(* counter last, the set S of linked nodes and the ids idOf of the nodes;  *)
(* nodes are numbered in the order of their creation.                      *)
(***************************************************************************)
EXTENDS Integers

CONSTANT IntMax   \* the largest int
ASSUME IntMaxAssumption == IntMax \in Nat

Ids    == (-IntMax - 1) .. IntMax
NoNode == 0

PlusUnbounded(i, k) == i + k    \* mutant: an int that never wraps
\* k times last_id++ on an int: the compiled increment wraps.
Plus(i, k) == IF i + k > IntMax THEN i + k - (2 * IntMax + 2) ELSE i + k

TakeAnyId(S, idOf, i) == TRUE   \* mutant: res_create without its lookup
\* HASH_FIND_INT finds nothing under i.
IsFree(S, idOf, i) == \A n \in S : idOf[n] # i

\* How many ids the loop of res_create skips, starting from last.
Skipped(S, idOf, last) ==
  CHOOSE k \in 0 .. 2 * IntMax + 1 :
    /\ IsFree(S, idOf, Plus(last, k))
    /\ \A j \in 0 .. k - 1 : ~IsFree(S, idOf, Plus(last, j))

\* res_create: the id of the new node, and the counter after it.
NewId(S, idOf, last)     == Plus(last, Skipped(S, idOf, last))
LastAfter(S, idOf, last) == Plus(last, Skipped(S, idOf, last) + 1)

\* res_get: the node under i, or NULL.
At(S, idOf, i) == IF \E n \in S : idOf[n] = i
                  THEN CHOOSE n \in S : idOf[n] = i ELSE NoNode

\* res_any: the id of the node added last, or -1.
AnyId(S, idOf) == IF S = {} THEN -1 ELSE idOf[CHOOSE n \in S : \A m \in S : m <= n]

KeepNode(S, n) == S             \* mutant: freed without HASH_DEL
UnlinkOldest(S, n) == {m \in S : \E l \in S : l < m}   \* mutant: the wrong node
\* HASH_DEL of res_release and res_release_all.
Unlinked(S, n) == S \ {n}
=============================================================================
