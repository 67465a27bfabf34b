----------------------------- MODULE OrderedMap ------------------------------
(***************************************************************************)
(* What the resource table expects of the hash table under it: a set of    *)
(* keyed elements that remembers the order in which they were added, finds *)
(* an element by its key, removes any of them, and can be walked from the  *)
(* oldest to the newest while the element just reached is being removed.   *)
(***************************************************************************)
EXTENDS Integers, SequencesExt

CONSTANTS Keys, NULL

VARIABLES
  order,   \* the elements, in the order in which they were added
  left,    \* what a walk under way has still to reach
  walking, \* is a walk under way?
  answer   \* key -> what looking it up finds

Members(s) == {s[i] : i \in DOMAIN s}
Without(s, k) == RemoveAt(s, CHOOSE i \in DOMAIN s : s[i] = k)
Answers(s) == [k \in Keys |-> IF k \in Members(s) THEN k ELSE NULL]

Init == order = << >> /\ left = << >> /\ walking = FALSE /\ answer = Answers(<< >>)

Add(k) ==
  /\ ~walking /\ k \notin Members(order)
  /\ order' = Append(order, k)
  /\ UNCHANGED <<left, walking>>

Delete(k) ==
  /\ ~walking /\ k \in Members(order)
  /\ order' = Without(order, k)
  /\ UNCHANGED <<left, walking>>

Begin == ~walking /\ walking' = TRUE /\ left' = order /\ UNCHANGED order

\* The walk reaches the next element, which may be removed as it does.
Reach ==
  /\ walking /\ left # << >>
  /\ left' = Tail(left)
  /\ order' \in {order, Without(order, Head(left))}
  /\ UNCHANGED walking

End == walking /\ left = << >> /\ walking' = FALSE /\ UNCHANGED <<order, left>>

Next ==
  /\ Begin \/ Reach \/ End \/ \E k \in Keys : Add(k) \/ Delete(k)
  /\ answer' = Answers(order')

Spec == Init /\ [][Next]_<<order, left, walking, answer>>
=============================================================================
