---------------------------- MODULE IdTable_proofs ----------------------------
(***************************************************************************)
(* What res_create, res_get and res_any return when a table has one        *)
(* caller: an id that is free, as long as the table holds fewer entries    *)
(* than there are ids, the node that has an id, and the newest id.  For    *)
(* any width of the ids, the wrap of last_id included.                     *)
(***************************************************************************)
EXTENDS IdTable, FiniteSetTheorems, TLAPS

-----------------------------------------------------------------------------
\* A set of naturals that is not empty has a least element.
LEMMA LeastNatural ==
  ASSUME NEW T \in SUBSET Nat, T # {}
  PROVE  \E x \in T : \A y \in T : x <= y
<1>1. PICK x \in T : \A y \in T : <<y, x>> \notin OpToRel(<, Nat)
  BY NatLessThanWellFounded, WFMin, Zenon
<1>2. \A y \in T : ~ (y < x)
  BY <1>1 DEF OpToRel
<1>3. QED
  BY <1>2

\* A finite set of naturals that is not empty has a greatest one.
LEMMA GreatestNatural ==
  ASSUME NEW b \in Nat, NEW T \in SUBSET (0 .. b), T # {}
  PROVE  \E x \in T : \A y \in T : y <= x
<1> DEFINE D == {k \in 0 .. b : b - k \in T}
<1>1. D \in SUBSET Nat
  OBVIOUS
<1>2. D # {}
  <2>1. PICK x \in T : TRUE
    OBVIOUS
  <2>2. x \in 0 .. b
    OBVIOUS
  <2>3. b - x \in 0 .. b /\ b - (b - x) = x
    BY <2>2
  <2>4. QED  BY <2>1, <2>3
<1>3. PICK d \in D : \A e \in D : d <= e
  <2> HIDE DEF D
  <2> QED  BY <1>1, <1>2, LeastNatural
<1>4. ASSUME NEW y \in T PROVE y <= b - d
  <2>1. y \in 0 .. b
    OBVIOUS
  <2>2. b - y \in 0 .. b /\ b - (b - y) = y
    BY <2>1
  <2>3. b - y \in D
    BY <2>2
  <2>4. d <= b - y /\ d \in 0 .. b
    BY <1>3, <2>3
  <2>5. QED  BY <2>1, <2>4
<1>5. b - d \in T
  OBVIOUS
<1>6. QED  BY <1>4, <1>5

-----------------------------------------------------------------------------
\* last_id++ passes through every id before it comes back.
LEMMA PlusReaches ==
  ASSUME NEW last \in Ids, NEW i \in Ids
  PROVE  \E k \in 0 .. 2 * IntMax + 1 : Plus(last, k) = i
<1> USE IntMaxAssumption DEF Ids
<1>1. CASE last <= i
  <2>1. i - last \in 0 .. 2 * IntMax + 1 /\ last + (i - last) = i /\ ~ (i > IntMax)
    BY <1>1
  <2>2. QED  BY <2>1 DEF Plus
<1>2. CASE i < last
  <2> DEFINE k == i - last + 2 * IntMax + 2
  <2>1. k \in 0 .. 2 * IntMax + 1 /\ last + k > IntMax /\ last + k - (2 * IntMax + 2) = i
    BY <1>2
  <2>2. QED  BY <2>1 DEF Plus
<1>3. QED  BY <1>1, <1>2

\* The counter stays an int over a whole turn.
LEMMA PlusInIds ==
  ASSUME NEW last \in Ids, NEW k \in 0 .. 2 * IntMax + 2
  PROVE  Plus(last, k) \in Ids
BY IntMaxAssumption DEF Plus, Ids

\* A table with fewer entries than ids leaves one of them free.
LEMMA FreeIdExists ==
  ASSUME NEW S, IsFiniteSet(S), Cardinality(S) < 2 * IntMax + 2, NEW idOf
  PROVE  \E i \in Ids : IsFree(S, idOf, i)
<1> SUFFICES ASSUME \A i \in Ids : ~IsFree(S, idOf, i) PROVE FALSE
  OBVIOUS
<1> DEFINE user == [i \in Ids |-> CHOOSE n \in S : idOf[n] = i]
<1>1. ASSUME NEW i \in Ids PROVE user[i] \in S /\ idOf[user[i]] = i
  <2>1. \E n \in S : idOf[n] = i
    BY DEF IsFree
  <2>2. QED  BY <2>1
<1>2. user \in [Ids -> S]
  BY <1>1
<1>3. -IntMax - 1 \in Int /\ IntMax \in Int /\ ~ (-IntMax - 1 > IntMax)
  BY IntMaxAssumption
<1>4. IsFiniteSet(Ids) /\ Cardinality(Ids) = IntMax - (-IntMax - 1) + 1
  BY <1>3, FS_Interval DEF Ids
<1>5. Cardinality(S) < Cardinality(Ids)
  BY <1>4, IntMaxAssumption, FS_CardinalityType
<1>6. \E x, y \in Ids : x # y /\ user[x] = user[y]
  <2> HIDE DEF user
  <2> QED  BY <1>2, <1>4, <1>5, FS_PigeonHole
<1>7. QED  BY <1>1, <1>6

\* How many nodes there can be when n were made.
LEMMA NodesCount ==
  ASSUME NEW n \in Nat, NEW S \in SUBSET (1 .. n)
  PROVE  IsFiniteSet(S) /\ Cardinality(S) \in 0 .. n
<1>1. 1 \in Int /\ n \in Int
  OBVIOUS
<1>2. IsFiniteSet(1 .. n) /\ Cardinality(1 .. n) = IF 1 > n THEN 0 ELSE n - 1 + 1
  BY <1>1, FS_Interval, Zenon
<1>3. IsFiniteSet(S) /\ Cardinality(S) <= Cardinality(1 .. n) /\ Cardinality(S) \in Nat
  BY <1>2, FS_Subset, FS_CardinalityType
<1>4. QED  BY <1>2, <1>3

\* The loop of res_create ends, at a free id, and the counter stays an int.
LEMMA NewIdIsFree ==
  ASSUME NEW S, IsFiniteSet(S), Cardinality(S) < 2 * IntMax + 2, NEW idOf, NEW last \in Ids
  PROVE  /\ NewId(S, idOf, last) \in Ids
         /\ IsFree(S, idOf, NewId(S, idOf, last))
         /\ LastAfter(S, idOf, last) \in Ids
<1> DEFINE Free(k) == IsFree(S, idOf, Plus(last, k))
           T == {k \in 0 .. 2 * IntMax + 1 : Free(k)}
           First(k) == Free(k) /\ \A j \in 0 .. k - 1 : ~Free(j)
<1>1. \E k \in T : \A j \in T : k <= j
  <2>1. T \in SUBSET Nat
    OBVIOUS
  <2>2. T # {}
    BY FreeIdExists, PlusReaches
  <2>3. QED
    <3> HIDE DEF T
    <3> QED  BY <2>1, <2>2, LeastNatural
<1>2. \E k \in 0 .. 2 * IntMax + 1 : First(k)
  <2>1. PICK k \in T : \A j \in T : k <= j
    BY <1>1
  <2>2. k \in 0 .. 2 * IntMax + 1 /\ Free(k)
    OBVIOUS
  <2>3. ASSUME NEW j \in 0 .. k - 1, Free(j) PROVE FALSE
    <3>1. j \in 0 .. 2 * IntMax + 1 /\ j < k
      BY <2>2, IntMaxAssumption
    <3>2. j \in T
      BY <2>3, <3>1
    <3>3. QED  BY <2>1, <2>2, <3>1, <3>2
  <2>4. QED  BY <2>2, <2>3
<1>3. Skipped(S, idOf, last) = CHOOSE k \in 0 .. 2 * IntMax + 1 : First(k)
  BY DEF Skipped
<1>4. Skipped(S, idOf, last) \in 0 .. 2 * IntMax + 1 /\ Free(Skipped(S, idOf, last))
  <2> HIDE DEF Free
  <2> QED  BY <1>2, <1>3
<1>5. Skipped(S, idOf, last) + 1 \in 0 .. 2 * IntMax + 2 /\ Skipped(S, idOf, last) \in 0 .. 2 * IntMax + 2
  BY <1>4, IntMaxAssumption
<1>6. QED
  BY <1>4, <1>5, PlusInIds DEF NewId, LastAfter

\* When the id under last_id is free, as it is until last_id wraps, res_create
\* takes it and steps the counter once.
LEMMA NewIdIsNext ==
  ASSUME NEW S, NEW idOf, NEW last \in Ids, IsFree(S, idOf, last)
  PROVE  /\ NewId(S, idOf, last) = last
         /\ LastAfter(S, idOf, last) = Plus(last, 1)
<1> DEFINE Free(k) == IsFree(S, idOf, Plus(last, k))
           First(k) == Free(k) /\ \A j \in 0 .. k - 1 : ~Free(j)
<1>1. Plus(last, 0) = last
  BY IntMaxAssumption DEF Plus, Ids
<1>2. Free(0)
  BY <1>1
<1>3. 0 \in 0 .. 2 * IntMax + 1 /\ First(0)
  BY <1>2, IntMaxAssumption
<1>4. ASSUME NEW k \in 0 .. 2 * IntMax + 1, First(k) PROVE k = 0
  <2>1. CASE k > 0
    <3>1. 0 \in 0 .. k - 1
      BY <2>1
    <3>2. QED  BY <1>2, <1>4, <3>1
  <2>2. QED  BY <2>1
<1>5. Skipped(S, idOf, last) = CHOOSE k \in 0 .. 2 * IntMax + 1 : First(k)
  BY DEF Skipped
<1>6. Skipped(S, idOf, last) = 0
  <2> HIDE DEF First
  <2> QED  BY <1>3, <1>4, <1>5
<1>7. QED
  BY <1>1, <1>6 DEF NewId, LastAfter

-----------------------------------------------------------------------------
\* res_get finds a node with the id, or there is none.
LEMMA AtFinds ==
  ASSUME NEW S, NEW idOf, NEW i, NoNode \notin S
  PROVE  /\ At(S, idOf, i) = NoNode => \A n \in S : idOf[n] # i
         /\ At(S, idOf, i) # NoNode => At(S, idOf, i) \in S /\ idOf[At(S, idOf, i)] = i
<1>1. CASE \E n \in S : idOf[n] = i
  <2>1. At(S, idOf, i) \in S /\ idOf[At(S, idOf, i)] = i
    BY <1>1 DEF At
  <2>2. QED  BY <2>1
<1>2. CASE ~ \E n \in S : idOf[n] = i
  BY <1>2 DEF At
<1>3. QED  BY <1>1, <1>2

\* While the linked ids differ, that is the only one.
LEMMA AtIsTheNode ==
  ASSUME NEW S, NEW idOf, NoNode \notin S,
         \A n, m \in S : idOf[n] = idOf[m] => n = m,
         NEW n \in S
  PROVE  At(S, idOf, idOf[n]) = n
BY AtFinds

\* res_any names the newest node of a table that is not empty.
LEMMA AnyIsNewest ==
  ASSUME NEW b \in Nat, NEW S \in SUBSET (1 .. b), NEW idOf
  PROVE  /\ S = {} => AnyId(S, idOf) = -1
         /\ S # {} => \E n \in S : AnyId(S, idOf) = idOf[n] /\ \A m \in S : m <= n
<1>1. CASE S = {}
  BY <1>1 DEF AnyId
<1>2. CASE S # {}
  <2>1. S \in SUBSET (0 .. b)
    OBVIOUS
  <2>2. \E n \in S : \A m \in S : m <= n
    BY <1>2, <2>1, GreatestNatural
  <2>3. QED
    BY <1>2, <2>2 DEF AnyId
<1>3. QED  BY <1>1, <1>2

=============================================================================
