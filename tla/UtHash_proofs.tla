---------------------------- MODULE UtHash_proofs -----------------------------
(***************************************************************************)
(* The hash table keeps its order and its buckets as lists that are linked *)
(* both ways, and is therefore the ordered map of OrderedMap: for any      *)
(* finite set of keys, any hash function, any threshold of the buckets and *)
(* any number of doublings.                                                *)
(***************************************************************************)
EXTENDS UtHash, FiniteSetTheorems, SequenceTheorems, TLAPS

-----------------------------------------------------------------------------
(* Recursion on the numbers up to n. *)

\* Induction: a set that has 0, and the successor of each of its numbers below n,
\* has every number up to n.
LEMMA UpTo ==
  ASSUME NEW n \in Nat, NEW T, 0 \in T, \A i \in 0 .. n - 1 : i \in T => i + 1 \in T
  PROVE  \A i \in 0 .. n : i \in T
<1> DEFINE Out == {i \in 0 .. n : i \notin T}
<1> SUFFICES ASSUME Out # {} PROVE FALSE
  OBVIOUS
<1>1. Out \in SUBSET Nat
  OBVIOUS
<1>2. PICK x \in Out : \A y \in Out : <<y, x>> \notin OpToRel(<, Nat)
  <2> HIDE DEF Out
  <2> QED  BY <1>1, NatLessThanWellFounded, WFMin, Zenon
<1>3. \A y \in Out : ~ (y < x)
  <2> HIDE DEF Out
  <2> QED  BY <1>1, <1>2 DEF OpToRel
<1>4. x # 0 /\ x \in 0 .. n /\ x \notin T
  OBVIOUS
<1>5. x - 1 \in 0 .. n - 1 /\ x - 1 \notin Out /\ x - 1 \in 0 .. n /\ (x - 1) + 1 = x
  BY <1>3, <1>4
<1>6. QED  BY <1>4, <1>5

\* What is defined from its predecessor is defined up to n.
Defined(f, n, V, a, h) ==
  /\ f \in [0 .. n -> V] /\ f[0] = a
  /\ \A i \in 1 .. n : f[i] = h[i][f[i - 1]]
\* There is such a function.
LEMMA Recursion ==
  ASSUME NEW n \in Nat, NEW V, NEW a \in V, NEW h \in [1 .. n -> [V -> V]]
  PROVE  \E f : Defined(f, n, V, a, h)
<1> DEFINE Upto(f, m) == /\ f \in [0 .. m -> V] /\ f[0] = a
                         /\ \A i \in 1 .. m : f[i] = h[i][f[i - 1]]
           T == {m \in 0 .. n : \E f : Upto(f, m)}
<1>1. 0 \in T
  <2>1. Upto([i \in 0 .. 0 |-> a], 0)
    OBVIOUS
  <2>2. 0 \in 0 .. n
    OBVIOUS
  <2> HIDE DEF Upto
  <2>3. QED  BY <2>1, <2>2
<1>2. ASSUME NEW m \in 0 .. n - 1, m \in T PROVE m + 1 \in T
  <2>1. PICK f : Upto(f, m)
    BY <1>2
  <2> DEFINE g == [i \in 0 .. m + 1 |-> IF i = m + 1 THEN h[m + 1][f[m]] ELSE f[i]]
  <2>2. f[m] \in V /\ m + 1 \in 1 .. n
    BY <2>1
  <2>3. h[m + 1][f[m]] \in V
    BY <2>2
  <2>4. g \in [0 .. m + 1 -> V]
    BY <2>1, <2>3
  <2>5. g[0] = a
    BY <2>1
  <2>6. ASSUME NEW i \in 1 .. m + 1 PROVE g[i] = h[i][g[i - 1]]
    <3>1. CASE i = m + 1
      BY <3>1
    <3>2. CASE i # m + 1
      BY <2>1, <3>2
    <3>3. QED  BY <3>1, <3>2
  <2>7. Upto(g, m + 1)
    BY <2>4, <2>5, <2>6
  <2>8. m + 1 \in 0 .. n
    BY <2>2
  <2> HIDE DEF g, Upto
  <2>9. QED  BY <2>7, <2>8
<1>3. n \in T
  <2> HIDE DEF T
  <2>1. \A i \in 0 .. n : i \in T
    BY <1>1, <1>2, UpTo
  <2>2. QED  BY <2>1
<1>4. PICK f : Upto(f, n)
  BY <1>3
<1>5. QED  BY <1>4 DEF Defined

-----------------------------------------------------------------------------
(* The number of the buckets. *)

\* There is always a bucket.
LEMMA Pow2Positive == ASSUME NEW lg \in 0 .. MaxLog2 PROVE Pow2[lg] \in Nat \ {0}
<1> DEFINE P == Nat \ {0}
           h == [i \in 1 .. MaxLog2 |-> [v \in P |-> 2 * v]]
           IsPow2(f) == f = [n \in 0 .. MaxLog2 |-> IF n = 0 THEN 1 ELSE 2 * f[n - 1]]
<1>0. MaxLog2 \in Nat
  BY UtHashAssumption
<1>1. PICK f : Defined(f, MaxLog2, P, 1, h)
  <2>1. 1 \in P /\ h \in [1 .. MaxLog2 -> [P -> P]]
    OBVIOUS
  <2> HIDE DEF P, h
  <2>2. QED  BY <1>0, <2>1, Recursion
<1>2. IsPow2(f)
  <2>1. ASSUME NEW i \in 1 .. MaxLog2 PROVE f[i] = 2 * f[i - 1] /\ i # 0
    <3>1. i - 1 \in 0 .. MaxLog2 /\ f[i - 1] \in P /\ f[i] = h[i][f[i - 1]]
      BY <1>0, <1>1 DEF Defined
    <3>2. QED  BY <3>1
  <2>2. \A i \in 0 .. MaxLog2 : i = 0 \/ i \in 1 .. MaxLog2
    BY <1>0
  <2>3. \A i \in 0 .. MaxLog2 : f[i] = IF i = 0 THEN 1 ELSE 2 * f[i - 1]
    BY <1>1, <2>1, <2>2, Zenon DEF Defined
  <2>4. QED  BY <1>1, <2>3 DEF Defined
<1>3. IsPow2(Pow2)
  <2> HIDE DEF P, h
  <2>1. Pow2 = CHOOSE g : IsPow2(g)
    BY DEF Pow2
  <2> HIDE DEF IsPow2
  <2>2. QED  BY <1>2, <2>1
<1>4. /\ Pow2[0] = 1
      /\ \A i \in 0 .. MaxLog2 - 1 : Pow2[i + 1] = 2 * Pow2[i]
  BY <1>0, <1>3
<1> DEFINE T == {i \in 0 .. MaxLog2 : Pow2[i] \in P}
<1>5. 0 \in T
  BY <1>0, <1>4
<1>6. \A i \in 0 .. MaxLog2 - 1 : i \in T => i + 1 \in T
  BY <1>0, <1>4
<1>7. \A i \in 0 .. MaxLog2 : i \in T
  <2> HIDE DEF T
  <2> QED  BY <1>0, <1>5, <1>6, UpTo
<1>8. QED  BY <1>7

\* The buckets of a table of 2^lg buckets.
Bkts(lg) == 0 .. Pow2[lg] - 1

\* HASH_TO_BKT stays among them.
LEMMA ToBktIn ==
  ASSUME hashv \in [Keys -> Hashes], NEW k \in Keys, NEW lg \in 0 .. MaxLog2
  PROVE  ToBkt(k, lg) \in Bkts(lg)
<1>1. hashv[k] \in Nat
  BY UtHashAssumption
<1>2. Pow2[lg] \in Nat /\ Pow2[lg] > 0
  BY Pow2Positive
<1>3. QED  BY <1>1, <1>2 DEF ToBkt, Bkts

-----------------------------------------------------------------------------
(* Lists of elements. *)

\* The links nx lead from f through s to its end, which is what Walk finds then.
IsList(s, f, nx) ==
  /\ s \in Seq(Keys)
  /\ f = IF s = << >> THEN NULL ELSE s[1]
  /\ \A i \in 1 .. Len(s) : s[i] \in DOMAIN nx /\ nx[s[i]] = IF i = Len(s) THEN NULL ELSE s[i + 1]
  /\ \A i, j \in 1 .. Len(s) : s[i] = s[j] => i = j

\* The links pv lead back.
IsBack(s, pv) ==
  \A i \in 1 .. Len(s) : s[i] \in DOMAIN pv /\ pv[s[i]] = IF i = 1 THEN NULL ELSE s[i - 1]

\* s is linked both ways, from f on.
TwoWay(s, f, nx, pv) == IsList(s, f, nx) /\ IsBack(s, pv)

\* A sequence without repetition has as many elements as its set of elements.
LEMMA InjectiveLen ==
  ASSUME NEW s \in Seq(Keys), \A i, j \in 1 .. Len(s) : s[i] = s[j] => i = j,
         NEW S, \A i \in 1 .. Len(s) : s[i] \in S, IsFiniteSet(S)
  PROVE  /\ Len(s) <= Cardinality(S)
         /\ (\A x \in S : \E i \in 1 .. Len(s) : s[i] = x) => Len(s) = Cardinality(S)
<1>1. Len(s) \in Nat /\ DOMAIN s = 1 .. Len(s)
  BY LenProperties
<1>2. IsFiniteSet(1 .. Len(s)) /\ Cardinality(1 .. Len(s)) = Len(s)
  BY <1>1, FS_Interval
<1>3. s \in [1 .. Len(s) -> S]
  BY <1>1, LenProperties
<1>4. s \in Injection(1 .. Len(s), S)
  BY <1>3 DEF Injection, IsInjective
<1>5. /\ Cardinality(1 .. Len(s)) <= Cardinality(S)
      /\ Cardinality(1 .. Len(s)) = Cardinality(S) <=> s \in Surjection(1 .. Len(s), S)
  BY <1>4, FS_Injection, Zenon
<1>6. (\A x \in S : \E i \in 1 .. Len(s) : s[i] = x) => s \in Surjection(1 .. Len(s), S)
  BY <1>3, Zenon DEF Surjection
<1>7. QED  BY <1>2, <1>5, <1>6

\* Walk finds the list that the links make, however long it is.
LEMMA WalkIs ==
  ASSUME NEW s, NEW f, NEW nx, IsList(s, f, nx), DOMAIN nx \subseteq Keys
  PROVE  Walk(f, nx) = s
<1> DEFINE N == Cardinality(DOMAIN nx) + 1
           IsMet(m) == m = [i \in 1 .. N |-> IF i = 1 THEN f ELSE After(nx, m[i - 1])]
           w == [i \in 1 .. N |-> IF i <= Len(s) THEN s[i] ELSE NULL]
           m == CHOOSE g : IsMet(g)
<1>1. s \in Seq(Keys) /\ Len(s) \in Nat /\ \A i \in 1 .. Len(s) : s[i] \in Keys /\ s[i] # NULL
  BY UtHashAssumption DEF IsList
<1>2. N \in Nat /\ Len(s) <= N - 1
  <2>1. IsFiniteSet(DOMAIN nx)
    BY UtHashAssumption, FS_Subset
  <2>2. Cardinality(DOMAIN nx) \in Nat
    BY <2>1, FS_CardinalityType
  <2>3. Len(s) <= Cardinality(DOMAIN nx)
    BY <1>1, <2>1, InjectiveLen DEF IsList
  <2>4. QED  BY <1>1, <2>2, <2>3
<1> HIDE DEF N
<1>3. IsMet(w)
  <2>1. ASSUME NEW i \in 1 .. N PROVE w[i] = IF i = 1 THEN f ELSE After(nx, w[i - 1])
    <3>1. CASE i = 1
      BY <1>1, <3>1 DEF IsList
    <3>2. CASE i # 1 /\ i <= Len(s)
      <4>1. w[i] = s[i] /\ w[i - 1] = s[i - 1] /\ i - 1 \in 1 .. Len(s) /\ i - 1 # Len(s)
        BY <1>1, <1>2, <3>2
      <4>2. nx[s[i - 1]] = s[i]
        BY <1>1, <3>2, <4>1 DEF IsList
      <4>3. QED  BY <1>1, <3>2, <4>1, <4>2 DEF After
    <3>3. CASE i # 1 /\ i = Len(s) + 1
      <4>1. w[i] = NULL /\ w[i - 1] = s[i - 1] /\ i - 1 \in 1 .. Len(s) /\ i - 1 = Len(s)
        BY <1>1, <1>2, <3>3
      <4>2. nx[s[i - 1]] = NULL
        BY <1>1, <4>1 DEF IsList
      <4>3. QED  BY <1>1, <3>3, <4>1, <4>2 DEF After
    <3>4. CASE i # 1 /\ i > Len(s) + 1
      <4>1. w[i] = NULL /\ w[i - 1] = NULL
        BY <1>1, <1>2, <3>4
      <4>2. QED  BY <3>4, <4>1 DEF After
    <3>5. QED  BY <1>1, <3>1, <3>2, <3>3, <3>4
  <2>2. w = [i \in 1 .. N |-> w[i]]
    OBVIOUS
  <2> HIDE DEF w
  <2>3. QED  BY <2>1, <2>2
<1>4. IsMet(m)
  <2> HIDE DEF IsMet
  <2> QED  BY <1>3
<1>5. m = w
  <2> DEFINE T == {i \in 0 .. N - 1 : m[i + 1] = w[i + 1]}
  <2>1. /\ DOMAIN m = 1 .. N /\ DOMAIN w = 1 .. N
        /\ \A i \in 1 .. N : m[i] = IF i = 1 THEN f ELSE After(nx, m[i - 1])
        /\ \A i \in 1 .. N : w[i] = IF i = 1 THEN f ELSE After(nx, w[i - 1])
    <3> HIDE DEF m, w
    <3> QED  BY <1>3, <1>4
  <2> HIDE DEF m, w
  <2>2. 0 \in T
    BY <1>1, <1>2, <2>1
  <2>3. ASSUME NEW i \in 0 .. N - 1 - 1, i \in T PROVE i + 1 \in T
    <3>1. i + 2 \in 1 .. N /\ i + 2 # 1 /\ (i + 2) - 1 = i + 1 /\ m[i + 1] = w[i + 1] /\ (i + 1) + 1 = i + 2
      BY <1>2, <2>3
    <3>2. m[i + 2] = w[i + 2]
      BY <2>1, <3>1
    <3>3. QED  BY <1>2, <3>1, <3>2
  <2>4. \A i \in 0 .. N - 1 : i \in T
    <3> HIDE DEF T
    <3>1. N - 1 \in Nat
      BY <1>1, <1>2
    <3>2. QED  BY <2>2, <2>3, <3>1, UpTo
  <2>5. \A i \in 1 .. N : m[i] = w[i]
    <3> SUFFICES ASSUME NEW i \in 1 .. N PROVE m[i] = w[i]
      OBVIOUS
    <3>1. i - 1 \in 0 .. N - 1 /\ (i - 1) + 1 = i
      BY <1>2
    <3>2. QED  BY <2>4, <3>1
  <2>6. m = [i \in 1 .. N |-> m[i]] /\ w = [i \in 1 .. N |-> w[i]]
    BY <1>3, <1>4
  <2>7. QED  BY <2>5, <2>6
<1>6. Cardinality({i \in DOMAIN w : w[i] # NULL}) = Len(s)
  <2>1. {i \in DOMAIN w : w[i] # NULL} = 1 .. Len(s)
    BY <1>1, <1>2
  <2>2. Cardinality(1 .. Len(s)) = Len(s)
    BY <1>1, FS_Interval
  <2>3. QED  BY <2>1, <2>2
<1>7. SubSeq(w, 1, Len(s)) = s
  <2>1. \A i \in 1 .. Len(s) : w[i] \in Keys /\ w[i] = s[i]
    BY <1>1, <1>2
  <2> HIDE DEF w
  <2>2. /\ SubSeq(w, 1, Len(s)) \in Seq(Keys) /\ Len(SubSeq(w, 1, Len(s))) = Len(s)
        /\ \A i \in 1 .. Len(s) : SubSeq(w, 1, Len(s))[i] = s[i]
    BY <1>1, <2>1, SubSeqProperties
  <2>3. QED  BY <1>1, <2>2, SeqEqual
<1>8. Walk(f, nx) = SubSeq(m, 1, Cardinality({i \in DOMAIN m : m[i] # NULL}))
  BY DEF Walk, N
<1>9. QED
  <2> HIDE DEF m, w
  <2> QED  BY <1>5, <1>6, <1>7, <1>8

\* A list is the same in links that are the same on it.
LEMMA SameList ==
  ASSUME NEW s, NEW f, NEW nx, NEW pv, TwoWay(s, f, nx, pv), NEW nx2, NEW pv2,
         \A i \in 1 .. Len(s) : s[i] \in DOMAIN nx2 /\ nx2[s[i]] = nx[s[i]],
         \A i \in 1 .. Len(s) : s[i] \in DOMAIN pv2 /\ pv2[s[i]] = pv[s[i]]
  PROVE  TwoWay(s, f, nx2, pv2)
BY DEF TwoWay, IsList, IsBack

\* The end of a list is a list.
LEMMA SuffixIsList ==
  ASSUME NEW s, NEW f, NEW nx, IsList(s, f, nx), NEW i \in 1 .. Len(s) + 1
  PROVE  IsList(SubSeq(s, i, Len(s)), IF i = Len(s) + 1 THEN NULL ELSE s[i], nx)
<1> DEFINE t == SubSeq(s, i, Len(s))
<1>1. s \in Seq(Keys) /\ Len(s) \in Nat /\ i \in Int
  BY DEF IsList
<1>2. /\ t \in Seq(Keys) /\ Len(t) = Len(s) - i + 1
      /\ \A j \in 1 .. Len(s) - i + 1 : t[j] = s[i + j - 1]
  <2>1. \A j \in i .. Len(s) : s[j] \in Keys
    BY <1>1
  <2>2. QED  BY <1>1, <2>1, SubSeqProperties
<1> HIDE DEF t
<1>3. (IF i = Len(s) + 1 THEN NULL ELSE s[i]) = IF t = << >> THEN NULL ELSE t[1]
  <2>1. CASE i = Len(s) + 1
    BY <1>2, <2>1, EmptySeq
  <2>2. CASE i # Len(s) + 1
    BY <1>1, <1>2, <2>2
  <2>3. QED  BY <2>1, <2>2
<1>4. ASSUME NEW j \in 1 .. Len(t)
      PROVE  t[j] \in DOMAIN nx /\ nx[t[j]] = IF j = Len(t) THEN NULL ELSE t[j + 1]
  <2>1. i + j - 1 \in 1 .. Len(s) /\ t[j] = s[i + j - 1] /\ (j = Len(t) <=> i + j - 1 = Len(s))
    BY <1>1, <1>2
  <2>2. j # Len(t) => t[j + 1] = s[(i + j - 1) + 1]
    BY <1>1, <1>2
  <2>3. nx[s[i + j - 1]] = (IF i + j - 1 = Len(s) THEN NULL ELSE s[(i + j - 1) + 1]) /\ s[i + j - 1] \in DOMAIN nx
    BY <2>1 DEF IsList
  <2>4. QED  BY <2>1, <2>2, <2>3
<1>5. ASSUME NEW j \in 1 .. Len(t), NEW k \in 1 .. Len(t), t[j] = t[k] PROVE j = k
  <2>1. /\ i + j - 1 \in 1 .. Len(s) /\ t[j] = s[i + j - 1]
        /\ i + k - 1 \in 1 .. Len(s) /\ t[k] = s[i + k - 1]
    BY <1>1, <1>2
  <2>2. i + j - 1 = i + k - 1
    BY <1>5, <2>1 DEF IsList
  <2>3. QED  BY <1>1, <2>2
<1>6. QED  BY <1>2, <1>3, <1>4, <1>5 DEF IsList, t

\* An element put in front of a list, as HASH_ADD_TO_BKT does.
LEMMA PushList ==
  ASSUME NEW s, NEW f, NEW nx, NEW pv, TwoWay(s, f, nx, pv),
         NEW e \in Keys, \A i \in 1 .. Len(s) : s[i] # e
  PROVE  TwoWay(<<e>> \o s, e, Set(nx, e, f), Set(Set(pv, f, e), e, NULL))
<1> DEFINE t == <<e>> \o s
           nx2 == Set(nx, e, f)
           pv1 == Set(pv, f, e)
           pv2 == Set(pv1, e, NULL)
<1>1. s \in Seq(Keys) /\ Len(s) \in Nat /\ e # NULL
      /\ (f = IF s = << >> THEN NULL ELSE s[1]) /\ (s = << >> <=> Len(s) = 0)
  BY UtHashAssumption, EmptySeq DEF TwoWay, IsList
<1>2. /\ t \in Seq(Keys) /\ Len(t) = Len(s) + 1 /\ t[1] = e /\ t # << >>
      /\ \A i \in 2 .. Len(s) + 1 : t[i] = s[i - 1]
  <2>1. <<e>> \in Seq(Keys) /\ Len(<<e>>) = 1 /\ <<e>>[1] = e
    OBVIOUS
  <2>2. /\ t \in Seq(Keys) /\ Len(t) = 1 + Len(s)
        /\ \A i \in 1 .. 1 + Len(s) : t[i] = IF i <= 1 THEN <<e>>[i] ELSE s[i - 1]
    BY <1>1, <2>1, ConcatProperties
  <2> HIDE DEF t
  <2>3. QED  BY <1>1, <2>1, <2>2, EmptySeq
<1>3. /\ e \in DOMAIN nx2 /\ nx2[e] = f
      /\ \A i \in 1 .. Len(s) : s[i] \in DOMAIN nx2 /\ nx2[s[i]] = nx[s[i]]
  <2>1. \A i \in 1 .. Len(s) : s[i] \in DOMAIN nx
    BY DEF TwoWay, IsList
  <2>2. DOMAIN nx2 = DOMAIN nx \cup {e} /\ nx2[e] = f /\ \A k \in DOMAIN nx : k # e => nx2[k] = nx[k]
    BY <1>1 DEF Set
  <2> HIDE DEF nx2
  <2>3. QED  BY <2>1, <2>2
<1>4. /\ e \in DOMAIN pv2 /\ pv2[e] = NULL
      /\ \A i \in 1 .. Len(s) : s[i] \in DOMAIN pv2 /\ pv2[s[i]] = IF s[i] = f THEN e ELSE pv[s[i]]
  <2>1. \A i \in 1 .. Len(s) : s[i] \in DOMAIN pv /\ s[i] # NULL
    BY <1>1, UtHashAssumption DEF TwoWay, IsBack
  <2>2. \A i \in 1 .. Len(s) : s[i] \in DOMAIN pv1 /\ pv1[s[i]] = IF s[i] = f THEN e ELSE pv[s[i]]
    <3>1. CASE f = NULL
      <4>1. pv1 = pv
        BY <3>1 DEF Set
      <4>2. QED  BY <2>1, <3>1, <4>1
    <3>2. CASE f # NULL
      <4>1. DOMAIN pv1 = DOMAIN pv \cup {f} /\ pv1[f] = e /\ \A k \in DOMAIN pv : k # f => pv1[k] = pv[k]
        BY <3>2 DEF Set
      <4> HIDE DEF pv1
      <4>2. QED  BY <2>1, <4>1
    <3>3. QED  BY <3>1, <3>2
  <2> HIDE DEF pv1
  <2>3. DOMAIN pv2 = DOMAIN pv1 \cup {e} /\ pv2[e] = NULL /\ \A k \in DOMAIN pv1 : k # e => pv2[k] = pv1[k]
    BY <1>1 DEF Set
  <2> HIDE DEF pv2
  <2>4. QED  BY <2>2, <2>3
<1> HIDE DEF t, nx2, pv1, pv2
<1>5. ASSUME NEW i \in 1 .. Len(t)
      PROVE  t[i] \in DOMAIN nx2 /\ nx2[t[i]] = IF i = Len(t) THEN NULL ELSE t[i + 1]
  <2>1. CASE i = 1
    BY <1>1, <1>2, <1>3, <2>1
  <2>2. CASE i # 1
    <3>1. i - 1 \in 1 .. Len(s) /\ t[i] = s[i - 1] /\ (i = Len(t) <=> i - 1 = Len(s))
      BY <1>1, <1>2, <2>2
    <3>2. i # Len(t) => t[i + 1] = s[(i - 1) + 1]
      BY <1>1, <1>2, <2>2
    <3>3. nx[s[i - 1]] = IF i - 1 = Len(s) THEN NULL ELSE s[(i - 1) + 1]
      BY <3>1 DEF TwoWay, IsList
    <3>4. QED  BY <1>3, <3>1, <3>2, <3>3
  <2>3. QED  BY <2>1, <2>2
<1>6. ASSUME NEW i \in 1 .. Len(t)
      PROVE  t[i] \in DOMAIN pv2 /\ pv2[t[i]] = IF i = 1 THEN NULL ELSE t[i - 1]
  <2>1. CASE i = 1
    BY <1>1, <1>2, <1>4, <2>1
  <2>2. CASE i = 2
    BY <1>1, <1>2, <1>4, <2>2
  <2>3. CASE i > 2
    <3>0. i - 1 \in 1 .. Len(s) /\ i - 1 \in 2 .. Len(s) + 1 /\ i \in 2 .. Len(s) + 1
          /\ i - 1 # 1 /\ 1 \in 1 .. Len(s) /\ s # << >>
      BY <1>1, <1>2, <2>3
    <3>1. t[i] = s[i - 1] /\ t[i - 1] = s[(i - 1) - 1] /\ f = s[1]
      BY <1>1, <1>2, <3>0
    <3>2. s[i - 1] # f
      BY <3>0, <3>1 DEF TwoWay, IsList
    <3>3. pv[s[i - 1]] = s[(i - 1) - 1]
      BY <3>0 DEF TwoWay, IsBack
    <3>4. QED  BY <1>4, <2>3, <3>0, <3>1, <3>2, <3>3
  <2>4. QED  BY <2>1, <2>2, <2>3
<1>7. ASSUME NEW i \in 1 .. Len(t), NEW j \in 1 .. Len(t), t[i] = t[j] PROVE i = j
  <2>1. \A k \in 1 .. Len(t) : k = 1 \/ (k - 1 \in 1 .. Len(s) /\ t[k] = s[k - 1])
    BY <1>1, <1>2
  <2>2. i = 1 <=> j = 1
    BY <1>2, <1>7, <2>1
  <2>3. CASE i # 1
    <3>1. i - 1 = j - 1
      BY <1>7, <2>1, <2>2, <2>3 DEF TwoWay, IsList
    <3>2. QED  BY <1>1, <1>2, <3>1
  <2>4. QED  BY <2>2, <2>3
<1>8. QED  BY <1>2, <1>5, <1>6, <1>7 DEF TwoWay, IsList, IsBack, t, nx2, pv2, pv1

\* The last element of a list, NULL when there is none: what tbl.tail is.
TailOf(s) == IF s = << >> THEN NULL ELSE Last(s)

\* An element put at the end of a list, as HASH_ADD does.
LEMMA AppendList ==
  ASSUME NEW s, NEW f, NEW nx, NEW pv, TwoWay(s, f, nx, pv),
         NEW e \in Keys, \A i \in 1 .. Len(s) : s[i] # e
  PROVE  TwoWay(Append(s, e), IF f = NULL THEN e ELSE f,
                Set(Set(nx, TailOf(s), e), e, NULL), Set(pv, e, TailOf(s)))
<1> DEFINE n == Len(s)
           t == Append(s, e)
           l == TailOf(s)
           nx1 == Set(nx, l, e)
           nx2 == Set(nx1, e, NULL)
           pv2 == Set(pv, e, l)
<1>1. /\ s \in Seq(Keys) /\ n \in Nat /\ e # NULL /\ (s = << >> <=> n = 0)
      /\ f = (IF s = << >> THEN NULL ELSE s[1]) /\ \A i \in 1 .. n : s[i] # NULL
  BY UtHashAssumption, EmptySeq DEF TwoWay, IsList
<1>2. l = IF n = 0 THEN NULL ELSE s[n]
  BY <1>1 DEF TailOf, Last
<1>3. /\ t \in Seq(Keys) /\ Len(t) = n + 1 /\ t[n + 1] = e /\ t # << >>
      /\ \A i \in 1 .. n : t[i] = s[i]
  BY <1>1, AppendProperties
<1>4. /\ e \in DOMAIN nx2 /\ nx2[e] = NULL
      /\ \A i \in 1 .. n : s[i] \in DOMAIN nx2 /\ nx2[s[i]] = IF s[i] = l THEN e ELSE nx[s[i]]
  <2>1. \A i \in 1 .. n : s[i] \in DOMAIN nx /\ s[i] # NULL
    BY <1>1 DEF TwoWay, IsList
  <2>2. \A i \in 1 .. n : s[i] \in DOMAIN nx1 /\ nx1[s[i]] = IF s[i] = l THEN e ELSE nx[s[i]]
    <3>1. CASE l = NULL
      <4>1. nx1 = nx
        BY <3>1 DEF Set
      <4>2. QED  BY <2>1, <3>1, <4>1
    <3>2. CASE l # NULL
      <4>1. DOMAIN nx1 = DOMAIN nx \cup {l} /\ nx1[l] = e /\ \A k \in DOMAIN nx : k # l => nx1[k] = nx[k]
        BY <3>2 DEF Set
      <4> HIDE DEF nx1
      <4>2. QED  BY <2>1, <4>1
    <3>3. QED  BY <3>1, <3>2
  <2> HIDE DEF nx1
  <2>3. DOMAIN nx2 = DOMAIN nx1 \cup {e} /\ nx2[e] = NULL /\ \A k \in DOMAIN nx1 : k # e => nx2[k] = nx1[k]
    BY <1>1 DEF Set
  <2> HIDE DEF nx2
  <2>4. QED  BY <2>2, <2>3
<1>5. /\ e \in DOMAIN pv2 /\ pv2[e] = l
      /\ \A i \in 1 .. n : s[i] \in DOMAIN pv2 /\ pv2[s[i]] = pv[s[i]]
  <2>1. \A i \in 1 .. n : s[i] \in DOMAIN pv
    BY DEF TwoWay, IsBack
  <2>2. DOMAIN pv2 = DOMAIN pv \cup {e} /\ pv2[e] = l /\ \A k \in DOMAIN pv : k # e => pv2[k] = pv[k]
    BY <1>1 DEF Set
  <2> HIDE DEF pv2
  <2>3. QED  BY <2>1, <2>2
<1> HIDE DEF t, l, nx1, nx2, pv2
<1>6. ASSUME NEW i \in 1 .. Len(t)
      PROVE  t[i] \in DOMAIN nx2 /\ nx2[t[i]] = IF i = Len(t) THEN NULL ELSE t[i + 1]
  <2>1. CASE i = n + 1
    BY <1>3, <1>4, <2>1
  <2>2. CASE i = n
    <3>1. n \in 1 .. n /\ s[n] = l /\ t[n] = s[n] /\ t[n + 1] = e /\ n # Len(t)
      BY <1>1, <1>2, <1>3, <2>2
    <3>2. QED  BY <1>4, <2>2, <3>1
  <2>3. CASE i < n
    <3>1. i \in 1 .. n /\ i + 1 \in 1 .. n /\ n \in 1 .. n /\ i # Len(t) /\ i # n /\ n # 0
      BY <1>1, <1>3, <2>3
    <3>2. s[i] # l
      BY <1>2, <3>1 DEF TwoWay, IsList
    <3>3. nx[s[i]] = s[i + 1]
      BY <3>1 DEF TwoWay, IsList
    <3>4. QED  BY <1>3, <1>4, <3>1, <3>2, <3>3
  <2>4. QED  BY <1>1, <1>3, <2>1, <2>2, <2>3
<1>7. ASSUME NEW i \in 1 .. Len(t)
      PROVE  t[i] \in DOMAIN pv2 /\ pv2[t[i]] = IF i = 1 THEN NULL ELSE t[i - 1]
  <2>1. CASE i = n + 1
    <3>1. i # 1 => n \in 1 .. n
      BY <1>1, <2>1
    <3>2. QED  BY <1>1, <1>2, <1>3, <1>5, <2>1, <3>1
  <2>2. CASE i \in 1 .. n
    <3>1. pv[s[i]] = IF i = 1 THEN NULL ELSE s[i - 1]
      BY <2>2 DEF TwoWay, IsBack
    <3>2. i # 1 => i - 1 \in 1 .. n
      BY <1>1, <2>2
    <3>3. QED  BY <1>3, <1>5, <2>2, <3>1, <3>2
  <2>3. QED  BY <1>1, <1>3, <2>1, <2>2
<1>8. ASSUME NEW i \in 1 .. Len(t), NEW j \in 1 .. Len(t), t[i] = t[j] PROVE i = j
  <2>1. \A k \in 1 .. Len(t) : k = n + 1 \/ (k \in 1 .. n /\ t[k] = s[k] /\ t[k] # e)
    BY <1>1, <1>3
  <2>2. i = n + 1 <=> j = n + 1
    BY <1>3, <1>8, <2>1
  <2>3. CASE i # n + 1
    BY <1>8, <2>1, <2>2, <2>3 DEF TwoWay, IsList
  <2>4. QED  BY <2>2, <2>3
<1>9. (IF f = NULL THEN e ELSE f) = IF t = << >> THEN NULL ELSE t[1]
  <2>1. CASE n = 0
    BY <1>1, <1>3, <2>1
  <2>2. CASE n # 0
    <3>1. 1 \in 1 .. n
      BY <1>1, <2>2
    <3>2. QED  BY <1>1, <1>3, <2>2, <3>1
  <2>3. QED  BY <2>1, <2>2
<1>10. QED  BY <1>3, <1>6, <1>7, <1>8, <1>9 DEF TwoWay, IsList, IsBack, t, l, nx2, nx1, pv2

\* A sequence without its i-th element.
LEMMA RemoveAtIs ==
  ASSUME NEW S, NEW s \in Seq(S), NEW i \in 1 .. Len(s)
  PROVE  /\ RemoveAt(s, i) \in Seq(S) /\ Len(RemoveAt(s, i)) = Len(s) - 1
         /\ \A j \in 1 .. Len(s) - 1 : RemoveAt(s, i)[j] = IF j < i THEN s[j] ELSE s[j + 1]
<1> DEFINE a == SubSeq(s, 1, i - 1)
           b == SubSeq(s, i + 1, Len(s))
<1>1. Len(s) \in Nat /\ i \in Int /\ \A j \in 1 .. Len(s) : s[j] \in S
  OBVIOUS
<1>2. a \in Seq(S) /\ Len(a) = i - 1 /\ \A j \in 1 .. i - 1 : a[j] = s[j]
  <2>1. \A j \in 1 .. i - 1 : s[j] \in S
    BY <1>1
  <2>2. /\ a \in Seq(S) /\ Len(a) = IF 1 <= i - 1 THEN i - 1 - 1 + 1 ELSE 0
        /\ \A j \in 1 .. i - 1 - 1 + 1 : a[j] = s[1 + j - 1]
    BY <1>1, <2>1, SubSeqProperties
  <2> HIDE DEF a
  <2>3. QED  BY <1>1, <2>2
<1>3. b \in Seq(S) /\ Len(b) = Len(s) - i /\ \A j \in 1 .. Len(s) - i : b[j] = s[i + j]
  <2>1. \A j \in i + 1 .. Len(s) : s[j] \in S
    BY <1>1
  <2>2. /\ b \in Seq(S) /\ Len(b) = IF i + 1 <= Len(s) THEN Len(s) - (i + 1) + 1 ELSE 0
        /\ \A j \in 1 .. Len(s) - (i + 1) + 1 : b[j] = s[i + 1 + j - 1]
    BY <1>1, <2>1, SubSeqProperties
  <2> HIDE DEF b
  <2>3. QED  BY <1>1, <2>2
<1> HIDE DEF a, b
<1>4. /\ a \o b \in Seq(S) /\ Len(a \o b) = Len(a) + Len(b)
      /\ \A j \in 1 .. Len(a) + Len(b) : (a \o b)[j] = IF j <= Len(a) THEN a[j] ELSE b[j - Len(a)]
  BY <1>2, <1>3, ConcatProperties
<1>5. ASSUME NEW j \in 1 .. Len(s) - 1 PROVE (a \o b)[j] = IF j < i THEN s[j] ELSE s[j + 1]
  <2>1. CASE j < i
    BY <1>1, <1>2, <1>3, <1>4, <2>1
  <2>2. CASE j >= i
    <3>1. j - (i - 1) \in 1 .. Len(s) - i /\ i + (j - (i - 1)) = j + 1
      BY <1>1, <2>2
    <3>2. (a \o b)[j] = b[j - (i - 1)]
      BY <1>1, <1>2, <1>3, <1>4, <2>2
    <3>3. QED  BY <1>3, <2>2, <3>1, <3>2
  <2>3. j < i \/ j >= i
    BY <1>1
  <2>4. QED  BY <2>1, <2>2, <2>3, Zenon
<1>6. RemoveAt(s, i) = a \o b
  BY DEF RemoveAt, a, b
<1>7. QED  BY <1>1, <1>2, <1>3, <1>4, <1>5, <1>6

\* An element taken out of a list, as HASH_DEL_IN_BKT and HASH_DELETE do.
LEMMA RemoveList ==
  ASSUME NEW s, NEW f, NEW nx, NEW pv, TwoWay(s, f, nx, pv), NEW i \in 1 .. Len(s), NEW e, e = s[i]
  PROVE  TwoWay(RemoveAt(s, i), IF f = e THEN nx[e] ELSE f,
                Unset(Set(nx, pv[e], nx[e]), e), Unset(Set(pv, nx[e], pv[e]), e))
<1> DEFINE n == Len(s)
           t == RemoveAt(s, i)
           p == pv[e]
           q == nx[e]
           nx2 == Unset(Set(nx, p, q), e)
           pv2 == Unset(Set(pv, q, p), e)
<1>1. /\ s \in Seq(Keys) /\ n \in Nat /\ i \in Int /\ f = s[1] /\ 1 \in 1 .. n
      /\ \A j \in 1 .. n : s[j] # NULL /\ s[j] \in DOMAIN nx /\ s[j] \in DOMAIN pv
  <2>1. s \in Seq(Keys) /\ (s = << >> => n = 0) /\ f = IF s = << >> THEN NULL ELSE s[1]
    BY EmptySeq DEF TwoWay, IsList
  <2>2. \A j \in 1 .. n : s[j] # NULL
    BY <2>1, UtHashAssumption
  <2>3. QED  BY <2>1, <2>2 DEF TwoWay, IsList, IsBack
<1>2. /\ p = IF i = 1 THEN NULL ELSE s[i - 1]
      /\ q = IF i = n THEN NULL ELSE s[i + 1]
  BY DEF TwoWay, IsList, IsBack
<1>3. t \in Seq(Keys) /\ Len(t) = n - 1 /\ \A j \in 1 .. n - 1 : t[j] = IF j < i THEN s[j] ELSE s[j + 1]
  BY <1>1, RemoveAtIs
<1>4. \A j, k \in 1 .. n : s[j] = s[k] => j = k
  BY DEF TwoWay, IsList
<1>5. \A j \in 1 .. n : j # i => /\ s[j] \in DOMAIN nx2
                                 /\ nx2[s[j]] = IF j = i - 1 THEN q ELSE nx[s[j]]
  <2> SUFFICES ASSUME NEW j \in 1 .. n, j # i
               PROVE  s[j] \in DOMAIN nx2 /\ nx2[s[j]] = IF j = i - 1 THEN q ELSE nx[s[j]]
    OBVIOUS
  <2>1. s[j] # e /\ s[j] # NULL /\ s[j] \in DOMAIN nx /\ (s[j] = p <=> j = i - 1)
    <3>1. s[j] # e
      BY <1>4
    <3>2. CASE i = 1
      BY <1>1, <1>2, <3>1, <3>2
    <3>3. CASE i # 1
      <4>1. i - 1 \in 1 .. n /\ p = s[i - 1]
        BY <1>1, <1>2, <3>3
      <4>2. QED  BY <1>1, <1>4, <3>1, <4>1
    <3>4. QED  BY <3>2, <3>3
  <2>2. CASE p = NULL
    <3>1. nx2 = [k \in DOMAIN nx \ {e} |-> nx[k]]
      BY <2>2 DEF Set, Unset
    <3> HIDE DEF nx2
    <3>2. QED  BY <2>1, <2>2, <3>1
  <2>3. CASE p # NULL
    <3> DEFINE l == [k \in DOMAIN nx \cup {p} |-> IF k = p THEN q ELSE nx[k]]
    <3>1. nx2 = [k \in DOMAIN l \ {e} |-> l[k]]
      BY <2>3 DEF Set, Unset
    <3>2. s[j] \in DOMAIN l /\ l[s[j]] = IF s[j] = p THEN q ELSE nx[s[j]]
      BY <2>1
    <3> HIDE DEF nx2, l
    <3>3. QED  BY <2>1, <3>1, <3>2
  <2>4. QED  BY <2>2, <2>3
<1>6. \A j \in 1 .. n : j # i => /\ s[j] \in DOMAIN pv2
                                 /\ pv2[s[j]] = IF j = i + 1 THEN p ELSE pv[s[j]]
  <2> SUFFICES ASSUME NEW j \in 1 .. n, j # i
               PROVE  s[j] \in DOMAIN pv2 /\ pv2[s[j]] = IF j = i + 1 THEN p ELSE pv[s[j]]
    OBVIOUS
  <2>1. s[j] # e /\ s[j] # NULL /\ s[j] \in DOMAIN pv /\ (s[j] = q <=> j = i + 1)
    <3>1. s[j] # e
      BY <1>4
    <3>2. CASE i = n
      BY <1>1, <1>2, <3>1, <3>2
    <3>3. CASE i # n
      <4>1. i + 1 \in 1 .. n /\ q = s[i + 1]
        BY <1>1, <1>2, <3>3
      <4>2. QED  BY <1>1, <1>4, <3>1, <4>1
    <3>4. QED  BY <3>2, <3>3
  <2>2. CASE q = NULL
    <3>1. pv2 = [k \in DOMAIN pv \ {e} |-> pv[k]]
      BY <2>2 DEF Set, Unset
    <3> HIDE DEF pv2
    <3>2. QED  BY <2>1, <2>2, <3>1
  <2>3. CASE q # NULL
    <3> DEFINE l == [k \in DOMAIN pv \cup {q} |-> IF k = q THEN p ELSE pv[k]]
    <3>1. pv2 = [k \in DOMAIN l \ {e} |-> l[k]]
      BY <2>3 DEF Set, Unset
    <3>2. s[j] \in DOMAIN l /\ l[s[j]] = IF s[j] = q THEN p ELSE pv[s[j]]
      BY <2>1
    <3> HIDE DEF pv2, l
    <3>3. QED  BY <2>1, <3>1, <3>2
  <2>4. QED  BY <2>2, <2>3
<1>7. (IF f = e THEN nx[e] ELSE f) = IF t = << >> THEN NULL ELSE t[1]
  <2>1. t = << >> <=> n = 1
    BY <1>1, <1>3, EmptySeq
  <2>2. f = e <=> i = 1
    BY <1>1, <1>4
  <2>3. CASE n = 1
    <3>1. i = 1 /\ q = NULL
      BY <1>1, <1>2, <2>3
    <3>2. QED  BY <2>1, <2>2, <2>3, <3>1
  <2>4. CASE n # 1
    <3>0. n \in Nat /\ n > 1
      <4> HIDE DEF n
      <4>1. n \in Nat /\ 1 \in 1 .. n
        BY <1>1, Zenon
      <4>2. QED  BY <2>4, <4>1
    <3>1. 1 \in 1 .. n - 1
      <4> HIDE DEF n
      <4> QED  BY <3>0
    <3>2. t[1] = IF 1 < i THEN s[1] ELSE s[1 + 1]
      BY <1>3, <3>1
    <3>3. 1 < i <=> i # 1
      BY <1>1
    <3>4. i = 1 => q = s[1 + 1]
      BY <1>2, <2>4
    <3>5. QED  BY <1>1, <2>1, <2>2, <2>4, <3>2, <3>3, <3>4
  <2>5. QED  BY <2>3, <2>4
<1>8. q = nx[e] /\ p = pv[e]
  OBVIOUS
<1> HIDE DEF t, p, q, nx2, pv2
<1>9. ASSUME NEW j \in 1 .. Len(t)
      PROVE  t[j] \in DOMAIN nx2 /\ nx2[t[j]] = IF j = Len(t) THEN NULL ELSE t[j + 1]
  <2>1. CASE j + 1 < i
    <3>1. j \in 1 .. n /\ j # i /\ j # i - 1 /\ j # n /\ j # Len(t) /\ j < i
          /\ j \in 1 .. n - 1 /\ j + 1 \in 1 .. n - 1
      BY <1>1, <1>3, <2>1
    <3>2. t[j] = s[j] /\ t[j + 1] = s[j + 1]
      BY <1>3, <2>1, <3>1
    <3>3. nx[s[j]] = s[j + 1]
      BY <3>1 DEF TwoWay, IsList
    <3>4. QED  BY <1>5, <3>1, <3>2, <3>3
  <2>2. CASE j + 1 = i
    <3>1. j \in 1 .. n /\ j # i /\ j = i - 1 /\ j < i /\ j \in 1 .. n - 1 /\ (i = n <=> j = Len(t))
      BY <1>1, <1>3, <2>2
    <3>2. t[j] = s[j] /\ nx2[s[j]] = q /\ s[j] \in DOMAIN nx2
      BY <1>3, <1>5, <3>1
    <3>3. CASE i = n
      BY <1>2, <3>1, <3>2, <3>3
    <3>4. CASE i # n
      <4>1. i \in 1 .. n - 1 /\ ~ (i < i)
        BY <1>1, <3>4
      <4>2. t[i] = s[i + 1]
        BY <1>3, <4>1
      <4>3. QED  BY <1>2, <2>2, <3>1, <3>2, <3>4, <4>2
    <3>5. QED  BY <3>3, <3>4
  <2>3. CASE j >= i
    <3>1. j + 1 \in 1 .. n /\ j + 1 # i /\ j + 1 # i - 1 /\ ~ (j < i) /\ j \in 1 .. n - 1
          /\ (j = Len(t) <=> j + 1 = n)
      BY <1>1, <1>3, <2>3
    <3>2. t[j] = s[j + 1]
      BY <1>3, <3>1
    <3>3. j # Len(t) => t[j + 1] = s[(j + 1) + 1]
      <4>1. j # Len(t) => j + 1 \in 1 .. n - 1 /\ ~ (j + 1 < i)
        BY <1>1, <1>3, <2>3
      <4>2. QED  BY <1>3, <4>1
    <3>4. nx[s[j + 1]] = IF j + 1 = n THEN NULL ELSE s[(j + 1) + 1]
      BY <3>1 DEF TwoWay, IsList
    <3>5. QED  BY <1>5, <3>1, <3>2, <3>3, <3>4
  <2>4. j + 1 < i \/ j + 1 = i \/ j >= i
    BY <1>1, <1>3
  <2>5. QED  BY <2>1, <2>2, <2>3, <2>4, Zenon
<1>10. ASSUME NEW j \in 1 .. Len(t)
      PROVE  t[j] \in DOMAIN pv2 /\ pv2[t[j]] = IF j = 1 THEN NULL ELSE t[j - 1]
  <2>1. CASE j < i
    <3>1. j \in 1 .. n /\ j # i /\ j # i + 1 /\ j \in 1 .. n - 1
      BY <1>1, <1>3, <2>1
    <3>2. t[j] = s[j] /\ (j # 1 => t[j - 1] = s[j - 1])
      <4>1. j # 1 => j - 1 \in 1 .. n - 1 /\ j - 1 < i
        BY <1>1, <1>3, <2>1
      <4>2. QED  BY <1>3, <2>1, <3>1, <4>1
    <3>3. pv[s[j]] = IF j = 1 THEN NULL ELSE s[j - 1]
      BY <3>1 DEF TwoWay, IsBack
    <3>4. QED  BY <1>6, <3>1, <3>2, <3>3
  <2>2. CASE j = i
    <3>1. j + 1 \in 1 .. n /\ j + 1 # i /\ j + 1 = i + 1 /\ j \in 1 .. n - 1 /\ ~ (j < i)
      BY <1>1, <1>3, <2>2
    <3>2. t[j] = s[j + 1]
      BY <1>3, <3>1
    <3>3. s[j + 1] \in DOMAIN pv2 /\ pv2[s[j + 1]] = p
      BY <1>6, <3>1
    <3>4. j # 1 => t[j - 1] = s[j - 1]
      <4>1. j # 1 => j - 1 \in 1 .. n - 1 /\ j - 1 < i
        BY <1>1, <1>3, <2>2
      <4>2. QED  BY <1>3, <4>1
    <3>5. QED  BY <1>2, <2>2, <3>2, <3>3, <3>4
  <2>3. CASE j > i
    <3>1. /\ j + 1 \in 1 .. n /\ j + 1 # i /\ j + 1 # i + 1 /\ ~ (j < i) /\ j \in 1 .. n - 1
          /\ j # 1 /\ j + 1 # 1 /\ j - 1 \in 1 .. n - 1 /\ ~ (j - 1 < i) /\ (j - 1) + 1 = (j + 1) - 1
      BY <1>1, <1>3, <2>3
    <3>2. t[j] = s[j + 1] /\ t[j - 1] = s[(j + 1) - 1]
      BY <1>3, <3>1
    <3>3. pv[s[j + 1]] = s[(j + 1) - 1]
      BY <3>1 DEF TwoWay, IsBack
    <3>4. QED  BY <1>6, <3>1, <3>2, <3>3
  <2>4. j < i \/ j = i \/ j > i
    BY <1>1, <1>3
  <2>5. QED  BY <2>1, <2>2, <2>3, <2>4, Zenon
<1>11. ASSUME NEW j \in 1 .. Len(t), NEW k \in 1 .. Len(t), t[j] = t[k] PROVE j = k
  <2> DEFINE at(x) == IF x < i THEN x ELSE x + 1
  <2>1. \A x \in 1 .. n - 1 : at(x) \in 1 .. n /\ t[x] = s[at(x)]
    BY <1>1, <1>3
  <2>2. at(j) \in 1 .. n /\ at(k) \in 1 .. n /\ s[at(j)] = s[at(k)]
    <3> HIDE DEF at
    <3> QED  BY <1>3, <1>11, <2>1
  <2>3. at(j) = at(k)
    <3> HIDE DEF at
    <3> QED  BY <1>4, <2>2
  <2>4. QED  BY <1>1, <1>3, <2>3
<1>12. QED  BY <1>3, <1>7, <1>9, <1>10, <1>11 DEF TwoWay, IsList, IsBack, t, nx2, pv2, p, q

-----------------------------------------------------------------------------
(* Lists that share no element, one after the other. *)

\* s has each element of the first m sequences of ch once, and no other.
Gathers(s, ch, m) ==
  /\ s \in Seq(Keys)
  /\ \A i, j \in 1 .. Len(s) : s[i] = s[j] => i = j
  /\ \A i \in 1 .. Len(s) : \E a \in 1 .. m : \E j \in 1 .. Len(ch[a]) : s[i] = ch[a][j]
  /\ \A a \in 1 .. m : \A j \in 1 .. Len(ch[a]) : \E i \in 1 .. Len(s) : s[i] = ch[a][j]

\* The sequences of ch have no element in common and none twice.
Apart(ch, n) ==
  /\ ch \in [1 .. n -> Seq(Keys)]
  /\ \A a, b \in 1 .. n : \A i \in 1 .. Len(ch[a]), j \in 1 .. Len(ch[b]) :
       ch[a][i] = ch[b][j] => (a = b /\ i = j)

\* One more sequence.
LEMMA GathersMore ==
  ASSUME NEW n \in Nat, NEW ch, Apart(ch, n), NEW m \in 1 .. n - 1, NEW s, Gathers(s, ch, m)
  PROVE  Gathers(s \o ch[m + 1], ch, m + 1)
<1> DEFINE u == ch[m + 1]
           t == s \o u
<1>1. m + 1 \in 1 .. n /\ s \in Seq(Keys) /\ u \in Seq(Keys) /\ Len(s) \in Nat /\ Len(u) \in Nat
  BY DEF Apart, Gathers
<1>2. /\ t \in Seq(Keys) /\ Len(t) = Len(s) + Len(u)
      /\ \A i \in 1 .. Len(s) + Len(u) : t[i] = IF i <= Len(s) THEN s[i] ELSE u[i - Len(s)]
  BY <1>1, ConcatProperties
<1>3. \A i \in 1 .. Len(t) : \/ i \in 1 .. Len(s) /\ t[i] = s[i]
                             \/ i - Len(s) \in 1 .. Len(u) /\ t[i] = u[i - Len(s)]
  BY <1>1, <1>2
<1>4. /\ \A i \in 1 .. Len(s) : i \in 1 .. Len(t) /\ t[i] = s[i]
      /\ \A j \in 1 .. Len(u) : j + Len(s) \in 1 .. Len(t) /\ t[j + Len(s)] = u[j]
  <2>1. ASSUME NEW i \in 1 .. Len(s) PROVE i \in 1 .. Len(t) /\ t[i] = s[i]
    BY <1>1, <1>2
  <2>2. ASSUME NEW j \in 1 .. Len(u) PROVE j + Len(s) \in 1 .. Len(t) /\ t[j + Len(s)] = u[j]
    <3>1. j + Len(s) \in 1 .. Len(s) + Len(u) /\ ~ (j + Len(s) <= Len(s)) /\ (j + Len(s)) - Len(s) = j
      BY <1>1
    <3> HIDE DEF t
    <3>2. QED  BY <1>2, <3>1
  <2>3. QED  BY <2>1, <2>2
<1>5. \A i \in 1 .. Len(s), j \in 1 .. Len(u) : s[i] # u[j]
  <2> SUFFICES ASSUME NEW i \in 1 .. Len(s), NEW j \in 1 .. Len(u), s[i] = u[j] PROVE FALSE
    OBVIOUS
  <2>1. PICK a \in 1 .. m : \E k \in 1 .. Len(ch[a]) : s[i] = ch[a][k]
    BY DEF Gathers
  <2>2. a \in 1 .. n /\ a # m + 1
    BY <1>1
  <2>3. QED  BY <1>1, <2>1, <2>2 DEF Apart
<1>6. \A i, j \in 1 .. Len(u) : u[i] = u[j] => i = j
  BY <1>1 DEF Apart
<1> HIDE DEF t, u
<1>7. ASSUME NEW i \in 1 .. Len(t), NEW j \in 1 .. Len(t), t[i] = t[j] PROVE i = j
  <2>1. CASE i \in 1 .. Len(s) /\ t[i] = s[i]
    <3>1. CASE j \in 1 .. Len(s) /\ t[j] = s[j]
      BY <1>7, <2>1, <3>1 DEF Gathers
    <3>2. CASE j - Len(s) \in 1 .. Len(u) /\ t[j] = u[j - Len(s)]
      BY <1>5, <1>7, <2>1, <3>2
    <3>3. QED  BY <1>3, <3>1, <3>2
  <2>2. CASE i - Len(s) \in 1 .. Len(u) /\ t[i] = u[i - Len(s)]
    <3>1. CASE j \in 1 .. Len(s) /\ t[j] = s[j]
      BY <1>5, <1>7, <2>2, <3>1
    <3>2. CASE j - Len(s) \in 1 .. Len(u) /\ t[j] = u[j - Len(s)]
      <4>1. i - Len(s) = j - Len(s)
        BY <1>6, <1>7, <2>2, <3>2
      <4>2. QED  BY <1>1, <1>2, <4>1
    <3>3. QED  BY <1>3, <3>1, <3>2
  <2>3. QED  BY <1>3, <2>1, <2>2
<1>8. ASSUME NEW i \in 1 .. Len(t)
      PROVE  \E a \in 1 .. m + 1 : \E j \in 1 .. Len(ch[a]) : t[i] = ch[a][j]
  <2>1. CASE i \in 1 .. Len(s) /\ t[i] = s[i]
    <3>1. PICK a \in 1 .. m : \E k \in 1 .. Len(ch[a]) : s[i] = ch[a][k]
      BY <2>1 DEF Gathers
    <3>2. a \in 1 .. m + 1
      OBVIOUS
    <3>3. QED  BY <2>1, <3>1, <3>2
  <2>2. CASE i - Len(s) \in 1 .. Len(u) /\ t[i] = u[i - Len(s)]
    <3>1. m + 1 \in 1 .. m + 1
      OBVIOUS
    <3>2. QED  BY <2>2, <3>1 DEF u
  <2>3. QED  BY <1>3, <2>1, <2>2
<1>9. ASSUME NEW a \in 1 .. m + 1, NEW j \in 1 .. Len(ch[a])
      PROVE  \E i \in 1 .. Len(t) : t[i] = ch[a][j]
  <2>1. CASE a = m + 1
    BY <1>4, <2>1 DEF u
  <2>2. CASE a # m + 1
    <3>1. a \in 1 .. m
      BY <2>2
    <3>2. PICK i \in 1 .. Len(s) : s[i] = ch[a][j]
      BY <3>1 DEF Gathers
    <3>3. QED  BY <1>4, <3>2
  <2>3. QED  BY <2>1, <2>2
<1>10. QED  BY <1>2, <1>7, <1>8, <1>9 DEF Gathers, t, u

\* FlattenSeq gathers them all.
LEMMA FlattenGathers ==
  ASSUME NEW n \in Nat \ {0}, NEW ch, Apart(ch, n)
  PROVE  Gathers(FlattenSeq(ch), ch, n)
<1> DEFINE IsFlat(f) == f = [i \in 1 .. Len(ch) |-> IF i = 1 THEN ch[i] ELSE f[i - 1] \o ch[i]]
           f == CHOOSE g : IsFlat(g)
           V == Seq(Keys)
           h == [i \in 1 .. n - 1 |-> [v \in V |-> v \o ch[i + 1]]]
<1>1. ch \in [1 .. n -> V] /\ ch \in Seq(V) /\ Len(ch) = n /\ 1 \in 1 .. n /\ n - 1 \in Nat
  BY DEF Apart
<1>2. h \in [1 .. n - 1 -> [V -> V]]
  <2>1. ASSUME NEW i \in 1 .. n - 1, NEW v \in V PROVE v \o ch[i + 1] \in V
    <3>1. i + 1 \in 1 .. n
      BY <1>1
    <3>2. ch[i + 1] \in V
      BY <1>1, <3>1
    <3>3. QED  BY <3>2, ConcatProperties
  <2>2. QED  BY <2>1
<1>3. \E g : IsFlat(g)
  <2>1. PICK r : Defined(r, n - 1, V, ch[1], h)
    <3>1. ch[1] \in V
      BY <1>1
    <3> HIDE DEF h, V
    <3>2. QED  BY <1>1, <1>2, <3>1, Recursion
  <2> DEFINE g == [i \in 1 .. n |-> r[i - 1]]
  <2>2. g[1] = ch[1]
    BY <1>1, <2>1 DEF Defined
  <2>3. ASSUME NEW i \in 1 .. n, i # 1 PROVE g[i] = g[i - 1] \o ch[i]
    <3>1. /\ i - 1 \in 1 .. n - 1 /\ i - 1 \in 1 .. n /\ (i - 1) + 1 = i
          /\ (i - 1) - 1 \in 0 .. n - 1
      BY <2>3
    <3>2. g[i] = r[i - 1] /\ g[i - 1] = r[(i - 1) - 1] /\ r[(i - 1) - 1] \in V
      BY <2>1, <3>1 DEF Defined
    <3>3. r[i - 1] = h[i - 1][r[(i - 1) - 1]]
      BY <2>1, <3>1 DEF Defined
    <3>4. h[i - 1][r[(i - 1) - 1]] = r[(i - 1) - 1] \o ch[(i - 1) + 1]
      BY <3>1, <3>2
    <3>5. QED  BY <3>1, <3>2, <3>3, <3>4
  <2>4. g = [i \in 1 .. n |-> g[i]]
    OBVIOUS
  <2> HIDE DEF g
  <2>5. \A i \in 1 .. n : g[i] = IF i = 1 THEN ch[i] ELSE g[i - 1] \o ch[i]
    BY <2>2, <2>3
  <2>6. IsFlat(g)
    BY <1>1, <2>4, <2>5
  <2>7. QED  BY <2>6
<1>4. IsFlat(f)
  <2> HIDE DEF IsFlat
  <2> QED  BY <1>3
<1>5. f[1] = ch[1] /\ \A m \in 1 .. n - 1 : f[m + 1] = f[m] \o ch[m + 1]
  <2> HIDE DEF f
  <2>1. ASSUME NEW m \in 1 .. n - 1 PROVE f[m + 1] = f[m] \o ch[m + 1]
    <3>1. m + 1 \in 1 .. n /\ m + 1 # 1 /\ (m + 1) - 1 = m
      BY <1>1
    <3>2. QED  BY <1>1, <1>4, <3>1
  <2>2. f[1] = ch[1]
    BY <1>1, <1>4
  <2>3. QED  BY <2>1, <2>2
<1>6. FlattenSeq(ch) = f[n]
  BY <1>1 DEF FlattenSeq
<1> HIDE DEF IsFlat, f, h
<1> DEFINE T == {i \in 0 .. n - 1 : Gathers(f[i + 1], ch, i + 1)}
<1>7. 0 \in T
  <2>1. Gathers(ch[1], ch, 1)
    BY <1>1 DEF Gathers, Apart
  <2>2. QED  BY <1>1, <1>5, <2>1
<1>8. ASSUME NEW i \in 0 .. (n - 1) - 1, i \in T PROVE i + 1 \in T
  <2>1. i + 1 \in 1 .. n - 1 /\ i + 1 \in 0 .. n - 1
    BY <1>1
  <2>2. Gathers(f[i + 1] \o ch[(i + 1) + 1], ch, (i + 1) + 1)
    BY <1>1, <1>8, <2>1, GathersMore
  <2>3. QED  BY <1>5, <2>1, <2>2
<1>9. n - 1 \in T
  <2> HIDE DEF T
  <2>1. \A i \in 0 .. n - 1 : i \in T
    BY <1>1, <1>7, <1>8, UpTo
  <2>2. QED  BY <1>1, <2>1
<1>10. (n - 1) + 1 = n
  OBVIOUS
<1>11. QED  BY <1>6, <1>9, <1>10

-----------------------------------------------------------------------------
(* The buckets. *)

Ends    == Keys \cup {NULL}
LinkSet == UNION {[D -> Ends] : D \in SUBSET Keys}
Tables(lg) == [bkts : [Bkts(lg) -> [first : Ends, count : Nat, mult : Nat]],
               next : LinkSet, prev : LinkSet]

\* The elements D are in the chains ch of the table c, each in its bucket.
HasChains(c, lg, D, ch) ==
  /\ c \in Tables(lg) /\ DOMAIN c.next = D /\ DOMAIN c.prev = D
  /\ ch \in [Bkts(lg) -> Seq(Keys)]
  /\ \A b \in Bkts(lg) :
       /\ TwoWay(ch[b], c.bkts[b].first, c.next, c.prev)
       /\ c.bkts[b].count = Len(ch[b])
       /\ \A i \in 1 .. Len(ch[b]) : ToBkt(ch[b][i], lg) = b
  /\ \A k \in D : ToBkt(k, lg) \in Bkts(lg) /\ \E i \in 1 .. Len(ch[ToBkt(k, lg)]) : ch[ToBkt(k, lg)][i] = k
IsTable(c, lg, D) == \E ch : HasChains(c, lg, D, ch)

\* The links are functions on some elements.
LEMMA LinksType ==
  ASSUME NEW l
  PROVE  l \in LinkSet <=> /\ DOMAIN l \subseteq Keys /\ l = [k \in DOMAIN l |-> l[k]]
                           /\ \A k \in DOMAIN l : l[k] \in Ends
<1>1. ASSUME l \in LinkSet PROVE \E D \in SUBSET Keys : l \in [D -> Ends]
  BY <1>1, Zenon DEF LinkSet
<1>2. ASSUME DOMAIN l \subseteq Keys, l = [k \in DOMAIN l |-> l[k]], \A k \in DOMAIN l : l[k] \in Ends
      PROVE  l \in LinkSet
  <2>1. l \in [DOMAIN l -> Ends] /\ DOMAIN l \in SUBSET Keys
    BY <1>2
  <2>2. QED  BY <2>1, Zenon DEF LinkSet
<1>3. QED  BY <1>1, <1>2

\* Links stay links.
LEMMA SetType ==
  ASSUME NEW l \in LinkSet, NEW e \in Ends, NEW v \in Ends
  PROVE  /\ Set(l, e, v) \in LinkSet
         /\ DOMAIN Set(l, e, v) = IF e = NULL THEN DOMAIN l ELSE DOMAIN l \cup {e}
<1>1. CASE e = NULL
  BY <1>1 DEF Set
<1>2. CASE e # NULL
  <2> DEFINE m == [k \in DOMAIN l \cup {e} |-> IF k = e THEN v ELSE l[k]]
  <2>1. DOMAIN l \subseteq Keys /\ \A k \in DOMAIN l : l[k] \in Ends
    BY LinksType, Zenon
  <2>2. DOMAIN m \subseteq Keys /\ m = [k \in DOMAIN m |-> m[k]] /\ \A k \in DOMAIN m : m[k] \in Ends
    BY <1>2, <2>1 DEF Ends
  <2>3. Set(l, e, v) = m /\ DOMAIN m = DOMAIN l \cup {e}
    BY <1>2 DEF Set
  <2>4. m \in LinkSet
    <3> HIDE DEF m
    <3> QED  BY <2>2, LinksType
  <2> HIDE DEF m
  <2>5. QED  BY <1>2, <2>3, <2>4
<1>3. QED  BY <1>1, <1>2

\* Also when an element leaves them.
LEMMA UnsetType ==
  ASSUME NEW l \in LinkSet, NEW e
  PROVE  Unset(l, e) \in LinkSet /\ DOMAIN Unset(l, e) = DOMAIN l \ {e}
<1> DEFINE m == [k \in DOMAIN l \ {e} |-> l[k]]
<1>1. DOMAIN l \subseteq Keys /\ \A k \in DOMAIN l : l[k] \in Ends
  BY LinksType, Zenon
<1>2. DOMAIN m \subseteq Keys /\ m = [k \in DOMAIN m |-> m[k]] /\ \A k \in DOMAIN m : m[k] \in Ends
  BY <1>1
<1>3. m \in LinkSet
  <2> HIDE DEF m
  <2> QED  BY <1>2, LinksType
<1>4. QED  BY <1>3 DEF Unset

\* Walk finds the chains.
LEMMA ChainIs ==
  ASSUME NEW c, NEW lg, NEW D, NEW ch, HasChains(c, lg, D, ch), NEW b \in Bkts(lg)
  PROVE  Chain(c, b) = ch[b]
<1>1. IsList(ch[b], c.bkts[b].first, c.next)
  BY DEF HasChains, TwoWay
<1>2. DOMAIN c.next \subseteq Keys
  <2>1. c.next \in LinkSet
    BY DEF HasChains, Tables
  <2>2. QED  BY <2>1, LinksType, Zenon
<1>3. QED  BY <1>1, <1>2, WalkIs DEF Chain

\* A new table has no element.
LEMMA EmptyTable ==
  ASSUME NEW lg \in 0 .. MaxLog2
  PROVE  HasChains(Empty(lg), lg, {}, [b \in Bkts(lg) |-> << >>])
<1> DEFINE c == Empty(lg)
<1>1. NoLinks \in LinkSet /\ DOMAIN NoLinks = {}
  <2>1. DOMAIN NoLinks = {} /\ NoLinks = [k \in DOMAIN NoLinks |-> NoLinks[k]]
    BY DEF NoLinks
  <2>2. QED  BY <2>1, LinksType
<1>2. /\ c.bkts = [b \in Bkts(lg) |-> [first |-> NULL, count |-> 0, mult |-> 0]]
      /\ c.next = NoLinks /\ c.prev = NoLinks
      /\ c = [bkts |-> c.bkts, next |-> c.next, prev |-> c.prev]
  BY DEF Empty, Bkts
<1>3. NULL \in Ends
  BY DEF Ends
<1> HIDE DEF c
<1>4. c \in Tables(lg)
  <2>1. c.bkts \in [Bkts(lg) -> [first : Ends, count : Nat, mult : Nat]]
    BY <1>2, <1>3
  <2>2. QED  BY <1>1, <1>2, <2>1 DEF Tables
<1>5. \A f, g : TwoWay(<< >>, NULL, f, g)
  BY DEF TwoWay, IsList, IsBack
<1>6. QED  BY <1>1, <1>2, <1>4, <1>5 DEF HasChains, c

\* A bucket that an element is put in front of.
LEMMA PushType ==
  ASSUME NEW lg, NEW c \in Tables(lg), NEW b \in Bkts(lg), NEW e \in Keys
  PROVE  LET d == PushFront(c, b, e) IN
         /\ d \in Tables(lg)
         /\ d.bkts[b].first = e /\ d.bkts[b].count = c.bkts[b].count + 1
         /\ \A x \in Bkts(lg) : x # b => d.bkts[x] = c.bkts[x]
         /\ d.next = Set(c.next, e, c.bkts[b].first)
         /\ d.prev = Set(Set(c.prev, c.bkts[b].first, e), e, NULL)
<1> DEFINE d == PushFront(c, b, e)
           Rec == [first : Ends, count : Nat, mult : Nat]
           w == [c.bkts EXCEPT ![b].first = e, ![b].count = @ + 1]
<1>1. c.bkts \in [Bkts(lg) -> Rec] /\ c.next \in LinkSet /\ c.prev \in LinkSet
  BY DEF Tables
<1>2. e \in Ends /\ NULL \in Ends /\ c.bkts[b] \in Rec /\ c.bkts[b].first \in Ends
  BY <1>1 DEF Ends
<1>3. /\ w \in [Bkts(lg) -> Rec] /\ w[b].first = e /\ w[b].count = c.bkts[b].count + 1
      /\ \A x \in Bkts(lg) : x # b => w[x] = c.bkts[x]
  BY <1>1, <1>2
<1>4. /\ d.bkts = w /\ d.next = Set(c.next, e, c.bkts[b].first)
      /\ d.prev = Set(Set(c.prev, c.bkts[b].first, e), e, NULL)
      /\ d = [bkts |-> d.bkts, next |-> d.next, prev |-> d.prev]
  BY DEF PushFront
<1>5. d.next \in LinkSet
  BY <1>1, <1>2, <1>4, SetType
<1>6. d.prev \in LinkSet
  <2> DEFINE l == Set(c.prev, c.bkts[b].first, e)
  <2>1. l \in LinkSet
    BY <1>1, <1>2, SetType
  <2>2. d.prev = Set(l, e, NULL)
    BY <1>4
  <2>3. e \in Ends /\ NULL \in Ends
    BY <1>2
  <2> HIDE DEF l, d
  <2>4. Set(l, e, NULL) \in LinkSet
    BY <2>1, <2>3, SetType
  <2>5. QED  BY <2>2, <2>4
<1> HIDE DEF d, w
<1>7. d \in Tables(lg)
  BY <1>3, <1>4, <1>5, <1>6 DEF Tables
<1>8. QED  BY <1>3, <1>4, <1>7 DEF d

\* The elements of one chain are not in another.
LEMMA ChainsApart ==
  ASSUME NEW c, NEW lg, NEW D, NEW ch, HasChains(c, lg, D, ch),
         NEW a \in Bkts(lg), NEW b \in Bkts(lg),
         NEW i \in 1 .. Len(ch[a]), NEW j \in 1 .. Len(ch[b]), ch[a][i] = ch[b][j]
  PROVE  a = b /\ i = j
BY DEF HasChains, TwoWay, IsList

\* HASH_ADD_TO_BKT and the inner step of HASH_EXPAND_BUCKETS: the element is
\* in its chain then, and the other chains are as they were.
LEMMA PushTable ==
  ASSUME NEW c, NEW lg, NEW D, NEW ch, HasChains(c, lg, D, ch),
         NEW e \in Keys, e \notin D, ToBkt(e, lg) \in Bkts(lg)
  PROVE  HasChains(PushFront(c, ToBkt(e, lg), e), lg, D \cup {e},
                   [ch EXCEPT ![ToBkt(e, lg)] = <<e>> \o @])
<1> DEFINE b == ToBkt(e, lg)
           d == PushFront(c, b, e)
           f == c.bkts[b].first
           s == ch[b]
           t == <<e>> \o s
           dh == [ch EXCEPT ![b] = t]
<1>1. /\ c \in Tables(lg) /\ DOMAIN c.next = D /\ DOMAIN c.prev = D /\ b \in Bkts(lg)
      /\ ch \in [Bkts(lg) -> Seq(Keys)] /\ s \in Seq(Keys) /\ Len(s) \in Nat
      /\ \A x \in Bkts(lg) : /\ TwoWay(ch[x], c.bkts[x].first, c.next, c.prev)
                             /\ c.bkts[x].count = Len(ch[x])
                             /\ \A i \in 1 .. Len(ch[x]) : ToBkt(ch[x][i], lg) = x
      /\ \A k \in D : ToBkt(k, lg) \in Bkts(lg)
                      /\ \E i \in 1 .. Len(ch[ToBkt(k, lg)]) : ch[ToBkt(k, lg)][i] = k
  BY DEF HasChains
<1>2. /\ d \in Tables(lg)
      /\ d.bkts[b].first = e /\ d.bkts[b].count = c.bkts[b].count + 1
      /\ \A x \in Bkts(lg) : x # b => d.bkts[x] = c.bkts[x]
      /\ d.next = Set(c.next, e, f) /\ d.prev = Set(Set(c.prev, f, e), e, NULL)
  <2> HIDE DEF b
  <2>1. b \in Bkts(lg) /\ c \in Tables(lg)
    BY <1>1
  <2>2. QED  BY <2>1, PushType
<1>3. \A x \in Bkts(lg) : \A i \in 1 .. Len(ch[x]) :
        ch[x][i] \in Keys /\ ch[x][i] # e /\ ch[x][i] # NULL /\ ch[x][i] \in D
  <2> SUFFICES ASSUME NEW x \in Bkts(lg), NEW i \in 1 .. Len(ch[x])
               PROVE  ch[x][i] \in Keys /\ ch[x][i] # e /\ ch[x][i] # NULL /\ ch[x][i] \in D
    OBVIOUS
  <2>1. ch[x] \in Seq(Keys) /\ TwoWay(ch[x], c.bkts[x].first, c.next, c.prev)
    BY <1>1
  <2>2. ch[x][i] \in D
    BY <1>1, <2>1 DEF TwoWay, IsList
  <2>3. QED  BY <2>1, <2>2, UtHashAssumption
<1>4. f = (IF s = << >> THEN NULL ELSE s[1]) /\ (s # << >> => 1 \in 1 .. Len(s))
  BY <1>1, EmptySeq DEF TwoWay, IsList
<1>5. e \in Keys /\ e # NULL /\ (f = NULL \/ f \in D) /\ f # e
  BY <1>1, <1>3, <1>4, UtHashAssumption
<1>6. /\ DOMAIN d.next = D \cup {e} /\ \A k \in D : d.next[k] = c.next[k]
      /\ DOMAIN d.prev = D \cup {e} /\ \A k \in D : k # f => d.prev[k] = c.prev[k]
  <2>1. d.next = [k \in D \cup {e} |-> IF k = e THEN f ELSE c.next[k]]
    BY <1>1, <1>2, <1>5 DEF Set
  <2>2. d.prev = [k \in D \cup {e} |-> IF k = e THEN NULL ELSE IF k = f THEN e ELSE c.prev[k]]
    <3>1. CASE f = NULL
      <4>1. d.prev = [k \in D \cup {e} |-> IF k = e THEN NULL ELSE c.prev[k]]
        BY <1>1, <1>2, <1>5, <3>1 DEF Set
      <4>2. \A k \in D : k # f
        BY <1>1, <3>1, UtHashAssumption, LinksType DEF Tables
      <4>3. \A k \in D \cup {e} : (IF k = e THEN NULL ELSE c.prev[k])
                                  = IF k = e THEN NULL ELSE IF k = f THEN e ELSE c.prev[k]
        BY <4>2
      <4>4. QED  BY <4>1, <4>3
    <3>2. CASE f # NULL
      <4> DEFINE l == [k \in D \cup {f} |-> IF k = f THEN e ELSE c.prev[k]]
      <4>1. Set(c.prev, f, e) = l /\ DOMAIN l = D /\ \A k \in D : l[k] = IF k = f THEN e ELSE c.prev[k]
        BY <1>1, <1>5, <3>2 DEF Set
      <4> HIDE DEF l
      <4>2. d.prev = [k \in D \cup {e} |-> IF k = e THEN NULL ELSE l[k]]
        BY <1>2, <1>5, <4>1 DEF Set
      <4>3. \A k \in D \cup {e} : (IF k = e THEN NULL ELSE l[k])
                                  = IF k = e THEN NULL ELSE IF k = f THEN e ELSE c.prev[k]
        BY <4>1
      <4>4. QED  BY <4>2, <4>3
    <3>3. QED  BY <3>1, <3>2
  <2> HIDE DEF d, f
  <2>3. QED  BY <1>5, <2>1, <2>2
<1>7. t \in Seq(Keys) /\ Len(t) = Len(s) + 1 /\ t[1] = e /\ \A i \in 1 .. Len(s) : t[i + 1] = s[i]
  <2>1. <<e>> \in Seq(Keys) /\ Len(<<e>>) = 1 /\ <<e>>[1] = e
    OBVIOUS
  <2>2. /\ t \in Seq(Keys) /\ Len(t) = 1 + Len(s)
        /\ \A i \in 1 .. 1 + Len(s) : t[i] = IF i <= 1 THEN <<e>>[i] ELSE s[i - 1]
    BY <1>1, <2>1, ConcatProperties
  <2>3. \A i \in 1 .. Len(s) : i + 1 \in 1 .. 1 + Len(s) /\ ~ (i + 1 <= 1) /\ (i + 1) - 1 = i
    BY <1>1
  <2> HIDE DEF t, s
  <2>4. QED  BY <1>1, <2>1, <2>2, <2>3
<1>8. dh \in [Bkts(lg) -> Seq(Keys)] /\ dh[b] = t /\ \A x \in Bkts(lg) : x # b => dh[x] = ch[x]
  BY <1>1, <1>7
<1>9. TwoWay(t, e, d.next, d.prev)
  <2>1. TwoWay(s, f, c.next, c.prev) /\ \A i \in 1 .. Len(s) : s[i] # e
    BY <1>1, <1>3
  <2> HIDE DEF b, s, f, d
  <2>2. QED  BY <1>2, <2>1, PushList DEF s
<1>10. ASSUME NEW x \in Bkts(lg), x # b PROVE TwoWay(ch[x], c.bkts[x].first, d.next, d.prev)
  <2>1. \A i \in 1 .. Len(ch[x]) : ch[x][i] \in D /\ ch[x][i] # f
    <3> SUFFICES ASSUME NEW i \in 1 .. Len(ch[x]), ch[x][i] = f PROVE FALSE
      BY <1>3
    <3>1. s # << >> /\ f = s[1] /\ 1 \in 1 .. Len(s)
      BY <1>3, <1>4
    <3>2. ToBkt(ch[x][i], lg) = x /\ ToBkt(s[1], lg) = b
      BY <1>1, <3>1
    <3>3. QED  BY <1>10, <3>1, <3>2
  <2>2. \A i \in 1 .. Len(ch[x]) : /\ ch[x][i] \in DOMAIN d.next /\ d.next[ch[x][i]] = c.next[ch[x][i]]
                                   /\ ch[x][i] \in DOMAIN d.prev /\ d.prev[ch[x][i]] = c.prev[ch[x][i]]
    BY <1>6, <2>1
  <2>3. TwoWay(ch[x], c.bkts[x].first, c.next, c.prev)
    BY <1>1
  <2> HIDE DEF d, b
  <2>4. QED  BY <2>2, <2>3, SameList
<1> HIDE DEF d, dh, t
<1>11. ASSUME NEW x \in Bkts(lg)
       PROVE  /\ TwoWay(dh[x], d.bkts[x].first, d.next, d.prev)
              /\ d.bkts[x].count = Len(dh[x])
              /\ \A i \in 1 .. Len(dh[x]) : ToBkt(dh[x][i], lg) = x
  <2>1. CASE x # b
    <3>1. dh[x] = ch[x] /\ d.bkts[x] = c.bkts[x]
      BY <1>2, <1>8, <2>1
    <3>2. TwoWay(ch[x], c.bkts[x].first, d.next, d.prev)
      BY <1>10, <2>1
    <3>3. c.bkts[x].count = Len(ch[x]) /\ \A i \in 1 .. Len(ch[x]) : ToBkt(ch[x][i], lg) = x
      BY <1>1
    <3>4. QED  BY <3>1, <3>2, <3>3
  <2>2. CASE x = b
    <3>1. \A i \in 1 .. Len(t) : i = 1 \/ (i - 1 \in 1 .. Len(s) /\ t[(i - 1) + 1] = s[i - 1] /\ (i - 1) + 1 = i)
      BY <1>1, <1>7
    <3>2. \A i \in 1 .. Len(t) : ToBkt(t[i], lg) = b
      <4> SUFFICES ASSUME NEW i \in 1 .. Len(t) PROVE ToBkt(t[i], lg) = b
        OBVIOUS
      <4>1. CASE i = 1
        BY <1>7, <4>1
      <4>2. CASE i # 1
        <5>1. i - 1 \in 1 .. Len(s) /\ t[i] = s[i - 1]
          BY <3>1, <4>2
        <5>2. ToBkt(s[i - 1], lg) = b
          BY <1>1, <5>1
        <5>3. QED  BY <5>1, <5>2
      <4>3. QED  BY <4>1, <4>2
    <3>3. d.bkts[b].count = Len(t)
      BY <1>1, <1>2, <1>7
    <3>4. QED  BY <1>2, <1>8, <1>9, <2>2, <3>2, <3>3
  <2>3. QED  BY <2>1, <2>2
<1>12. ASSUME NEW k \in D \cup {e}
       PROVE  ToBkt(k, lg) \in Bkts(lg) /\ \E i \in 1 .. Len(dh[ToBkt(k, lg)]) : dh[ToBkt(k, lg)][i] = k
  <2>1. CASE k = e
    <3>1. 1 \in 1 .. Len(t)
      BY <1>1, <1>7
    <3>2. QED  BY <1>1, <1>7, <1>8, <2>1, <3>1
  <2>2. CASE k # e
    <3>1. PICK i \in 1 .. Len(ch[ToBkt(k, lg)]) : ch[ToBkt(k, lg)][i] = k
      BY <1>1, <2>2
    <3>2. CASE ToBkt(k, lg) # b
      BY <1>1, <1>8, <2>2, <3>1, <3>2
    <3>3. CASE ToBkt(k, lg) = b
      <4>1. i + 1 \in 1 .. Len(t) /\ t[i + 1] = k
        BY <1>1, <1>7, <3>1, <3>3
      <4>2. QED  BY <1>1, <1>8, <3>3, <4>1
    <3>4. QED  BY <3>2, <3>3
  <2>3. QED  BY <2>1, <2>2
<1>13. HasChains(d, lg, D \cup {e}, dh)
  BY <1>2, <1>6, <1>8, <1>11, <1>12 DEF HasChains
<1>14. QED  BY <1>13 DEF d, dh, t

\* u are the links l without e and with another link for p.
Relinked(u, l, e, p) ==
  /\ u \in LinkSet /\ DOMAIN u = DOMAIN l \ {e}
  /\ \A k \in DOMAIN l : k # e /\ k # p => u[k] = l[k]

\* The links when an element has left them.
LEMMA UnlinkedLinks ==
  ASSUME NEW l \in LinkSet, NEW e \in DOMAIN l, NEW p \in {NULL} \cup DOMAIN l, NEW q \in Ends
  PROVE  Relinked(Unset(Set(l, p, q), e), l, e, p)
<1> DEFINE m == Set(l, p, q)
<1>1. DOMAIN l \subseteq Keys /\ p \in Ends
  BY LinksType DEF Ends
<1>2. m \in LinkSet /\ DOMAIN m = DOMAIN l
  <2>1. m \in LinkSet /\ DOMAIN m = IF p = NULL THEN DOMAIN l ELSE DOMAIN l \cup {p}
    BY <1>1, SetType
  <2> HIDE DEF m
  <2>2. QED  BY <2>1
<1>3. \A k \in DOMAIN l : k # p => m[k] = l[k]
  <2>1. CASE p = NULL
    BY <2>1 DEF Set
  <2>2. CASE p # NULL
    BY <2>2 DEF Set
  <2>3. QED  BY <2>1, <2>2
<1> HIDE DEF m
<1>4. Unset(m, e) \in LinkSet /\ DOMAIN Unset(m, e) = DOMAIN l \ {e}
  BY <1>2, UnsetType
<1>5. \A k \in DOMAIN l : k # e /\ k # p => Unset(m, e)[k] = l[k]
  BY <1>2, <1>3 DEF Unset
<1>6. QED  BY <1>4, <1>5 DEF m, Relinked

\* w are the buckets k but for the count and the first element of b.
Rebucketed(w, k, B, b, n, z) ==
  /\ w \in [B -> [first : Ends, count : Nat, mult : Nat]]
  /\ w[b].count = n /\ w[b].first = z
  /\ \A x \in B : x # b => w[x] = k[x]

\* A bucket that gets another count and another first element.
LEMMA NewBkt ==
  ASSUME NEW B, NEW k \in [B -> [first : Ends, count : Nat, mult : Nat]], NEW b \in B,
         NEW n \in Nat, NEW z \in Ends
  PROVE  Rebucketed([k EXCEPT ![b].count = n, ![b].first = z], k, B, b, n, z)
BY DEF Rebucketed

\* HASH_DEL_IN_BKT: the element leaves its chain, and the other chains stay.
LEMMA DelTable ==
  ASSUME NEW c, NEW lg, NEW D, NEW ch, HasChains(c, lg, D, ch), NEW e \in D
  PROVE  IsTable(DelInBkt(c, ToBkt(e, lg), e), lg, D \ {e})
<1> DEFINE b == ToBkt(e, lg)
           d == DelInBkt(c, b, e)
           f == c.bkts[b].first
           s == ch[b]
           p == c.prev[e]
           q == c.next[e]
           Rec == [first : Ends, count : Nat, mult : Nat]
<1>1. /\ c \in Tables(lg) /\ DOMAIN c.next = D /\ DOMAIN c.prev = D /\ b \in Bkts(lg)
      /\ ch \in [Bkts(lg) -> Seq(Keys)] /\ s \in Seq(Keys) /\ Len(s) \in Nat
      /\ \A x \in Bkts(lg) : /\ TwoWay(ch[x], c.bkts[x].first, c.next, c.prev)
                             /\ c.bkts[x].count = Len(ch[x])
                             /\ \A i \in 1 .. Len(ch[x]) : ToBkt(ch[x][i], lg) = x
      /\ \A k \in D : ToBkt(k, lg) \in Bkts(lg)
                      /\ \E i \in 1 .. Len(ch[ToBkt(k, lg)]) : ch[ToBkt(k, lg)][i] = k
  BY DEF HasChains
<1>2. PICK i \in 1 .. Len(s) : s[i] = e
  BY <1>1
<1> DEFINE t == RemoveAt(s, i)
           dh == [ch EXCEPT ![b] = t]
<1>3. /\ p = (IF i = 1 THEN NULL ELSE s[i - 1]) /\ q = (IF i = Len(s) THEN NULL ELSE s[i + 1])
      /\ \A j, k \in 1 .. Len(s) : s[j] = s[k] => j = k
      /\ \A j \in 1 .. Len(s) : s[j] \in D
  <2>1. TwoWay(s, f, c.next, c.prev)
    BY <1>1
  <2>2. QED  BY <1>1, <1>2, <2>1 DEF TwoWay, IsList, IsBack
<1>4. /\ p = NULL \/ \E j \in 1 .. Len(s) : p = s[j] /\ p # e
      /\ q = NULL \/ \E j \in 1 .. Len(s) : q = s[j] /\ q # e
  <2>1. i # 1 => i - 1 \in 1 .. Len(s) /\ i - 1 # i
    BY <1>1
  <2>2. i # Len(s) => i + 1 \in 1 .. Len(s) /\ i + 1 # i
    BY <1>1
  <2> HIDE DEF s, p, q
  <2>3. QED  BY <1>2, <1>3, <2>1, <2>2
<1>5. D \subseteq Keys /\ c.next \in LinkSet /\ c.prev \in LinkSet /\ c.bkts \in [Bkts(lg) -> Rec]
      /\ c.bkts[b].count = Len(s) /\ f \in Ends
  <2>1. c.next \in LinkSet /\ c.prev \in LinkSet /\ c.bkts \in [Bkts(lg) -> Rec]
    BY <1>1 DEF Tables
  <2>2. QED  BY <1>1, <2>1, LinksType
<1>6. p \in {NULL} \cup D /\ q \in {NULL} \cup D /\ p \in Ends /\ q \in Ends
  BY <1>3, <1>4, <1>5 DEF Ends
<1> DEFINE w == [c.bkts EXCEPT ![b].count = @ - 1, ![b].first = IF @ = e THEN c.next[e] ELSE @]
<1>7. /\ d.bkts = w
      /\ d.next = Unset(Set(c.next, p, q), e) /\ d.prev = Unset(Set(c.prev, q, p), e)
      /\ d = [bkts |-> d.bkts, next |-> d.next, prev |-> d.prev]
  BY DEF DelInBkt
<1>8. /\ w \in [Bkts(lg) -> Rec] /\ w[b].count = Len(s) - 1
      /\ w[b].first = IF f = e THEN q ELSE f
      /\ \A x \in Bkts(lg) : x # b => w[x] = c.bkts[x]
  <2>1. c.bkts[b].count - 1 \in Nat
    BY <1>1, <1>5
  <2>2. (IF f = e THEN q ELSE f) \in Ends
    BY <1>5, <1>6
  <2> DEFINE n == Len(s) - 1
             z == IF f = e THEN q ELSE f
             v == [c.bkts EXCEPT ![b].count = n, ![b].first = z]
  <2>3. w = v
    <3>1. n = c.bkts[b].count - 1 /\ z = IF c.bkts[b].first = e THEN c.next[e] ELSE c.bkts[b].first
      BY <1>5
    <3> HIDE DEF n, z
    <3>2. QED  BY <3>1
  <2>4. n \in Nat /\ z \in Ends
    BY <1>5, <2>1, <2>2
  <2>5. Rebucketed(v, c.bkts, Bkts(lg), b, n, z)
    <3>1. c.bkts \in [Bkts(lg) -> Rec] /\ b \in Bkts(lg)
      BY <1>1, <1>5
    <3> HIDE DEF n, z, b
    <3>2. QED  BY <2>4, <3>1, NewBkt
  <2> HIDE DEF w, v
  <2>6. QED  BY <2>3, <2>5 DEF Rebucketed
<1>9. /\ d.next \in LinkSet /\ DOMAIN d.next = D \ {e}
      /\ \A k \in D : k # e /\ k # p => d.next[k] = c.next[k]
  <2> DEFINE l == c.next
             u == Unset(Set(l, p, q), e)
  <2>1. l \in LinkSet /\ e \in DOMAIN l /\ p \in {NULL} \cup DOMAIN l /\ q \in Ends
    BY <1>1, <1>5, <1>6
  <2> HIDE DEF p, q, d, l
  <2>2. Relinked(u, l, e, p)
    BY <2>1, UnlinkedLinks
  <2>3. d.next = u /\ DOMAIN l = D
    BY <1>1, <1>7 DEF l
  <2> HIDE DEF u
  <2>4. QED  BY <2>2, <2>3 DEF l, Relinked
<1>10. /\ d.prev \in LinkSet /\ DOMAIN d.prev = D \ {e}
       /\ \A k \in D : k # e /\ k # q => d.prev[k] = c.prev[k]
  <2> DEFINE l == c.prev
             u == Unset(Set(l, q, p), e)
  <2>1. l \in LinkSet /\ e \in DOMAIN l /\ q \in {NULL} \cup DOMAIN l /\ p \in Ends
    BY <1>1, <1>5, <1>6
  <2> HIDE DEF p, q, d, l
  <2>2. Relinked(u, l, e, q)
    BY <2>1, UnlinkedLinks
  <2>3. d.prev = u /\ DOMAIN l = D
    BY <1>1, <1>7 DEF l
  <2> HIDE DEF u
  <2>4. QED  BY <2>2, <2>3 DEF l, Relinked
<1>11. TwoWay(t, d.bkts[b].first, d.next, d.prev)
  <2>1. TwoWay(s, f, c.next, c.prev) /\ e = s[i]
    BY <1>1, <1>2
  <2> HIDE DEF s, f, b
  <2>2. TwoWay(RemoveAt(s, i), IF f = e THEN c.next[e] ELSE f,
               Unset(Set(c.next, c.prev[e], c.next[e]), e), Unset(Set(c.prev, c.next[e], c.prev[e]), e))
    BY <2>1, RemoveList
  <2> HIDE DEF d, w
  <2>3. QED  BY <1>7, <1>8, <2>2
<1>12. t \in Seq(Keys) /\ Len(t) = Len(s) - 1 /\ \A j \in 1 .. Len(s) - 1 : t[j] = IF j < i THEN s[j] ELSE s[j + 1]
  <2> HIDE DEF s
  <2> QED  BY <1>1, RemoveAtIs
<1> HIDE DEF d, w, t
<1>13. dh \in [Bkts(lg) -> Seq(Keys)] /\ dh[b] = t /\ \A x \in Bkts(lg) : x # b => dh[x] = ch[x]
  BY <1>1, <1>12
<1>14. ASSUME NEW x \in Bkts(lg), x # b PROVE TwoWay(ch[x], c.bkts[x].first, d.next, d.prev)
  <2>1. TwoWay(ch[x], c.bkts[x].first, c.next, c.prev)
    BY <1>1
  <2>2. \A j \in 1 .. Len(ch[x]) : ch[x][j] \in D /\ ch[x][j] # e /\ ch[x][j] # p /\ ch[x][j] # q
    <3> SUFFICES ASSUME NEW j \in 1 .. Len(ch[x])
                 PROVE  ch[x][j] \in D /\ ch[x][j] # e /\ ch[x][j] # p /\ ch[x][j] # q
      OBVIOUS
    <3>1. ch[x][j] \in D
      BY <1>1, <2>1 DEF TwoWay, IsList
    <3>2. ch[x][j] # NULL
      BY <1>5, <3>1, UtHashAssumption
    <3>3. \A k \in 1 .. Len(s) : ch[x][j] # s[k]
      <4> SUFFICES ASSUME NEW k \in 1 .. Len(s), ch[x][j] = s[k] PROVE FALSE
        OBVIOUS
      <4>1. ToBkt(ch[x][j], lg) = x /\ ToBkt(s[k], lg) = b
        BY <1>1
      <4>2. QED  BY <1>14, <4>1
    <3> HIDE DEF p, q, s, b
    <3>4. QED  BY <1>2, <1>4, <3>1, <3>2, <3>3
  <2>3. \A j \in 1 .. Len(ch[x]) : /\ ch[x][j] \in DOMAIN d.next /\ d.next[ch[x][j]] = c.next[ch[x][j]]
                                   /\ ch[x][j] \in DOMAIN d.prev /\ d.prev[ch[x][j]] = c.prev[ch[x][j]]
    <3> HIDE DEF p, q
    <3> QED  BY <1>9, <1>10, <2>2
  <2>4. QED  BY <2>1, <2>3, SameList
<1> HIDE DEF dh
<1>15. ASSUME NEW x \in Bkts(lg)
       PROVE  /\ TwoWay(dh[x], d.bkts[x].first, d.next, d.prev)
              /\ d.bkts[x].count = Len(dh[x])
              /\ \A j \in 1 .. Len(dh[x]) : ToBkt(dh[x][j], lg) = x
  <2>1. CASE x # b
    <3>1. dh[x] = ch[x] /\ d.bkts[x] = c.bkts[x]
      BY <1>7, <1>8, <1>13, <2>1
    <3>2. TwoWay(ch[x], c.bkts[x].first, d.next, d.prev)
      BY <1>14, <2>1
    <3>3. c.bkts[x].count = Len(ch[x]) /\ \A j \in 1 .. Len(ch[x]) : ToBkt(ch[x][j], lg) = x
      BY <1>1
    <3>4. QED  BY <3>1, <3>2, <3>3
  <2>2. CASE x = b
    <3>1. ASSUME NEW j \in 1 .. Len(t) PROVE ToBkt(t[j], lg) = b
      <4>1. \E k \in 1 .. Len(s) : t[j] = s[k]
        <5>1. j \in 1 .. Len(s) /\ j + 1 \in 1 .. Len(s) /\ j \in 1 .. Len(s) - 1
          BY <1>1, <1>12
        <5>2. QED  BY <1>12, <5>1
      <4>2. QED  BY <1>1, <4>1
    <3>2. d.bkts[b].count = Len(t)
      BY <1>7, <1>8, <1>12
    <3>3. QED  BY <1>11, <1>13, <2>2, <3>1, <3>2
  <2>3. QED  BY <2>1, <2>2
<1>16. ASSUME NEW k \in D \ {e}
       PROVE  ToBkt(k, lg) \in Bkts(lg) /\ \E j \in 1 .. Len(dh[ToBkt(k, lg)]) : dh[ToBkt(k, lg)][j] = k
  <2>1. PICK j \in 1 .. Len(ch[ToBkt(k, lg)]) : ch[ToBkt(k, lg)][j] = k
    BY <1>1
  <2>2. CASE ToBkt(k, lg) # b
    BY <1>1, <1>13, <2>1, <2>2
  <2>3. CASE ToBkt(k, lg) = b
    <3>1. j \in 1 .. Len(s) /\ s[j] = k /\ j # i
      BY <1>2, <2>1, <2>3
    <3>2. \E x \in 1 .. Len(t) : t[x] = s[j]
      <4>1. CASE j < i
        <5>1. j \in 1 .. Len(t)
          BY <1>1, <1>12, <3>1, <4>1
        <5>2. QED  BY <1>12, <4>1, <5>1
      <4>2. CASE j > i
        <5>1. j - 1 \in 1 .. Len(t) /\ ~ (j - 1 < i) /\ (j - 1) + 1 = j
          BY <1>1, <1>12, <3>1, <4>2
        <5>2. QED  BY <1>12, <5>1
      <4>3. j < i \/ j > i
        BY <1>1, <3>1
      <4>4. QED  BY <4>1, <4>2, <4>3
    <3>3. QED  BY <1>1, <1>13, <2>3, <3>1, <3>2
  <2>4. QED  BY <2>2, <2>3
<1>17. d \in Tables(lg)
  BY <1>7, <1>8, <1>9, <1>10 DEF Tables
<1>18. HasChains(d, lg, D \ {e}, dh)
  BY <1>9, <1>10, <1>13, <1>15, <1>16, <1>17 DEF HasChains
<1>19. QED  BY <1>18 DEF IsTable, d

-----------------------------------------------------------------------------
(* HASH_EXPAND_BUCKETS. *)

\* There is an ideal length of the chains as soon as there is an element.
LEMMA IdealPositive ==
  ASSUME NEW n \in Nat \ {0}, NEW lg \in 0 .. MaxLog2
  PROVE  Ideal(n, lg) \in Nat \ {0}
<1> DEFINE p == Pow2[lg]
<1>1. p \in Nat \ {0}
  BY Pow2Positive
<1> HIDE DEF p
<1>2. n = p * (n \div p) + (n % p) /\ n \div p \in Nat /\ n % p \in Nat
  BY <1>1
<1>3. n % p = 0 => n \div p # 0
  BY <1>1, <1>2
<1>4. n \div p + (IF n % p # 0 THEN 1 ELSE 0) \in Nat \ {0}
  BY <1>2, <1>3
<1>5. QED  BY <1>4 DEF Ideal, p

\* What a bucket learns about its length leaves its chain alone.
LEMMA MultTable ==
  ASSUME NEW c, NEW lg, NEW D, IsTable(c, lg, D), NEW ideal \in Nat \ {0}
  PROVE  IsTable(WithMult(c, ideal), lg, D)
<1> DEFINE Rec == [first : Ends, count : Nat, mult : Nat]
           m(b) == IF c.bkts[b].count > ideal THEN c.bkts[b].count \div ideal ELSE 0
           w == [b \in Bkts(lg) |-> [c.bkts[b] EXCEPT !.mult = m(b)]]
           d == WithMult(c, ideal)
<1>1. PICK ch : HasChains(c, lg, D, ch)
  BY DEF IsTable
<1>2. /\ c \in Tables(lg) /\ c.bkts \in [Bkts(lg) -> Rec] /\ c.next \in LinkSet /\ c.prev \in LinkSet
      /\ DOMAIN c.bkts = Bkts(lg)
  BY <1>1 DEF HasChains, Tables
<1>3. ASSUME NEW b \in Bkts(lg)
      PROVE  w[b] \in Rec /\ w[b].first = c.bkts[b].first /\ w[b].count = c.bkts[b].count
  <2>1. c.bkts[b] \in Rec /\ c.bkts[b].count \in Nat
    BY <1>2
  <2>2. m(b) \in Nat
    <3>1. c.bkts[b].count \div ideal \in Nat
      BY <2>1
    <3>2. QED  BY <3>1
  <2> HIDE DEF m
  <2>3. QED  BY <2>1, <2>2
<1>4. d.bkts = w /\ d.next = c.next /\ d.prev = c.prev /\ d = [bkts |-> w, next |-> c.next, prev |-> c.prev]
  BY <1>2 DEF WithMult, Tables
<1>5. w = [b \in Bkts(lg) |-> w[b]]
  OBVIOUS
<1> HIDE DEF w, d
<1>6. d \in Tables(lg)
  <2>1. w \in [Bkts(lg) -> Rec]
    BY <1>3, <1>5
  <2>2. QED  BY <1>2, <1>4, <2>1 DEF Tables
<1>7. HasChains(d, lg, D, ch)
  BY <1>1, <1>3, <1>4, <1>6 DEF HasChains
<1>8. QED  BY <1>7 DEF IsTable, d

\* The chains of a table, one after the other.
AllOf(c, lg) == FlattenSeq([i \in 1 .. Pow2[lg] |-> Chain(c, i - 1)])

\* They have each element once.
LEMMA AllAreThere ==
  ASSUME NEW c, NEW lg \in 0 .. MaxLog2, NEW D, IsTable(c, lg, D)
  PROVE  /\ AllOf(c, lg) \in Seq(Keys)
         /\ \A i, j \in 1 .. Len(AllOf(c, lg)) : AllOf(c, lg)[i] = AllOf(c, lg)[j] => i = j
         /\ \A i \in 1 .. Len(AllOf(c, lg)) : AllOf(c, lg)[i] \in D
         /\ \A k \in D : \E i \in 1 .. Len(AllOf(c, lg)) : AllOf(c, lg)[i] = k
         /\ Len(AllOf(c, lg)) = Cardinality(D)
<1> DEFINE n == Pow2[lg]
           s == AllOf(c, lg)
<1>1. PICK ch : HasChains(c, lg, D, ch)
  BY DEF IsTable
<1> DEFINE w == [i \in 1 .. n |-> ch[i - 1]]
<1>2. n \in Nat \ {0} /\ Bkts(lg) = 0 .. n - 1
  BY Pow2Positive DEF Bkts
<1> HIDE DEF n
<1>3. \A i \in 1 .. n : i - 1 \in Bkts(lg)
  BY <1>2
<1>4. [i \in 1 .. n |-> Chain(c, i - 1)] = w
  <2>1. \A i \in 1 .. n : Chain(c, i - 1) = ch[i - 1]
    BY <1>1, <1>3, ChainIs
  <2>2. QED  BY <2>1
<1>5. Apart(w, n)
  <2>1. \A i \in 1 .. n : w[i] = ch[i - 1] /\ ch[i - 1] \in Seq(Keys)
    BY <1>1, <1>3 DEF HasChains
  <2>2. w \in [1 .. n -> Seq(Keys)]
    BY <2>1
  <2> HIDE DEF w
  <2>3. ASSUME NEW a \in 1 .. n, NEW b \in 1 .. n, NEW i \in 1 .. Len(w[a]), NEW j \in 1 .. Len(w[b]),
               w[a][i] = w[b][j]
        PROVE  a = b /\ i = j
    <3>1. a - 1 \in Bkts(lg) /\ b - 1 \in Bkts(lg) /\ w[a] = ch[a - 1] /\ w[b] = ch[b - 1]
      BY <1>3, <2>1
    <3>2. a - 1 = b - 1 /\ i = j
      BY <1>1, <2>3, <3>1, ChainsApart
    <3>3. QED  BY <1>2, <3>2
  <2>4. QED  BY <2>2, <2>3 DEF Apart
<1> HIDE DEF w
<1>6. Gathers(s, w, n)
  <2>1. s = FlattenSeq(w)
    BY <1>4 DEF AllOf, n
  <2> HIDE DEF s
  <2>2. QED  BY <1>2, <1>5, <2>1, FlattenGathers
<1> HIDE DEF s
<1>7. s \in Seq(Keys) /\ \A i, j \in 1 .. Len(s) : s[i] = s[j] => i = j
  BY <1>6 DEF Gathers
<1>8. ASSUME NEW i \in 1 .. Len(s) PROVE s[i] \in D
  <2>1. PICK a \in 1 .. n : \E j \in 1 .. Len(w[a]) : s[i] = w[a][j]
    BY <1>6 DEF Gathers
  <2>2. w[a] = ch[a - 1] /\ a - 1 \in Bkts(lg)
    BY <1>3 DEF w
  <2>3. TwoWay(ch[a - 1], c.bkts[a - 1].first, c.next, c.prev) /\ DOMAIN c.next = D
    BY <1>1, <2>2 DEF HasChains
  <2>4. QED  BY <2>1, <2>2, <2>3 DEF TwoWay, IsList
<1>9. ASSUME NEW k \in D PROVE \E i \in 1 .. Len(s) : s[i] = k
  <2> DEFINE b == ToBkt(k, lg)
  <2>1. b \in Bkts(lg) /\ \E j \in 1 .. Len(ch[b]) : ch[b][j] = k
    BY <1>1 DEF HasChains
  <2> HIDE DEF b
  <2>2. b + 1 \in 1 .. n /\ (b + 1) - 1 = b
    BY <1>2, <2>1
  <2>3. w[b + 1] = ch[b]
    BY <2>2 DEF w
  <2>4. PICK j \in 1 .. Len(ch[b]) : ch[b][j] = k
    BY <2>1
  <2>5. \A a \in 1 .. n : \A x \in 1 .. Len(w[a]) : \E i \in 1 .. Len(s) : s[i] = w[a][x]
    BY <1>6 DEF Gathers
  <2>6. j \in 1 .. Len(w[b + 1]) /\ w[b + 1][j] = k
    BY <2>3, <2>4
  <2>7. QED  BY <2>2, <2>5, <2>6
<1>10. IsFiniteSet(D)
  <2>1. DOMAIN c.next \subseteq Keys /\ DOMAIN c.next = D
    BY <1>1, LinksType DEF HasChains, Tables
  <2>2. QED  BY <2>1, UtHashAssumption, FS_Subset
<1>11. Len(s) = Cardinality(D)
  BY <1>7, <1>8, <1>9, <1>10, InjectiveLen
<1>12. QED  BY <1>7, <1>8, <1>9, <1>11 DEF s

\* HASH_EXPAND_BUCKETS: with twice the buckets the same elements are in the
\* table, each in its bucket.
LEMMA SpreadTable ==
  ASSUME hashv \in [Keys -> Hashes], NEW lg \in 0 .. MaxLog2 - 1, NEW c, NEW D, IsTable(c, lg, D),
         NEW n \in Nat \ {0}
  PROVE  IsTable(Spread(c, n, lg), lg + 1, D)
<1> DEFINE old == AllOf(c, lg)
           N == Len(old)
           V == Tables(lg + 1)
           B(i) == ToBkt(old[i], lg + 1)
           IsMoved(m) == m = [i \in 0 .. Len(old) |->
                                IF i = 0 THEN Empty(lg + 1) ELSE PushFront(m[i - 1], B(i), old[i])]
           m == CHOOSE g : IsMoved(g)
           h == [i \in 1 .. N |-> [v \in V |-> PushFront(v, B(i), old[i])]]
<1>1. lg \in 0 .. MaxLog2 /\ lg + 1 \in 0 .. MaxLog2
  BY UtHashAssumption
<1>2. /\ old \in Seq(Keys) /\ N \in Nat
      /\ \A i, j \in 1 .. N : old[i] = old[j] => i = j
      /\ \A i \in 1 .. N : old[i] \in D
      /\ \A k \in D : \E i \in 1 .. N : old[i] = k
  BY <1>1, AllAreThere
<1> HIDE DEF old
<1>3. \A i \in 1 .. N : old[i] \in Keys /\ B(i) \in Bkts(lg + 1)
  BY <1>1, <1>2, ToBktIn
<1>4. HasChains(Empty(lg + 1), lg + 1, {}, [b \in Bkts(lg + 1) |-> << >>])
  BY <1>1, EmptyTable
<1>5. \E g : IsMoved(g)
  <2>1. h \in [1 .. N -> [V -> V]]
    <3>1. ASSUME NEW i \in 1 .. N, NEW v \in V PROVE PushFront(v, B(i), old[i]) \in V
      <4> HIDE DEF B, N
      <4>1. QED  BY <1>3, <3>1, PushType
    <3> HIDE DEF B, V, N
    <3>2. QED  BY <3>1
  <2>2. Empty(lg + 1) \in V
    BY <1>4 DEF HasChains
  <2>3. PICK g : Defined(g, N, V, Empty(lg + 1), h)
    <3> HIDE DEF h, V, N
    <3>1. QED  BY <1>2, <2>1, <2>2, Recursion
  <2>4. /\ g = [i \in 0 .. N |-> g[i]] /\ g[0] = Empty(lg + 1)
        /\ \A i \in 1 .. N : g[i] = h[i][g[i - 1]]
        /\ \A i \in 0 .. N : g[i] \in V
    <3> HIDE DEF V, h, N
    <3> QED  BY <2>3 DEF Defined
  <2>5. ASSUME NEW i \in 1 .. N PROVE i # 0 /\ g[i] = PushFront(g[i - 1], B(i), old[i])
    <3>1. i - 1 \in 0 .. N /\ i # 0
      BY <1>2
    <3>2. g[i - 1] \in V
      BY <2>4, <3>1
    <3> HIDE DEF V, B, N
    <3>3. QED  BY <2>4, <3>1, <3>2 DEF h
  <2>6. \A i \in 0 .. N : i = 0 \/ i \in 1 .. N
    BY <1>2
  <2> HIDE DEF B
  <2>7. \A i \in 0 .. N : g[i] = IF i = 0 THEN Empty(lg + 1) ELSE PushFront(g[i - 1], B(i), old[i])
    BY <2>4, <2>5, <2>6, Zenon
  <2>8. IsMoved(g)
    BY <2>4, <2>7
  <2>9. QED  BY <2>8
<1>6. IsMoved(m)
  <2> HIDE DEF IsMoved
  <2> QED  BY <1>5
<1>7. m[0] = Empty(lg + 1) /\ \A i \in 1 .. N : m[i] = PushFront(m[i - 1], B(i), old[i])
  <2> HIDE DEF m, B
  <2>1. m[0] = Empty(lg + 1)
    BY <1>2, <1>6
  <2>2. ASSUME NEW i \in 1 .. N PROVE m[i] = PushFront(m[i - 1], B(i), old[i])
    <3>1. i \in 0 .. Len(old) /\ i # 0
      BY <1>2
    <3>2. QED  BY <1>6, <3>1
  <2>3. QED  BY <2>1, <2>2
<1> DEFINE Of(i) == {old[j] : j \in 1 .. i}
           T == {i \in 0 .. N : IsTable(m[i], lg + 1, Of(i))}
<1>8. Spread(c, n, lg) = WithMult(m[Len(old)], Ideal(n, lg + 1))
  BY DEF Spread, AllOf, old
<1> HIDE DEF m, h, IsMoved, V
<1>9. 0 \in T
  <2>1. Of(0) = {}
    OBVIOUS
  <2>2. IsTable(Empty(lg + 1), lg + 1, {})
    BY <1>4 DEF IsTable
  <2>3. 0 \in 0 .. N
    BY <1>2
  <2>4. IsTable(m[0], lg + 1, Of(0))
    BY <1>7, <2>1, <2>2, Zenon
  <2> HIDE DEF Of
  <2>5. QED  BY <2>3, <2>4
<1>10. ASSUME NEW i \in 0 .. N - 1, i \in T PROVE i + 1 \in T
  <2>1. i + 1 \in 1 .. N /\ i + 1 \in 0 .. N /\ (i + 1) - 1 = i
    BY <1>2
  <2>2. Of(i + 1) = Of(i) \cup {old[i + 1]}
    <3>1. \A j \in 1 .. i + 1 : j \in 1 .. i \/ j = i + 1
      OBVIOUS
    <3>2. 1 .. i \subseteq 1 .. i + 1 /\ i + 1 \in 1 .. i + 1
      OBVIOUS
    <3>3. QED  BY <3>1, <3>2
  <2>3. old[i + 1] \notin Of(i)
    <3>1. \A j \in 1 .. i : j \in 1 .. N /\ j # i + 1
      BY <1>2
    <3>2. QED  BY <1>2, <2>1, <3>1
  <2> HIDE DEF Of
  <2>4. PICK ch : HasChains(m[i], lg + 1, Of(i), ch)
    BY <1>10 DEF IsTable
  <2>5. m[i + 1] = PushFront(m[i], ToBkt(old[i + 1], lg + 1), old[i + 1])
    BY <1>7, <2>1
  <2>6. IsTable(PushFront(m[i], ToBkt(old[i + 1], lg + 1), old[i + 1]), lg + 1, Of(i) \cup {old[i + 1]})
    <3>1. old[i + 1] \in Keys /\ ToBkt(old[i + 1], lg + 1) \in Bkts(lg + 1)
      BY <1>3, <2>1
    <3>2. QED  BY <2>3, <2>4, <3>1, PushTable DEF IsTable
  <2>7. QED  BY <2>1, <2>2, <2>5, <2>6
<1>11. N \in T
  <2> HIDE DEF T, N
  <2>1. \A i \in 0 .. N : i \in T
    BY <1>2, <1>9, <1>10, UpTo
  <2>2. QED  BY <1>2, <2>1
<1>12. Of(N) = D
  BY <1>2
<1>13. IsTable(m[N], lg + 1, D)
  <2> HIDE DEF Of
  <2> QED  BY <1>11, <1>12
<1>14. Ideal(n, lg + 1) \in Nat \ {0}
  BY <1>1, IdealPositive
<1>15. QED  BY <1>8, <1>13, <1>14, MultTable

-----------------------------------------------------------------------------
(* The invariant. *)

\* The elements in the order of addition, as HASH_ITER finds them.
Order == Walk(head, next)

\* s is the list of the elements, linked both ways from head to tbl.tail, and
\* tbl.items is its length.
HasOrder(s) ==
  /\ TwoWay(s, head, next, prev)
  /\ next \in LinkSet /\ prev \in LinkSet /\ DOMAIN prev = Linked
  /\ \A k \in Linked : \E i \in 1 .. Len(s) : s[i] = k
  /\ tbl.tail = TailOf(s) /\ tbl.items = Len(s)

\* The fields of the table; an expansion that was ineffective was an expansion.
TblSet == [tail : Ends, items : Nat, log2 : InitLog2 .. MaxLog2, ineffective : Nat, noexpand : BOOLEAN]
TblOK  == tbl \in TblSet /\ tbl.ineffective <= tbl.log2

\* The elements of the order are those in the buckets.
BktsOK == IsTable(chains, tbl.log2, Linked)

TableOK == hashv \in [Keys -> Hashes] /\ HasOrder(Order) /\ TblOK /\ BktsOK

\* HASH_ITER is at an element and knows the one that comes after it, or it is
\* through.
IterOK ==
  /\ walking \in BOOLEAN /\ el \in Linked \cup {NULL} /\ tmp = After(next, el)
  /\ ~walking => el = NULL

IInv == TableOK /\ IterOK

\* There is one order only.
LEMMA OrderIs == ASSUME NEW s, HasOrder(s) PROVE Order = s
<1>1. IsList(s, head, next) /\ DOMAIN next \subseteq Keys
  BY LinksType DEF HasOrder, TwoWay
<1>2. QED  BY <1>1, WalkIs DEF Order

\* The same after a step.
LEMMA OrderIsNext == ASSUME NEW s, HasOrder(s)' PROVE Order' = s /\ HasOrder(Order)'
<1>1. IsList(s, head', next') /\ DOMAIN next' \subseteq Keys
  BY LinksType DEF HasOrder, TwoWay
<1>2. Order' = s
  BY <1>1, WalkIs DEF Order
<1>3. QED  BY <1>2

\* The hash function stays the same.
LEMMA TableNext ==
  ASSUME hashv' = hashv, NEW lg, NEW D, IsTable(chains', lg, D), tbl'.log2 = lg, Linked' = D
  PROVE  BktsOK'
<1>1. PICK ch : HasChains(chains', lg, D, ch)
  BY DEF IsTable
<1>2. HasChains(chains, tbl.log2, Linked, ch)'
  BY <1>1 DEF HasChains, ToBkt
<1>3. QED  BY <1>2 DEF BktsOK, IsTable

\* An order has an element of the table at each place.
LEMMA OrderFacts ==
  ASSUME NEW s, HasOrder(s)
  PROVE  /\ s \in Seq(Keys) /\ Len(s) \in Nat /\ (s = << >> <=> Len(s) = 0)
         /\ \A i, j \in 1 .. Len(s) : s[i] = s[j] => i = j
         /\ \A i \in 1 .. Len(s) : /\ s[i] \in Linked /\ s[i] \in Keys /\ s[i] # NULL
                                   /\ next[s[i]] = IF i = Len(s) THEN NULL ELSE s[i + 1]
                                   /\ prev[s[i]] = IF i = 1 THEN NULL ELSE s[i - 1]
         /\ head = IF s = << >> THEN NULL ELSE s[1]
         /\ Linked \subseteq Keys /\ IsFiniteSet(Linked) /\ Len(s) = Cardinality(Linked)
         /\ \A k \in Linked : \E i \in 1 .. Len(s) : s[i] = k
<1>1. s \in Seq(Keys) /\ Len(s) \in Nat /\ (s = << >> <=> Len(s) = 0)
  BY EmptySeq DEF HasOrder, TwoWay, IsList
<1>2. \A i, j \in 1 .. Len(s) : s[i] = s[j] => i = j
  BY DEF HasOrder, TwoWay, IsList
<1>3. \A i \in 1 .. Len(s) : /\ s[i] \in Linked /\ s[i] \in Keys /\ s[i] # NULL
                             /\ next[s[i]] = IF i = Len(s) THEN NULL ELSE s[i + 1]
                             /\ prev[s[i]] = IF i = 1 THEN NULL ELSE s[i - 1]
  <2>1. \A i \in 1 .. Len(s) : s[i] \in Keys /\ s[i] # NULL
    BY <1>1, UtHashAssumption
  <2>2. QED  BY <2>1 DEF HasOrder, TwoWay, IsList, IsBack, Linked
<1>4. head = IF s = << >> THEN NULL ELSE s[1]
  BY DEF HasOrder, TwoWay, IsList
<1>5. Linked \subseteq Keys
  BY LinksType DEF HasOrder, Linked
<1>6. IsFiniteSet(Linked)
  BY <1>5, UtHashAssumption, FS_Subset
<1>7. \A k \in Linked : \E i \in 1 .. Len(s) : s[i] = k
  BY DEF HasOrder
<1>8. Len(s) = Cardinality(Linked)
  BY <1>1, <1>2, <1>3, <1>6, <1>7, InjectiveLen
<1>9. QED  BY <1>1, <1>2, <1>3, <1>4, <1>5, <1>6, <1>7, <1>8

\* Before anything is added.
LEMMA InitKeeps == Init => IInv
<1> SUFFICES ASSUME Init PROVE IInv
  OBVIOUS
<1>1. NoLinks \in LinkSet /\ DOMAIN NoLinks = {}
  <2>1. DOMAIN NoLinks = {} /\ NoLinks = [k \in DOMAIN NoLinks |-> NoLinks[k]]
    BY DEF NoLinks
  <2>2. QED  BY <2>1, LinksType
<1>2. TwoWay(<< >>, NULL, NoLinks, NoLinks) /\ Len(<< >>) = 0 /\ TailOf(<< >>) = NULL
  BY DEF TwoWay, IsList, IsBack, TailOf
<1>3. tbl.tail = NULL /\ tbl.items = 0 /\ tbl.log2 = InitLog2
  BY DEF Init, NewTable
<1>4. HasOrder(<< >>)
  BY <1>1, <1>2, <1>3 DEF Init, HasOrder, Linked
<1>5. HasOrder(Order)
  BY <1>4, OrderIs
<1>6. TblOK
  BY UtHashAssumption DEF Init, NewTable, TblOK, TblSet, Ends
<1>7. BktsOK
  <2>1. InitLog2 \in 0 .. MaxLog2
    BY UtHashAssumption
  <2>2. IsTable(Empty(InitLog2), InitLog2, {})
    BY <2>1, EmptyTable DEF IsTable
  <2>3. QED  BY <1>1, <1>3, <2>2 DEF Init, BktsOK, Linked
<1>8. IterOK
  BY DEF Init, IterOK, After
<1>9. QED  BY <1>5, <1>6, <1>7, <1>8 DEF Init, IInv, TableOK

-----------------------------------------------------------------------------
(* The steps. *)

\* HASH_ADD: the element comes last in the order, and is in its bucket, also
\* when the buckets are doubled.
LEMMA AddKeeps ==
  ASSUME TableOK, NEW k \in Keys, Add(k)
  PROVE  TableOK' /\ Order' = Append(Order, k)
<1>0. PICK s : s = Order
  OBVIOUS
<1> DEFINE D == Linked \cup {k}
           b == ToBkt(k, tbl.log2)
           t == [tbl EXCEPT !.tail = k, !.items = @ + 1]
           c == PushFront(chains, b, k)
           d == Spread(c, t.items, t.log2)
           grow == Full(c, b) /\ ~t.noexpand
<1>1. /\ HasOrder(s) /\ TblOK /\ BktsOK /\ hashv \in [Keys -> Hashes] /\ hashv' = hashv
      /\ k \notin Linked /\ k # NULL
  BY <1>0, UtHashAssumption DEF TableOK, Add
<1>2. /\ s \in Seq(Keys) /\ Len(s) \in Nat /\ (s = << >> <=> Len(s) = 0)
      /\ \A i \in 1 .. Len(s) : s[i] \in Linked /\ s[i] \in Keys /\ s[i] # k
      /\ head = IF s = << >> THEN NULL ELSE s[1]
      /\ Linked \subseteq Keys
  <2>1. s \in Seq(Keys) /\ Len(s) \in Nat /\ (s = << >> <=> Len(s) = 0)
        /\ head = (IF s = << >> THEN NULL ELSE s[1]) /\ Linked \subseteq Keys
    BY <1>1, OrderFacts
  <2>2. \A i \in 1 .. Len(s) : s[i] \in Linked /\ s[i] \in Keys
    BY <1>1, OrderFacts
  <2>3. QED  BY <1>1, <2>1, <2>2
<1>3. /\ tbl.tail = TailOf(s) /\ tbl.items = Len(s) /\ TwoWay(s, head, next, prev)
      /\ next \in LinkSet /\ prev \in LinkSet /\ DOMAIN next = Linked /\ DOMAIN prev = Linked
      /\ \A x \in Linked : \E i \in 1 .. Len(s) : s[i] = x
  <2> QED  BY <1>1 DEF HasOrder, Linked
<1>4. /\ head' = (IF head = NULL THEN k ELSE head)
      /\ next' = Set(Set(next, TailOf(s), k), k, NULL)
      /\ prev' = Set(prev, k, TailOf(s))
  BY <1>3 DEF Add
<1>5. /\ grow => t.log2 < MaxLog2 /\ chains' = d /\ tbl' = Expanded(t, d)
      /\ ~grow => chains' = c /\ tbl' = t
  BY DEF Add
<1>6. /\ t \in TblSet
      /\ t.tail = k /\ t.items = Len(s) + 1 /\ t.log2 = tbl.log2
      /\ t.ineffective = tbl.ineffective /\ t.noexpand = tbl.noexpand
      /\ tbl.log2 \in InitLog2 .. MaxLog2 /\ tbl.log2 \in 0 .. MaxLog2
      /\ tbl.ineffective \in Nat /\ tbl.noexpand \in BOOLEAN /\ tbl.ineffective <= tbl.log2
  <2>1. tbl \in TblSet
    BY <1>1 DEF TblOK
  <2>2. /\ t \in TblSet
        /\ t.tail = k /\ t.items = tbl.items + 1 /\ t.log2 = tbl.log2
        /\ t.ineffective = tbl.ineffective /\ t.noexpand = tbl.noexpand
    <3>1. k \in Ends /\ tbl.items + 1 \in Nat
      BY <2>1 DEF Ends, TblSet
    <3>2. QED  BY <2>1, <3>1 DEF TblSet
  <2>3. tbl.log2 \in InitLog2 .. MaxLog2 /\ tbl.log2 \in 0 .. MaxLog2
    BY <2>1, UtHashAssumption DEF TblSet
  <2> HIDE DEF t
  <2>4. QED  BY <1>1, <1>3, <2>1, <2>2, <2>3 DEF TblOK, TblSet
<1>7. /\ tbl'.tail = k /\ tbl'.items = Len(s) + 1 /\ TblOK'
      /\ tbl'.log2 = IF grow THEN tbl.log2 + 1 ELSE tbl.log2
  <2>1. k \in Ends /\ Len(s) + 1 \in Nat
    BY <1>2 DEF Ends
  <2>2. CASE ~grow
    <3>1. tbl' = t
      BY <1>5, <2>2
    <3> HIDE DEF t, grow
    <3>2. QED  BY <1>6, <2>1, <2>2, <3>1 DEF TblOK
  <2>3. CASE grow
    <3> DEFINE n == IF Nonideal(d, t.items, t.log2 + 1) > t.items \div 2 THEN t.ineffective + 1 ELSE 0
    <3>1. tbl' = [t EXCEPT !.log2 = t.log2 + 1, !.ineffective = n, !.noexpand = t.noexpand \/ n > 1]
          /\ t.log2 < MaxLog2
      BY <1>5, <2>3 DEF Expanded, Doubled
    <3>2. n \in Nat /\ n <= tbl.log2 + 1
      <4>1. t.ineffective = tbl.ineffective
        BY <1>6
      <4>2. n = tbl.ineffective + 1 \/ n = 0
        BY <4>1
      <4> HIDE DEF n
      <4>3. QED  BY <1>6, <4>2
    <3>3. t.log2 = tbl.log2 /\ (t.noexpand \/ n > 1) \in BOOLEAN
      BY <1>6
    <3> HIDE DEF n
    <3>4. /\ tbl'.tail = k /\ tbl'.items = Len(s) + 1 /\ tbl'.log2 = tbl.log2 + 1
          /\ tbl'.ineffective = n /\ tbl' \in TblSet
      <4>1. tbl.log2 + 1 \in InitLog2 .. MaxLog2
        BY <1>6, <3>1, <3>3, UtHashAssumption
      <4> HIDE DEF t
      <4>2. QED  BY <1>6, <3>1, <3>2, <3>3, <4>1 DEF TblSet
    <3> HIDE DEF t, grow
    <3>5. QED  BY <2>3, <3>2, <3>4 DEF TblOK
  <2>4. QED  BY <2>2, <2>3
<1>8. BktsOK'
  <2>1. DOMAIN next' = D
    <3>1. TailOf(s) \in Ends /\ (TailOf(s) = NULL \/ TailOf(s) \in Linked) /\ k \in Ends /\ NULL \in Ends
      <4>1. s # << >> => Len(s) \in 1 .. Len(s)
        BY <1>2
      <4>2. s # << >> => s[Len(s)] \in Linked
        <5> QED  BY <1>2, <4>1
      <4>3. QED  BY <1>2, <4>2 DEF TailOf, Last, Ends
    <3> DEFINE l == Set(next, TailOf(s), k)
    <3>2. l \in LinkSet /\ DOMAIN l = Linked
      <4>1. l \in LinkSet /\ DOMAIN l = IF TailOf(s) = NULL THEN DOMAIN next ELSE DOMAIN next \cup {TailOf(s)}
        <5> QED  BY <1>3, <3>1, SetType
      <4> HIDE DEF l
      <4>2. QED  BY <1>3, <3>1, <4>1
    <3> HIDE DEF l
    <3>3. DOMAIN Set(l, k, NULL) = IF k = NULL THEN DOMAIN l ELSE DOMAIN l \cup {k}
      BY <3>1, <3>2, SetType
    <3>4. QED  BY <1>1, <1>4, <3>2, <3>3 DEF l
  <2>2. IsTable(c, tbl.log2, D)
    <3>1. PICK ch : HasChains(chains, tbl.log2, Linked, ch)
      BY <1>1 DEF BktsOK, IsTable
    <3>2. b \in Bkts(tbl.log2)
      BY <1>1, <1>6, ToBktIn
    <3>3. HasChains(c, tbl.log2, D, [ch EXCEPT ![b] = <<k>> \o @])
      BY <1>1, <3>1, <3>2, PushTable
    <3> HIDE DEF c, b, D
    <3>4. QED  BY <3>3 DEF IsTable
  <2>3. t.items \in Nat \ {0} /\ t.log2 = tbl.log2
    <3>1. t.items = Len(s) + 1 /\ t.log2 = tbl.log2
      BY <1>6
    <3> HIDE DEF t
    <3>2. QED  BY <1>2, <3>1
  <2>4. Linked' = D
    BY <2>1 DEF Linked
  <2>5. CASE ~grow
    <3>1. chains' = c /\ tbl'.log2 = tbl.log2
      BY <1>5, <1>7, <2>5
    <3>2. IsTable(chains', tbl.log2, D)
      BY <2>2, <3>1
    <3> HIDE DEF D
    <3>3. QED  BY <1>1, <2>4, <3>1, <3>2, TableNext
  <2>6. CASE grow
    <3>1. chains' = d /\ tbl'.log2 = tbl.log2 + 1 /\ tbl.log2 < MaxLog2
      BY <1>5, <1>7, <2>3, <2>6
    <3>2. tbl.log2 \in 0 .. MaxLog2 - 1
      BY <1>6, <3>1, UtHashAssumption
    <3>3. IsTable(d, tbl.log2 + 1, D)
      <4>1. d = Spread(c, t.items, tbl.log2)
        BY <2>3
      <4> HIDE DEF c, t, D, d
      <4>2. QED  BY <1>1, <2>2, <2>3, <3>2, <4>1, SpreadTable
    <3>4. IsTable(chains', tbl.log2 + 1, D)
      BY <3>1, <3>3
    <3> HIDE DEF D
    <3>5. QED  BY <1>1, <2>4, <3>1, <3>4, TableNext
  <2>7. QED  BY <2>5, <2>6
<1> HIDE DEF c, d, b, grow, t
<1>9. HasOrder(Append(s, k))'
  <2> DEFINE u == Append(s, k)
  <2>1. /\ u \in Seq(Keys) /\ Len(u) = Len(s) + 1 /\ u[Len(s) + 1] = k /\ u # << >>
        /\ \A i \in 1 .. Len(s) : u[i] = s[i]
    BY <1>2, AppendProperties
  <2>2. TwoWay(u, IF head = NULL THEN k ELSE head, Set(Set(next, TailOf(s), k), k, NULL), Set(prev, k, TailOf(s)))
    BY <1>2, <1>3, AppendList
  <2> HIDE DEF u
  <2>3. TwoWay(u, head', next', prev')
    BY <1>4, <2>2
  <2>4. TailOf(s) \in Ends /\ (TailOf(s) = NULL \/ TailOf(s) \in Linked) /\ k \in Ends /\ NULL \in Ends
    <3>1. s # << >> => Len(s) \in 1 .. Len(s)
      BY <1>2
    <3>2. s # << >> => s[Len(s)] \in Linked
      BY <1>2, <3>1
    <3>3. QED  BY <1>2, <3>2 DEF TailOf, Last, Ends
  <2>5. next' \in LinkSet /\ DOMAIN next' = D
    <3> DEFINE l == Set(next, TailOf(s), k)
    <3>1. l \in LinkSet /\ DOMAIN l = IF TailOf(s) = NULL THEN DOMAIN next ELSE DOMAIN next \cup {TailOf(s)}
      BY <1>3, <2>4, SetType
    <3>2. next' = Set(l, k, NULL)
      BY <1>4
    <3> HIDE DEF l
    <3>3. Set(l, k, NULL) \in LinkSet /\ DOMAIN Set(l, k, NULL) = IF k = NULL THEN DOMAIN l ELSE DOMAIN l \cup {k}
      BY <2>4, <3>1, SetType
    <3>4. QED  BY <1>1, <1>3, <2>4, <3>1, <3>2, <3>3
  <2>6. prev' \in LinkSet /\ DOMAIN prev' = D
    <3>1. /\ Set(prev, k, TailOf(s)) \in LinkSet
          /\ DOMAIN Set(prev, k, TailOf(s)) = IF k = NULL THEN DOMAIN prev ELSE DOMAIN prev \cup {k}
      BY <1>3, <2>4, SetType
    <3>2. QED  BY <1>1, <1>3, <1>4, <3>1
  <2>7. \A x \in D : \E i \in 1 .. Len(u) : u[i] = x
    <3>1. Len(s) + 1 \in 1 .. Len(u) /\ \A i \in 1 .. Len(s) : i \in 1 .. Len(u)
      BY <1>2, <2>1
    <3>2. QED  BY <1>3, <2>1, <3>1
  <2>8. tbl'.tail = TailOf(u) /\ tbl'.items = Len(u)
    BY <1>7, <2>1 DEF TailOf, Last
  <2>9. HasOrder(u)'
    <3> HIDE DEF D
    <3> QED  BY <2>3, <2>5, <2>6, <2>7, <2>8 DEF HasOrder, Linked
  <2>10. QED  BY <2>9 DEF u
<1>10. Order' = Append(s, k) /\ HasOrder(Order)'
  BY <1>9, OrderIsNext
<1>11. QED  BY <1>0, <1>1, <1>7, <1>8, <1>10 DEF TableOK

\* HASH_DELETE: the element leaves the order and its bucket; the last one takes
\* the table with it.
LEMMA UnlinkKeeps ==
  ASSUME TableOK, hashv' = hashv, NEW i \in 1 .. Len(Order), Unlink(Order[i])
  PROVE  TableOK' /\ Order' = RemoveAt(Order, i) /\ Linked' = Linked \ {Order[i]}
<1>0. PICK s, e : s = Order /\ e = Order[i]
  OBVIOUS
<1> DEFINE u == RemoveAt(s, i)
           p == prev[e]
           q == next[e]
           D == Linked \ {e}
<1>1. /\ HasOrder(s) /\ TblOK /\ BktsOK /\ hashv \in [Keys -> Hashes]
      /\ i \in 1 .. Len(s) /\ s[i] = e /\ Unlink(e)
  BY <1>0 DEF TableOK
<1>2. /\ s \in Seq(Keys) /\ Len(s) \in Nat /\ (s = << >> <=> Len(s) = 0)
      /\ \A j, k \in 1 .. Len(s) : s[j] = s[k] => j = k
      /\ \A j \in 1 .. Len(s) : s[j] \in Linked /\ s[j] \in Keys /\ s[j] # NULL
      /\ p = (IF i = 1 THEN NULL ELSE s[i - 1]) /\ q = (IF i = Len(s) THEN NULL ELSE s[i + 1])
      /\ head = s[1] /\ 1 \in 1 .. Len(s) /\ s # << >>
  <2>1. /\ s \in Seq(Keys) /\ Len(s) \in Nat /\ (s = << >> <=> Len(s) = 0)
        /\ \A j, k \in 1 .. Len(s) : s[j] = s[k] => j = k
        /\ head = IF s = << >> THEN NULL ELSE s[1]
    BY <1>1, OrderFacts
  <2>2. /\ \A j \in 1 .. Len(s) : s[j] \in Linked /\ s[j] \in Keys /\ s[j] # NULL
        /\ p = (IF i = 1 THEN NULL ELSE s[i - 1]) /\ q = (IF i = Len(s) THEN NULL ELSE s[i + 1])
    BY <1>1, OrderFacts
  <2>3. 1 \in 1 .. Len(s) /\ s # << >>
    BY <1>1, <2>1
  <2> HIDE DEF p, q
  <2>4. QED  BY <2>1, <2>2, <2>3
<1>3. /\ tbl.tail = TailOf(s) /\ tbl.items = Len(s) /\ TwoWay(s, head, next, prev)
      /\ next \in LinkSet /\ prev \in LinkSet /\ DOMAIN next = Linked /\ DOMAIN prev = Linked
      /\ \A x \in Linked : \E j \in 1 .. Len(s) : s[j] = x
  BY <1>1 DEF HasOrder, Linked
<1>4. /\ prev' = Unset(Set(prev, q, p), e) /\ next' = Unset(Set(next, p, q), e)
      /\ head' = IF p = NULL THEN q ELSE head
  BY <1>1 DEF Unlink
<1>5. /\ p = NULL /\ q = NULL => tbl' = NewTable /\ chains' = Empty(InitLog2)
      /\ ~(p = NULL /\ q = NULL) =>
           /\ tbl' = [tbl EXCEPT !.tail = IF tbl.tail = e THEN p ELSE tbl.tail, !.items = tbl.items - 1]
           /\ chains' = DelInBkt(chains, ToBkt(e, tbl.log2), e)
  BY <1>1 DEF Unlink, TailWithout
<1>6. (p = NULL <=> i = 1) /\ (q = NULL <=> i = Len(s))
  <2>1. i # 1 => i - 1 \in 1 .. Len(s)
    BY <1>1, <1>2
  <2>2. i # Len(s) => i + 1 \in 1 .. Len(s)
    BY <1>1, <1>2
  <2> HIDE DEF p, q
  <2>3. QED  BY <1>2, <2>1, <2>2
<1>7. p \in {NULL} \cup Linked /\ q \in {NULL} \cup Linked /\ p \in Ends /\ q \in Ends /\ Linked \subseteq Keys
  <2>1. i # 1 => i - 1 \in 1 .. Len(s)
    BY <1>1, <1>2
  <2>2. i # Len(s) => i + 1 \in 1 .. Len(s)
    BY <1>1, <1>2
  <2>3. Linked \subseteq Keys
    BY <1>3, LinksType
  <2> HIDE DEF p, q
  <2>4. QED  BY <1>2, <2>1, <2>2, <2>3 DEF Ends
<1>8. /\ u \in Seq(Keys) /\ Len(u) = Len(s) - 1
      /\ \A j \in 1 .. Len(s) - 1 : u[j] = IF j < i THEN s[j] ELSE s[j + 1]
  BY <1>1, <1>2, RemoveAtIs
<1>9. next' \in LinkSet /\ DOMAIN next' = D
  <2> DEFINE l == next
  <2>1. l \in LinkSet /\ e \in DOMAIN l /\ p \in {NULL} \cup DOMAIN l /\ q \in Ends
    BY <1>1, <1>2, <1>3, <1>7
  <2> HIDE DEF p, q, l
  <2>2. Relinked(Unset(Set(l, p, q), e), l, e, p)
    BY <2>1, UnlinkedLinks
  <2>3. next' = Unset(Set(l, p, q), e) /\ DOMAIN l = Linked
    BY <1>3, <1>4 DEF l
  <2>4. QED  BY <2>2, <2>3 DEF Relinked
<1>10. prev' \in LinkSet /\ DOMAIN prev' = D
  <2> DEFINE l == prev
  <2>1. l \in LinkSet /\ e \in DOMAIN l /\ q \in {NULL} \cup DOMAIN l /\ p \in Ends
    BY <1>1, <1>2, <1>3, <1>7
  <2> HIDE DEF p, q, l
  <2>2. Relinked(Unset(Set(l, q, p), e), l, e, q)
    BY <2>1, UnlinkedLinks
  <2>3. prev' = Unset(Set(l, q, p), e) /\ DOMAIN l = Linked
    BY <1>3, <1>4 DEF l
  <2>4. QED  BY <2>2, <2>3 DEF Relinked
<1>11. TwoWay(u, head', next', prev')
  <2>1. TwoWay(u, IF head = e THEN next[e] ELSE head,
               Unset(Set(next, prev[e], next[e]), e), Unset(Set(prev, next[e], prev[e]), e))
    BY <1>1, <1>3, RemoveList
  <2>2. head = e <=> i = 1
    BY <1>1, <1>2
  <2>3. head' = IF head = e THEN next[e] ELSE head
    <3> HIDE DEF p
    <3> QED  BY <1>4, <1>6, <2>2
  <2>4. QED  BY <1>4, <2>1, <2>3
<1>12. \A x \in D : \E j \in 1 .. Len(u) : u[j] = x
  <2> SUFFICES ASSUME NEW x \in D PROVE \E j \in 1 .. Len(u) : u[j] = x
    OBVIOUS
  <2>1. PICK j \in 1 .. Len(s) : s[j] = x
    BY <1>3
  <2>2. j # i
    BY <1>1, <2>1
  <2> HIDE DEF u
  <2>3. CASE j < i
    <3>1. j \in 1 .. Len(u)
      BY <1>1, <1>2, <1>8, <2>3
    <3>2. QED  BY <1>8, <2>1, <2>3, <3>1
  <2>4. CASE j > i
    <3>1. j - 1 \in 1 .. Len(u) /\ ~ (j - 1 < i) /\ (j - 1) + 1 = j
      BY <1>1, <1>2, <1>8, <2>4
    <3>2. QED  BY <1>8, <2>1, <3>1
  <2>5. j < i \/ j > i
    BY <1>1, <1>2, <2>2
  <2>6. QED  BY <2>3, <2>4, <2>5
<1> HIDE DEF p, q, u
<1>13. Linked' = D
  BY <1>9 DEF Linked
<1>14. u = << >> <=> Len(s) = 1
  BY <1>2, <1>8, EmptySeq
<1>15. CASE p = NULL /\ q = NULL
  <2>1. Len(s) = 1
    BY <1>6, <1>15
  <2>2. tbl' = NewTable /\ chains' = Empty(InitLog2)
    BY <1>5, <1>15
  <2>3. tbl'.tail = TailOf(u) /\ tbl'.items = Len(u) /\ tbl'.log2 = InitLog2
    BY <1>8, <1>14, <2>1, <2>2 DEF NewTable, TailOf
  <2>4. TblOK'
    BY <2>2, UtHashAssumption DEF NewTable, TblOK, TblSet, Ends
  <2>5. D = {}
    <3>1. \A x : x \notin D
      BY <1>8, <1>12, <2>1
    <3>2. QED  BY <3>1
  <2>6. BktsOK'
    <3>1. IsTable(Empty(InitLog2), InitLog2, {})
      <4>1. InitLog2 \in 0 .. MaxLog2
        BY UtHashAssumption
      <4>2. QED  BY <4>1, EmptyTable DEF IsTable
    <3>2. IsTable(chains', InitLog2, {}) /\ Linked' = {}
      BY <1>13, <2>2, <2>5, <3>1
    <3>3. QED  BY <2>3, <3>2, TableNext
  <2>7. HasOrder(u)'
    BY <1>9, <1>10, <1>11, <1>12, <1>13, <2>3 DEF HasOrder, Linked, u
  <2>8. Order' = u /\ HasOrder(Order)'
    BY <2>7, OrderIsNext DEF u
  <2>9. QED  BY <1>0, <1>1, <1>13, <2>4, <2>6, <2>8 DEF TableOK, u
<1>16. CASE ~ (p = NULL /\ q = NULL)
  <2>1. Len(s) # 1
    BY <1>1, <1>2, <1>6, <1>16
  <2> DEFINE r == IF tbl.tail = e THEN p ELSE tbl.tail
  <2>2. tbl' = [tbl EXCEPT !.tail = r, !.items = tbl.items - 1]
        /\ chains' = DelInBkt(chains, ToBkt(e, tbl.log2), e)
    BY <1>5, <1>16
  <2>3. r = TailOf(u)
    <3>1. Len(s) \in 1 .. Len(s) /\ tbl.tail = s[Len(s)]
      BY <1>2, <1>3 DEF TailOf, Last
    <3>2. tbl.tail = e <=> i = Len(s)
      BY <1>1, <1>2, <3>1
    <3>3. Len(s) - 1 \in 1 .. Len(s) - 1 /\ TailOf(u) = u[Len(s) - 1]
      BY <1>2, <1>8, <1>14, <2>1 DEF TailOf, Last
    <3>4. CASE i = Len(s)
      <4>1. u[Len(s) - 1] = s[Len(s) - 1] /\ i # 1
        BY <1>2, <1>8, <2>1, <3>3, <3>4
      <4>2. QED  BY <1>2, <3>2, <3>3, <3>4, <4>1
    <3>5. CASE i # Len(s)
      <4>1. ~ (Len(s) - 1 < i) /\ (Len(s) - 1) + 1 = Len(s)
        BY <1>1, <1>2, <3>5
      <4>2. u[Len(s) - 1] = s[Len(s)]
        BY <1>8, <3>3, <4>1
      <4>3. QED  BY <3>1, <3>2, <3>3, <3>5, <4>2
    <3>6. QED  BY <3>4, <3>5
  <2>4. r \in Ends /\ tbl.items - 1 = Len(u) /\ Len(u) \in Nat
    <3>1. tbl.tail \in Ends
      BY <1>1 DEF TblOK, TblSet
    <3>2. QED  BY <1>1, <1>2, <1>3, <1>7, <1>8, <3>1
  <2>5. tbl \in TblSet /\ tbl.ineffective <= tbl.log2
    BY <1>1 DEF TblOK
  <2> HIDE DEF r
  <2>6. /\ tbl' \in TblSet /\ tbl'.tail = r /\ tbl'.items = Len(u)
        /\ tbl'.log2 = tbl.log2 /\ tbl'.ineffective = tbl.ineffective
    BY <2>2, <2>4, <2>5 DEF TblSet
  <2>7. TblOK'
    BY <2>5, <2>6 DEF TblOK
  <2>8. BktsOK'
    <3>1. e \in Linked
      BY <1>1, <1>2
    <3>2. PICK ch : HasChains(chains, tbl.log2, Linked, ch)
      BY <1>1 DEF BktsOK, IsTable
    <3>3. IsTable(DelInBkt(chains, ToBkt(e, tbl.log2), e), tbl.log2, D)
      BY <3>1, <3>2, DelTable
    <3>4. IsTable(chains', tbl.log2, D)
      BY <2>2, <3>3
    <3> HIDE DEF D
    <3>5. QED  BY <1>13, <2>6, <3>4, TableNext
  <2>9. HasOrder(u)'
    BY <1>9, <1>10, <1>11, <1>12, <1>13, <2>3, <2>6 DEF HasOrder, Linked, u
  <2>10. Order' = u /\ HasOrder(Order)'
    BY <2>9, OrderIsNext DEF u
  <2>11. QED  BY <1>0, <1>1, <1>13, <2>7, <2>8, <2>10 DEF TableOK, u
<1>17. QED  BY <1>15, <1>16

\* Nothing happens to the table.
LEMMA SameTable ==
  ASSUME TableOK, UNCHANGED <<hashv, head, tbl, prev, next, chains>>
  PROVE  TableOK' /\ Order' = Order /\ Linked' = Linked
<1>1. Order' = Order /\ Linked' = Linked
  BY DEF Order, Linked
<1>2. PICK s : s = Order
  OBVIOUS
<1>3. HasOrder(s)'
  BY <1>1, <1>2 DEF TableOK, HasOrder
<1>4. HasOrder(Order)'
  BY <1>3, OrderIsNext
<1>5. TblOK'
  BY DEF TableOK, TblOK
<1>6. BktsOK'
  <2>1. IsTable(chains', tbl.log2, Linked) /\ tbl'.log2 = tbl.log2
    BY DEF TableOK, BktsOK
  <2>2. QED  BY <1>1, <2>1, TableNext
<1>7. QED  BY <1>1, <1>4, <1>5, <1>6 DEF TableOK

\* Where HASH_ITER is, and what it has still to reach.
LEMMA WhereIs ==
  ASSUME IInv
  PROVE  \/ el = NULL /\ tmp = NULL /\ Walk(el, next) = << >>
         \/ \E i \in 1 .. Len(Order) :
              /\ el = Order[i] /\ el \in Linked /\ tmp = next[el]
              /\ tmp = IF i = Len(Order) THEN NULL ELSE Order[i + 1]
              /\ Walk(el, next) = SubSeq(Order, i, Len(Order))
<1>1. PICK s : s = Order
  OBVIOUS
<1>2. HasOrder(s) /\ IsList(s, head, next) /\ DOMAIN next \subseteq Keys
  BY <1>1, LinksType DEF IInv, TableOK, HasOrder, TwoWay
<1>3. CASE el = NULL
  <2>1. IsList(<< >>, NULL, next)
    BY DEF IsList
  <2>2. Walk(el, next) = << >>
    BY <1>2, <1>3, <2>1, WalkIs
  <2>3. QED  BY <1>3, <2>2 DEF IInv, IterOK, After
<1>4. CASE el # NULL
  <2>1. el \in Linked /\ tmp = next[el]
    BY <1>4 DEF IInv, IterOK, After
  <2>2. PICK i \in 1 .. Len(s) : s[i] = el
    BY <1>2, <2>1 DEF HasOrder
  <2>3. i \in 1 .. Len(s) + 1 /\ i # Len(s) + 1
    BY <1>2, <2>2, OrderFacts
  <2>4. IsList(SubSeq(s, i, Len(s)), IF i = Len(s) + 1 THEN NULL ELSE s[i], next)
    BY <1>2, <2>3, SuffixIsList
  <2>5. Walk(el, next) = SubSeq(s, i, Len(s))
    BY <1>2, <2>2, <2>3, <2>4, WalkIs
  <2>6. next[el] = IF i = Len(s) THEN NULL ELSE s[i + 1]
    BY <1>2, <2>2, OrderFacts
  <2>7. QED  BY <1>1, <2>1, <2>2, <2>5, <2>6
<1>5. QED  BY <1>3, <1>4

\* A step of the loop that deletes the element it has reached.
LEMMA VisitDeletes ==
  ASSUME IInv, NEW i \in 1 .. Len(Order), el = Order[i], hashv' = hashv, Unlink(el),
         el' = tmp, tmp' = After(next', tmp), walking' = walking, walking = TRUE
  PROVE  IInv' /\ Order' = RemoveAt(Order, i)
<1>1. TableOK' /\ Order' = RemoveAt(Order, i) /\ Linked' = Linked \ {Order[i]}
  BY UnlinkKeeps DEF IInv
<1>2. tmp \in Linked' \cup {NULL}
  <2>1. PICK s : s = Order
    OBVIOUS
  <2>2. HasOrder(s)
    BY <2>1 DEF IInv, TableOK
  <2>3. /\ Len(s) \in Nat /\ i \in 1 .. Len(s) /\ s[i] = el
        /\ \A j, k \in 1 .. Len(s) : s[j] = s[k] => j = k
        /\ \A j \in 1 .. Len(s) : s[j] \in Linked
        /\ next[s[i]] = IF i = Len(s) THEN NULL ELSE s[i + 1]
    BY <2>1, <2>2, OrderFacts
  <2>4. el # NULL
    BY <2>1, <2>2, <2>3, OrderFacts
  <2>5. tmp = next[el]
    BY <2>4 DEF IInv, IterOK, After
  <2>6. i # Len(s) => i + 1 \in 1 .. Len(s) /\ i + 1 # i
    BY <2>3
  <2>7. i # Len(s) => s[i + 1] \in Linked /\ s[i + 1] # s[i]
    BY <2>3, <2>6
  <2>8. QED  BY <1>1, <2>1, <2>3, <2>5, <2>7
<1>3. IterOK'
  BY <1>2 DEF IterOK
<1>4. QED  BY <1>1, <1>3 DEF IInv

\* A step of the loop that leaves it.
LEMMA VisitKeeps ==
  ASSUME IInv, el # NULL, UNCHANGED <<hashv, walking>>, Keep, walking = TRUE,
         el' = tmp, tmp' = After(next', tmp)
  PROVE  IInv' /\ Order' = Order
<1>1. TableOK' /\ Order' = Order /\ Linked' = Linked
  BY SameTable DEF IInv, Keep
<1>2. tmp \in Linked \cup {NULL}
  <2>1. PICK i \in 1 .. Len(Order) : tmp = IF i = Len(Order) THEN NULL ELSE Order[i + 1]
    BY WhereIs
  <2>2. PICK s : s = Order
    OBVIOUS
  <2>3. HasOrder(s)
    BY <2>2 DEF IInv, TableOK
  <2>4. Len(s) \in Nat /\ \A j \in 1 .. Len(s) : s[j] \in Linked
    BY <2>3, OrderFacts
  <2>5. i # Len(s) => i + 1 \in 1 .. Len(s)
    BY <2>2, <2>4
  <2>6. QED  BY <2>1, <2>2, <2>4, <2>5
<1>3. IterOK'
  BY <1>1, <1>2 DEF IterOK
<1>4. QED  BY <1>1, <1>3 DEF IInv

\* The invariant is inductive.
LEMMA StepKeeps == IInv /\ [Next]_vars => IInv'
<1> SUFFICES ASSUME IInv, [Next]_vars PROVE IInv'
  OBVIOUS
<1>0. TableOK /\ IterOK
  BY DEF IInv
<1>1. ASSUME NEW k \in Keys, Add(k) PROVE IInv'
  <2>1. TableOK'
    BY <1>0, <1>1, AddKeeps
  <2>2. UNCHANGED iter /\ ~walking
    BY <1>1 DEF Add
  <2>3. IterOK'
    BY <1>0, <2>2 DEF IterOK, iter, After
  <2>4. QED  BY <2>1, <2>3 DEF IInv
<1>2. ASSUME NEW k \in Keys, Delete(k) PROVE IInv'
  <2>1. PICK i \in 1 .. Len(Order) : Order[i] = k
    BY <1>0, <1>2 DEF Delete, TableOK, HasOrder
  <2>2. TableOK'
    <3>1. hashv' = hashv /\ Unlink(Order[i])
      BY <1>2, <2>1 DEF Delete
    <3>2. QED  BY <1>0, <3>1, UnlinkKeeps
  <2>3. UNCHANGED iter /\ ~walking
    BY <1>2 DEF Delete
  <2>4. IterOK'
    BY <1>0, <2>3 DEF IterOK, iter, After
  <2>5. QED  BY <2>2, <2>4 DEF IInv
<1>3. CASE Begin
  <2>1. TableOK' /\ Linked' = Linked
    BY <1>0, <1>3, SameTable DEF Begin
  <2>2. head \in Linked \cup {NULL}
    <3>1. PICK s : s = Order
      OBVIOUS
    <3>2. HasOrder(s)
      BY <1>0, <3>1 DEF TableOK
    <3>3. /\ head = (IF s = << >> THEN NULL ELSE s[1]) /\ (s = << >> <=> Len(s) = 0) /\ Len(s) \in Nat
          /\ \A j \in 1 .. Len(s) : s[j] \in Linked
      BY <3>2, OrderFacts
    <3>4. s # << >> => 1 \in 1 .. Len(s)
      BY <3>3
    <3>5. QED  BY <3>3, <3>4
  <2>3. IterOK'
    BY <1>3, <2>1, <2>2 DEF Begin, IterOK
  <2>4. QED  BY <2>1, <2>3 DEF IInv
<1>4. CASE Visit
  <2>1. /\ walking = TRUE /\ el # NULL /\ el' = tmp /\ tmp' = After(next', tmp)
        /\ hashv' = hashv /\ walking' = walking
    BY <1>0, <1>4 DEF Visit, IterOK
  <2>2. CASE Unlink(el)
    <3>1. PICK i \in 1 .. Len(Order) : el = Order[i]
      BY <2>1, WhereIs
    <3>2. QED  BY <2>1, <2>2, <3>1, VisitDeletes
  <2>3. CASE Keep
    BY <2>1, <2>3, VisitKeeps
  <2>4. QED  BY <1>4, <2>2, <2>3 DEF Visit
<1>5. CASE End
  <2>1. TableOK' /\ Linked' = Linked
    BY <1>0, <1>5, SameTable DEF End
  <2>2. IterOK'
    BY <1>0, <1>5, <2>1 DEF End, IterOK, After
  <2>3. QED  BY <2>1, <2>2 DEF IInv
<1>6. CASE UNCHANGED vars
  <2>1. TableOK' /\ Linked' = Linked
    BY <1>0, <1>6, SameTable DEF vars
  <2>2. IterOK'
    BY <1>0, <1>6, <2>1 DEF vars, iter, IterOK, After
  <2>3. QED  BY <2>1, <2>2 DEF IInv
<1>7. QED  BY <1>1, <1>2, <1>3, <1>4, <1>5, <1>6 DEF Next

-----------------------------------------------------------------------------
(* The theorems. *)

\* The invariant holds of every state.
THEOREM IInvHolds == Spec => []IInv
BY InitKeeps, StepKeeps, PTL DEF Spec

\* The links of a list lead to its elements.
LEMMA LinksStay ==
  ASSUME NEW s, NEW f, NEW nx, NEW pv, TwoWay(s, f, nx, pv), NEW i \in 1 .. Len(s)
  PROVE  \A x \in {nx[s[i]], pv[s[i]]} : x = NULL \/ x \in DOMAIN nx
<1>1. Len(s) \in Nat /\ \A j \in 1 .. Len(s) : s[j] \in DOMAIN nx
  BY DEF TwoWay, IsList
<1>2. nx[s[i]] = (IF i = Len(s) THEN NULL ELSE s[i + 1]) /\ pv[s[i]] = IF i = 1 THEN NULL ELSE s[i - 1]
  BY DEF TwoWay, IsList, IsBack
<1>3. (i # Len(s) => i + 1 \in 1 .. Len(s)) /\ (i # 1 => i - 1 \in 1 .. Len(s))
  BY <1>1
<1>4. QED  BY <1>1, <1>2, <1>3

\* The type invariant follows from it.
LEMMA TypeFollows == IInv => TypeOK
<1> SUFFICES ASSUME IInv PROVE TypeOK
  OBVIOUS
<1>1. PICK s : s = Order
  OBVIOUS
<1>2. HasOrder(s) /\ TblOK /\ BktsOK /\ IterOK
  BY <1>1 DEF IInv, TableOK
<1>3. /\ Len(s) \in Nat /\ (s = << >> <=> Len(s) = 0) /\ \A i \in 1 .. Len(s) : s[i] \in Linked /\ s[i] # NULL
      /\ head = (IF s = << >> THEN NULL ELSE s[1]) /\ Linked \subseteq Keys
  BY <1>2, OrderFacts
<1>4. IsFiniteSet(Linked) /\ Len(s) = Cardinality(Linked) /\ \A k \in Linked : \E i \in 1 .. Len(s) : s[i] = k
  BY <1>2, OrderFacts
<1>5. PICK ch : HasChains(chains, tbl.log2, Linked, ch)
  BY <1>2 DEF BktsOK, IsTable
<1>6. s # << >> => 1 \in 1 .. Len(s) /\ Len(s) \in 1 .. Len(s)
  BY <1>3
<1>7. head \in Linked \cup {NULL} /\ (head = NULL <=> Linked = {})
  <2>1. CASE s = << >>
    <3>1. \A k : k \notin Linked
      BY <1>3, <1>4, <2>1
    <3>2. QED  BY <1>3, <2>1, <3>1
  <2>2. CASE s # << >>
    BY <1>3, <1>6, <2>2
  <2>3. QED  BY <2>1, <2>2
<1>8. ASSUME NEW k \in Linked PROVE {prev[k], next[k], chains.prev[k], chains.next[k]} \subseteq Linked \cup {NULL}
  <2>1. TwoWay(s, head, next, prev) /\ DOMAIN next = Linked
    BY <1>2 DEF HasOrder, Linked
  <2>2. PICK i \in 1 .. Len(s) : s[i] = k
    BY <1>4
  <2>3. \A x \in {next[k], prev[k]} : x = NULL \/ x \in Linked
    BY <2>1, <2>2, LinksStay
  <2> DEFINE b == ToBkt(k, tbl.log2)
  <2>4. TwoWay(ch[b], chains.bkts[b].first, chains.next, chains.prev) /\ DOMAIN chains.next = Linked
    BY <1>5 DEF HasChains
  <2>5. PICK j \in 1 .. Len(ch[b]) : ch[b][j] = k
    BY <1>5 DEF HasChains
  <2> HIDE DEF b
  <2>6. \A x \in {chains.next[k], chains.prev[k]} : x = NULL \/ x \in Linked
    BY <2>4, <2>5, LinksStay
  <2>7. QED  BY <2>3, <2>6
<1>9. tbl \in [tail : Linked \cup {NULL}, items : 0 .. Cardinality(Keys), log2 : InitLog2 .. MaxLog2,
               ineffective : 0 .. MaxLog2, noexpand : BOOLEAN]
  <2>1. tbl.tail \in Linked \cup {NULL}
    BY <1>2, <1>3, <1>6 DEF HasOrder, TailOf, Last
  <2>2. tbl.items \in 0 .. Cardinality(Keys)
    <3>1. Cardinality(Linked) <= Cardinality(Keys) /\ Cardinality(Keys) \in Nat
      BY <1>3, UtHashAssumption, FS_Subset, FS_CardinalityType
    <3>2. tbl.items = Len(s)
      BY <1>2 DEF HasOrder
    <3>3. QED  BY <1>3, <1>4, <3>1, <3>2
  <2>3. tbl.ineffective \in 0 .. MaxLog2
    BY <1>2, UtHashAssumption DEF TblOK, TblSet
  <2>4. QED  BY <1>2, <2>1, <2>2, <2>3 DEF TblOK, TblSet
<1>10. DOMAIN chains.bkts = 0 .. Pow2[tbl.log2] - 1 /\ DOMAIN chains.next = Linked /\ DOMAIN chains.prev = Linked
  BY <1>5 DEF HasChains, Tables, Bkts
<1>11. {el, tmp} \subseteq Keys \cup {NULL}
  <2>1. el \in Keys \cup {NULL}
    BY <1>2, <1>3 DEF IterOK
  <2>2. tmp \in Keys \cup {NULL}
    BY <1>2, <1>3, <1>8 DEF IterOK, After
  <2>3. QED  BY <2>1, <2>2
<1>12. hashv \in [Keys -> Hashes] /\ walking \in BOOLEAN /\ DOMAIN prev = Linked
  BY <1>2 DEF IInv, TableOK, IterOK, HasOrder
<1>13. QED  BY <1>3, <1>7, <1>8, <1>9, <1>10, <1>11, <1>12 DEF TypeOK

\* Every field of the table keeps its range, and there is a table just when there
\* is an element.
THEOREM TypeCorrect == Spec => []TypeOK
BY IInvHolds, TypeFollows, PTL

\* What HASH_FSCK tests follows from the invariant.
LEMMA FsckFollows == IInv => Fsck
<1> SUFFICES ASSUME IInv PROVE Fsck
  OBVIOUS
<1>1. PICK s : s = Order
  OBVIOUS
<1>2. HasOrder(s) /\ TblOK /\ BktsOK
  BY <1>1 DEF IInv, TableOK
<1>3. PICK ch : HasChains(chains, tbl.log2, Linked, ch)
  BY <1>2 DEF BktsOK, IsTable
<1>4. tbl.log2 \in 0 .. MaxLog2 /\ DOMAIN chains.bkts = Bkts(tbl.log2)
  BY <1>2, <1>3, UtHashAssumption DEF TblOK, TblSet, HasChains, Tables
<1>5. ASSUME NEW b \in Bkts(tbl.log2)
      PROVE  BackLinks(Chain(chains, b), chains.prev) /\ chains.bkts[b].count = Len(Chain(chains, b))
  <2>1. Chain(chains, b) = ch[b]
    BY <1>3, ChainIs
  <2>2. TwoWay(ch[b], chains.bkts[b].first, chains.next, chains.prev) /\ chains.bkts[b].count = Len(ch[b])
    BY <1>3 DEF HasChains
  <2>3. QED  BY <2>1, <2>2 DEF TwoWay, IsBack, BackLinks
<1>6. BackLinks(s, prev) /\ tbl.items = Len(s) /\ tbl.tail = TailOf(s)
  BY <1>2 DEF HasOrder, TwoWay, IsBack, BackLinks
<1>7. Len(s) = Cardinality(Linked) /\ (head = NULL <=> s = << >>)
  <2>1. /\ Len(s) = Cardinality(Linked) /\ Len(s) \in Nat /\ (s = << >> <=> Len(s) = 0)
        /\ head = IF s = << >> THEN NULL ELSE s[1]
    BY <1>2, OrderFacts
  <2>2. \A i \in 1 .. Len(s) : s[i] # NULL
    BY <1>2, OrderFacts
  <2>3. s # << >> => 1 \in 1 .. Len(s)
    BY <2>1
  <2>4. QED  BY <2>1, <2>2, <2>3
<1>8. Len(AllOf(chains, tbl.log2)) = Cardinality(Linked)
  BY <1>2, <1>4, AllAreThere DEF BktsOK
<1>9. QED  BY <1>1, <1>4, <1>5, <1>6, <1>7, <1>8 DEF Fsck, Order, AllOf, TailOf

\* The links of the order and of each chain agree in both directions, and the
\* counts with them, after every operation: no HASH_FSCK of a debugging build
\* can fail.
THEOREM FsckHolds == Spec => []Fsck
BY IInvHolds, FsckFollows, PTL

-----------------------------------------------------------------------------
(* The refinement of the ordered map. *)

\* What HASH_ITER has still to reach.
Left == Walk(el, next)
\* What HASH_FIND answers, for each key.
Answer == [k \in Keys |-> Find(k)]

\* HASH_FIND finds the elements of the order and nothing else.
LEMMA AnswerIs == TableOK => Answer = Map!Answers(Order)
<1> SUFFICES ASSUME TableOK PROVE Answer = Map!Answers(Order)
  OBVIOUS
<1>1. PICK s : s = Order
  OBVIOUS
<1>2. HasOrder(s) /\ BktsOK
  BY <1>1 DEF TableOK
<1>3. PICK ch : HasChains(chains, tbl.log2, Linked, ch)
  BY <1>2 DEF BktsOK, IsTable
<1>4. /\ s \in Seq(Keys) /\ Len(s) \in Nat /\ (s = << >> <=> Len(s) = 0)
      /\ \A i \in 1 .. Len(s) : s[i] \in Linked /\ s[i] # NULL
      /\ head = (IF s = << >> THEN NULL ELSE s[1]) /\ \A k \in Linked : \E i \in 1 .. Len(s) : s[i] = k
  BY <1>2, OrderFacts
<1>5. Map!Members(s) = Linked
  BY <1>4 DEF Map!Members
<1>6. ASSUME NEW k \in Keys PROVE Find(k) = IF k \in Linked THEN k ELSE NULL
  <2> DEFINE b == ToBkt(k, tbl.log2)
  <2>1. CASE k \in Linked
    <3>1. head # NULL
      <4>1. PICK i \in 1 .. Len(s) : s[i] = k
        BY <1>4, <2>1
      <4>2. s # << >> /\ 1 \in 1 .. Len(s)
        BY <1>4, <4>1
      <4>3. QED  BY <1>4, <4>2
    <3>2. b \in Bkts(tbl.log2) /\ \E i \in 1 .. Len(ch[b]) : ch[b][i] = k
      BY <1>3, <2>1 DEF HasChains
    <3>3. Chain(chains, b) = ch[b]
      BY <1>3, <3>2, ChainIs
    <3>4. Contains(Chain(chains, b), k)
      BY <3>2, <3>3 DEF Contains
    <3>5. QED  BY <2>1, <3>1, <3>4 DEF Find
  <2>2. CASE k \notin Linked
    <3>1. ASSUME head # NULL, Contains(Chain(chains, b), k) PROVE FALSE
      <4>1. b \in Bkts(tbl.log2)
        <5>1. tbl.log2 \in 0 .. MaxLog2 /\ hashv \in [Keys -> Hashes]
          BY UtHashAssumption DEF TableOK, TblOK, TblSet
        <5>2. QED  BY <5>1, ToBktIn
      <4>2. Chain(chains, b) = ch[b]
        BY <1>3, <4>1, ChainIs
      <4>3. PICK i \in 1 .. Len(ch[b]) : ch[b][i] = k
        BY <3>1, <4>2 DEF Contains
      <4>4. TwoWay(ch[b], chains.bkts[b].first, chains.next, chains.prev) /\ DOMAIN chains.next = Linked
        BY <1>3, <4>1 DEF HasChains
      <4> HIDE DEF b
      <4>5. k \in Linked
        BY <4>3, <4>4 DEF TwoWay, IsList
      <4>6. QED  BY <2>2, <4>5
    <3>2. QED  BY <2>2, <3>1, Zenon DEF Find
  <2>3. QED  BY <2>1, <2>2
<1>7. QED  BY <1>1, <1>5, <1>6 DEF Answer, Map!Answers

\* Also after a step.
LEMMA AnswerNext == TableOK' => Answer' = Map!Answers(Order')
<1>1. TableOK' => (Answer = Map!Answers(Order))'
  BY AnswerIs, PTL
<1>2. QED  BY <1>1 DEF Map!Answers, Map!Members

\* The part of the order that HASH_ITER has still to reach.
LEMMA LeftIs ==
  IInv => \/ el = NULL /\ Left = << >>
          \/ \E i \in 1 .. Len(Order) : el = Order[i] /\ el # NULL /\ Left = SubSeq(Order, i, Len(Order))
<1> SUFFICES ASSUME IInv
             PROVE  \/ el = NULL /\ Left = << >>
                    \/ \E i \in 1 .. Len(Order) :
                         el = Order[i] /\ el # NULL /\ Left = SubSeq(Order, i, Len(Order))
  OBVIOUS
<1>1. PICK s : s = Order
  OBVIOUS
<1>2. \A i \in 1 .. Len(s) : s[i] # NULL
  BY <1>1, OrderFacts DEF IInv, TableOK
<1>3. QED  BY <1>1, <1>2, WhereIs DEF Left

\* Also after a step.
LEMMA LeftNext ==
  IInv' => \/ el' = NULL /\ Left' = << >>
           \/ \E i \in 1 .. Len(Order') :
                el' = Order'[i] /\ el' # NULL /\ Left' = SubSeq(Order', i, Len(Order'))
<1>1. IInv' => (\/ el = NULL /\ Left = << >>
                \/ \E i \in 1 .. Len(Order) :
                     el = Order[i] /\ el # NULL /\ Left = SubSeq(Order, i, Len(Order)))'
  BY LeftIs, PTL
<1>2. QED  BY <1>1

\* The end of a sequence does not notice that an element before it is removed.
LEMMA EndOfRemoved ==
  ASSUME NEW s \in Seq(Keys), NEW i \in 1 .. Len(s)
  PROVE  SubSeq(RemoveAt(s, i), i, Len(RemoveAt(s, i))) = SubSeq(s, i + 1, Len(s))
<1> DEFINE u == RemoveAt(s, i)
           a == SubSeq(u, i, Len(s) - 1)
           b == SubSeq(s, i + 1, Len(s))
<1>1. Len(s) \in Nat /\ i \in Int /\ \A j \in 1 .. Len(s) : s[j] \in Keys
  OBVIOUS
<1>2. /\ u \in Seq(Keys) /\ Len(u) = Len(s) - 1
      /\ \A j \in 1 .. Len(s) - 1 : u[j] = IF j < i THEN s[j] ELSE s[j + 1]
  BY RemoveAtIs
<1> HIDE DEF u
<1>3. a \in Seq(Keys) /\ Len(a) = Len(s) - i /\ \A j \in 1 .. Len(s) - i : a[j] = s[i + j]
  <2>1. \A j \in i .. Len(s) - 1 : u[j] \in Keys
    BY <1>1, <1>2
  <2>2. /\ a \in Seq(Keys) /\ Len(a) = IF i <= Len(s) - 1 THEN Len(s) - 1 - i + 1 ELSE 0
        /\ \A j \in 1 .. Len(s) - 1 - i + 1 : a[j] = u[i + j - 1]
    BY <1>1, <2>1, SubSeqProperties
  <2> HIDE DEF a
  <2>3. ASSUME NEW j \in 1 .. Len(s) - i PROVE a[j] = s[i + j]
    <3>1. i + j - 1 \in 1 .. Len(s) - 1 /\ ~(i + j - 1 < i) /\ i + j - 1 + 1 = i + j
      BY <1>1
    <3>2. u[i + j - 1] = s[i + j - 1 + 1]
      BY <1>2, <3>1
    <3>3. QED  BY <1>1, <2>2, <3>1, <3>2
  <2>4. QED  BY <1>1, <2>2, <2>3
<1>4. b \in Seq(Keys) /\ Len(b) = Len(s) - i /\ \A j \in 1 .. Len(s) - i : b[j] = s[i + j]
  <2>1. \A j \in i + 1 .. Len(s) : s[j] \in Keys
    BY <1>1
  <2>2. /\ b \in Seq(Keys) /\ Len(b) = IF i + 1 <= Len(s) THEN Len(s) - (i + 1) + 1 ELSE 0
        /\ \A j \in 1 .. Len(s) - (i + 1) + 1 : b[j] = s[i + 1 + j - 1]
    BY <1>1, <2>1, SubSeqProperties
  <2> HIDE DEF b
  <2>3. QED  BY <1>1, <2>2
<1>5. a = b
  <2> HIDE DEF a, b
  <2>1. QED  BY <1>3, <1>4, SeqEqual
<1>6. QED  BY <1>2, <1>5 DEF u

\* An element without which the order is the order with its place removed.
LEMMA WithoutIs ==
  ASSUME NEW s, HasOrder(s), NEW i \in 1 .. Len(s)
  PROVE  Map!Without(s, s[i]) = RemoveAt(s, i) /\ s[i] \in Map!Members(s)
<1>1. DOMAIN s = 1 .. Len(s) /\ \A j, k \in 1 .. Len(s) : s[j] = s[k] => j = k
  BY OrderFacts
<1>2. (CHOOSE j \in DOMAIN s : s[j] = s[i]) = i
  BY <1>1
<1>3. QED  BY <1>1, <1>2 DEF Map!Without, Map!RemoveAt, RemoveAt, Map!Members

\* HASH_ITER comes to the end of the order just when el is NULL.
LEMMA AtTheEnd == IInv => (el = NULL <=> Left = << >>)
<1> SUFFICES ASSUME IInv PROVE el = NULL <=> Left = << >>
  OBVIOUS
<1>1. PICK s : s = Order
  OBVIOUS
<1>2. HasOrder(s)
  BY <1>1 DEF IInv, TableOK
<1>3. s \in Seq(Keys) /\ Len(s) \in Nat
  BY <1>2, OrderFacts
<1>4. ASSUME NEW i \in 1 .. Len(s) PROVE SubSeq(s, i, Len(s)) # << >>
  <2>1. \A j \in i .. Len(s) : s[j] \in Keys
    BY <1>3
  <2>2. Len(SubSeq(s, i, Len(s))) = Len(s) - i + 1
    BY <1>3, <2>1, SubSeqProperties
  <2>3. Len(SubSeq(s, i, Len(s))) > 0
    BY <1>3, <2>2
  <2>4. QED  BY <2>3
<1>5. QED  BY <1>1, <1>4, LeftIs

\* Where there is no element at which HASH_ITER is, nothing is left to reach.
LEMMA NothingLeft == IInv /\ IInv' /\ el = NULL /\ el' = NULL => Left' = Left
<1>1. IInv' => (el = NULL <=> Left = << >>)'
  BY AtTheEnd, PTL
<1>2. QED  BY <1>1, AtTheEnd

\* HASH_ADD is the addition of the map.
LEMMA AddRefines ==
  ASSUME IInv, IInv', NEW k \in Keys, Add(k)
  PROVE  Map!Add(k)
<1>1. TableOK /\ Order' = Append(Order, k)
  BY AddKeeps DEF IInv
<1>2. PICK s : s = Order
  OBVIOUS
<1>3. k \notin Map!Members(s)
  <2>1. DOMAIN s = 1 .. Len(s) /\ \A i \in 1 .. Len(s) : s[i] \in Linked
    BY <1>1, <1>2, OrderFacts DEF TableOK
  <2>2. k \notin Linked
    BY DEF Add
  <2>3. QED  BY <2>1, <2>2 DEF Map!Members
<1>4. ~walking /\ walking' = walking /\ el = NULL /\ el' = NULL
  BY DEF Add, iter, IInv, IterOK
<1>5. Left' = Left
  BY <1>4, NothingLeft
<1>6. QED  BY <1>1, <1>2, <1>3, <1>4, <1>5 DEF Map!Add, Order, Left

\* HASH_DELETE is its deletion.
LEMMA DeleteRefines ==
  ASSUME IInv, IInv', NEW k \in Keys, Delete(k)
  PROVE  Map!Delete(k)
<1>1. PICK i \in 1 .. Len(Order) : Order[i] = k
  BY DEF Delete, IInv, TableOK, HasOrder
<1>2. hashv' = hashv /\ Unlink(Order[i])
  BY <1>1 DEF Delete
<1>3. Order' = RemoveAt(Order, i)
  BY <1>2, UnlinkKeeps DEF IInv
<1>4. PICK s : s = Order
  OBVIOUS
<1>5. Map!Without(s, k) = RemoveAt(s, i) /\ k \in Map!Members(s)
  BY <1>1, <1>4, WithoutIs DEF IInv, TableOK
<1>6. ~walking /\ walking' = walking /\ el = NULL /\ el' = NULL
  BY DEF Delete, iter, IInv, IterOK
<1>7. Left' = Left
  BY <1>6, NothingLeft
<1>8. QED  BY <1>3, <1>4, <1>5, <1>6, <1>7 DEF Map!Delete, Order, Left

\* The walk begins with the whole order before it.
LEMMA BeginRefines ==
  ASSUME IInv, IInv', Begin
  PROVE  Map!Begin
<1>1. Order' = Order /\ el' = head /\ Left' = Order'
  BY DEF Begin, Order, Left
<1>2. QED  BY <1>1 DEF Map!Begin, Begin, Order, Left

\* The body of the loop reaches the next element, also when it deletes it.
LEMMA VisitRefines ==
  ASSUME IInv, IInv', Visit
  PROVE  Map!Reach
<1>1. /\ walking = TRUE /\ el # NULL /\ el' = tmp /\ tmp' = After(next', tmp)
      /\ hashv' = hashv /\ walking' = walking
  BY DEF Visit, IInv, IterOK
<1>2. PICK i \in 1 .. Len(Order) : el = Order[i] /\ Left = SubSeq(Order, i, Len(Order))
                                   /\ tmp = IF i = Len(Order) THEN NULL ELSE Order[i + 1]
  BY <1>1, WhereIs DEF Left
<1>3. PICK s, t : s = Order /\ t = Order'
  OBVIOUS
<1>4. /\ HasOrder(s) /\ s \in Seq(Keys) /\ Len(s) \in Nat /\ i \in 1 .. Len(s)
      /\ \A j, k \in 1 .. Len(s) : s[j] = s[k] => j = k
      /\ \A j \in 1 .. Len(s) : s[j] # NULL
  BY <1>2, <1>3, OrderFacts DEF IInv, TableOK
<1>5. Left # << >> /\ Head(Left) = s[i] /\ Tail(Left) = SubSeq(s, i + 1, Len(s))
  <2>1. Left # << >>
    BY <1>1, AtTheEnd
  <2>2. Len(s) \in i .. Len(s)
    BY <1>4
  <2>3. QED  BY <1>2, <1>3, <1>4, <2>1, <2>2, HeadTailOfSubSeq
\* What the step leads to is there in the order that it leaves, at place m.
<1>6. ASSUME NEW m \in Nat, tmp = (IF m = Len(t) + 1 THEN NULL ELSE t[m]), m \in 1 .. Len(t) + 1,
             \A j, k \in 1 .. Len(t) : t[j] = t[k] => j = k, \A j \in 1 .. Len(t) : t[j] # NULL,
             Len(t) \in Nat
      PROVE  Left' = IF m = Len(t) + 1 THEN << >> ELSE SubSeq(t, m, Len(t))
  <2>1. \/ el' = NULL /\ Left' = << >>
        \/ \E j \in 1 .. Len(t) : el' = t[j] /\ el' # NULL /\ Left' = SubSeq(t, j, Len(t))
    BY <1>3, LeftNext
  <2>2. CASE m = Len(t) + 1
    BY <1>1, <1>6, <2>1, <2>2
  <2>3. CASE m # Len(t) + 1
    <3>1. m \in 1 .. Len(t) /\ el' = t[m] /\ el' # NULL
      BY <1>1, <1>6, <2>3
    <3>2. PICK j \in 1 .. Len(t) : el' = t[j] /\ Left' = SubSeq(t, j, Len(t))
      BY <2>1, <3>1
    <3>3. j = m
      BY <1>6, <3>1, <3>2
    <3>4. QED  BY <2>3, <3>2, <3>3
  <2>4. QED  BY <2>2, <2>3
<1>7. CASE Unlink(el)
  <2>1. t = RemoveAt(s, i) /\ HasOrder(Order)'
    BY <1>1, <1>2, <1>3, <1>7, VisitDeletes DEF IInv, TableOK
  <2>2. /\ Len(t) = Len(s) - 1
        /\ \A j \in 1 .. Len(s) - 1 : t[j] = IF j < i THEN s[j] ELSE s[j + 1]
    BY <1>4, <2>1, RemoveAtIs
  <2>3. tmp = IF i = Len(t) + 1 THEN NULL ELSE t[i]
    BY <1>2, <1>3, <1>4, <2>2
  <2>4. /\ \A j, k \in 1 .. Len(t) : t[j] = t[k] => j = k
        /\ \A j \in 1 .. Len(t) : t[j] # NULL
    <3> DEFINE at(j) == IF j < i THEN j ELSE j + 1
    <3>1. \A j \in 1 .. Len(t) : at(j) \in 1 .. Len(s) /\ t[j] = s[at(j)]
      BY <1>4, <2>2
    <3>2. \A j, k \in 1 .. Len(t) : at(j) = at(k) => j = k
      BY <1>4, <2>2
    <3> HIDE DEF at
    <3>3. QED  BY <1>4, <3>1, <3>2
  <2>5. Left' = IF i = Len(t) + 1 THEN << >> ELSE SubSeq(t, i, Len(t))
    BY <1>4, <1>6, <2>2, <2>3, <2>4
  <2>6. SubSeq(t, i, Len(t)) = SubSeq(s, i + 1, Len(s))
    BY <1>4, <2>1, EndOfRemoved
  <2>7. i = Len(t) + 1 => SubSeq(s, i + 1, Len(s)) = << >>
    BY <1>4, <2>2, SubSeqEmpty
  <2>8. Left' = Tail(Left)
    BY <1>5, <2>5, <2>6, <2>7
  <2>9. Map!Without(s, Head(Left)) = t
    BY <1>4, <1>5, <2>1, WithoutIs
  <2>10. QED  BY <1>1, <1>3, <1>5, <2>8, <2>9 DEF Map!Reach, Order, Left
<1>8. CASE Keep
  <2>1. t = s
    BY <1>1, <1>3, <1>8, VisitKeeps
  <2>2. tmp = IF i + 1 = Len(s) + 1 THEN NULL ELSE s[i + 1]
    BY <1>2, <1>3, <1>4
  <2>3. Left' = IF i + 1 = Len(s) + 1 THEN << >> ELSE SubSeq(s, i + 1, Len(s))
    BY <1>4, <1>6, <2>1, <2>2
  <2>4. i + 1 = Len(s) + 1 => SubSeq(s, i + 1, Len(s)) = << >>
    BY <1>4, SubSeqEmpty
  <2>5. Left' = Tail(Left)
    BY <1>5, <2>3, <2>4
  <2>6. QED  BY <1>1, <1>3, <1>5, <2>1, <2>5 DEF Map!Reach, Order, Left
<1>9. QED  BY <1>7, <1>8 DEF Visit

\* The walk ends when there is nothing left.
LEMMA EndRefines ==
  ASSUME IInv, IInv', End
  PROVE  Map!End
<1>1. el = NULL /\ el' = NULL
  BY DEF End
<1>2. Left = << >> /\ Left' = Left
  BY <1>1, AtTheEnd, NothingLeft
<1>3. QED  BY <1>2 DEF Map!End, End, Order, Left

\* Every step of the table is a step of the map, or changes nothing of it.
LEMMA StepRefines ==
  IInv /\ IInv' /\ [Next]_vars => [Map!Next]_<<Order, Left, walking, Answer>>
<1> SUFFICES ASSUME IInv, IInv', [Next]_vars
             PROVE  [Map!Next]_<<Order, Left, walking, Answer>>
  OBVIOUS
<1>1. Answer' = Map!Answers(Order')
  BY AnswerNext DEF IInv
<1>2. ASSUME NEW k \in Keys, Add(k) PROVE Map!Add(k)
  BY <1>2, AddRefines
<1>3. ASSUME NEW k \in Keys, Delete(k) PROVE Map!Delete(k)
  BY <1>3, DeleteRefines
<1>4. (Begin => Map!Begin) /\ (Visit => Map!Reach) /\ (End => Map!End)
  BY BeginRefines, VisitRefines, EndRefines
<1>5. Next => Map!Next
  BY <1>1, <1>2, <1>3, <1>4 DEF Next, Map!Next, Answer, Order
<1>6. CASE UNCHANGED vars
  <2>1. UNCHANGED <<Order, Left, walking>>
    BY <1>6 DEF vars, iter, Order, Left
  <2>2. Answer = Map!Answers(Order)
    BY AnswerIs DEF IInv
  <2>3. QED  BY <1>1, <2>1, <2>2
<1>7. QED  BY <1>5, <1>6

\* The table begins as the map does.
LEMMA InitRefines == Init => Map!Init
<1> SUFFICES ASSUME Init PROVE Map!Init
  OBVIOUS
<1>1. IInv /\ el = NULL /\ walking = FALSE
  BY InitKeeps DEF Init
<1>2. Left = << >>
  BY <1>1, AtTheEnd
<1>3. Order = << >>
  BY <1>1, <1>2 DEF Init, Order, Left
<1>4. Answer = Map!Answers(<< >>)
  BY <1>1, <1>3, AnswerIs DEF IInv
<1>5. QED  BY <1>1, <1>2, <1>3, <1>4 DEF Map!Init, Order, Left, Answer

\* The hash table implements the ordered map: whatever the hash function, the
\* number of buckets it begins with and the number of elements, HASH_FIND finds
\* each element there is and no other, and HASH_ITER reaches each element once,
\* oldest first, also while the loop deletes what it has reached.
THEOREM MapIsOrdered == Spec => IsOrderedMap
<1>1. Init /\ [][Next]_vars /\ []IInv => Map!Init /\ [][Map!Next]_<<Order, Left, walking, Answer>>
  BY InitRefines, StepRefines, PTL
<1>2. QED  BY <1>1, IInvHolds, PTL DEF Spec, IsOrderedMap, Map!Spec, Order, Left, Answer
=============================================================================
