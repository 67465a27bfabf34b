---------------------------- MODULE FsCmds_proofs ----------------------------
(***************************************************************************)
(* Proofs about FsCmds, for any number of names, lengths of texts and      *)
(* descriptors: the state of the file commands keeps its ranges, what cd,  *)
(* pwd and realpath answer leads back, ls keeps the order of its           *)
(* arguments, and cat closes what it answers, answers short texts, and     *)
(* overruns its buffer with huge texts only.                               *)
(***************************************************************************)
EXTENDS FsCmds, FiniteSetTheorems, SequenceTheorems, TLAPS

\* The arguments of cat, put together, are a sequence of strings: of each argument
\* itself, or of the members of an array.
IsFlat(f, seqs) == f = [i \in 1 .. Len(seqs) |-> IF i = 1 THEN seqs[i] ELSE f[i - 1] \o seqs[i]]

\* The empty list, one list and two lists, appended.
LEMMA FlattenNone == FlattenSeq(<< >>) = << >>
BY DEF FlattenSeq
\* One list.
LEMMA FlattenOne == ASSUME NEW s PROVE FlattenSeq(<<s>>) = s
<1>1. IsFlat([i \in 1 .. 1 |-> s], <<s>>)
  BY DEF IsFlat
<1>2. IsFlat(CHOOSE f : IsFlat(f, <<s>>), <<s>>)
  BY <1>1
<1>3. (CHOOSE f : IsFlat(f, <<s>>))[1] = s
  BY <1>2 DEF IsFlat
<1>4. FlattenSeq(<<s>>) = (CHOOSE f : IsFlat(f, <<s>>))[1]
  BY DEF FlattenSeq, IsFlat
<1>5. QED  BY <1>3, <1>4
\* Two lists.
LEMMA FlattenTwo == ASSUME NEW s, NEW u PROVE FlattenSeq(<<s, u>>) = s \o u
<1> DEFINE w == <<s, u>>
           g == [i \in 1 .. 2 |-> IF i = 1 THEN s ELSE s \o u]
<1>1. IsFlat(g, w)
  <2>1. Len(w) = 2 /\ w[1] = s /\ w[2] = u
    OBVIOUS
  <2>2. g[1] = s /\ g[2] = s \o u
    OBVIOUS
  <2>3. \A i \in 1 .. 2 : g[i] = IF i = 1 THEN w[i] ELSE g[i - 1] \o w[i]
    <3>1. \A i \in 1 .. 2 : i = 1 \/ i = 2
      OBVIOUS
    <3>2. 2 - 1 = 1 /\ 2 # 1
      OBVIOUS
    <3> HIDE DEF g, w
    <3>3. QED  BY <2>1, <2>2, <3>1, <3>2
  <2>4. g = [i \in 1 .. 2 |-> g[i]]
    OBVIOUS
  <2> HIDE DEF g, w
  <2>5. QED  BY <2>1, <2>3, <2>4 DEF IsFlat
<1>2. IsFlat(CHOOSE f : IsFlat(f, w), w)
  BY <1>1
<1>3. (CHOOSE f : IsFlat(f, w))[2] = s \o u
  <2> DEFINE f == CHOOSE h : IsFlat(h, w)
  <2>1. IsFlat(f, w) /\ Len(w) = 2 /\ w[1] = s /\ w[2] = u
    BY <1>2
  <2> HIDE DEF f, w
  <2>2. f = [i \in 1 .. 2 |-> IF i = 1 THEN w[i] ELSE f[i - 1] \o w[i]]
    BY <2>1 DEF IsFlat
  <2>3. 1 \in 1 .. 2 /\ 2 \in 1 .. 2 /\ 2 # 1 /\ 2 - 1 = 1
    OBVIOUS
  <2>4. f[1] = s
    BY <2>1, <2>2, <2>3, Zenon
  <2>5. f[2] = f[1] \o u
    BY <2>1, <2>2, <2>3, Zenon
  <2>6. QED  BY <2>4, <2>5 DEF f
<1>4. FlattenSeq(w) = (CHOOSE f : IsFlat(f, w))[2]
  BY DEF FlattenSeq, IsFlat
<1>5. QED  BY <1>3, <1>4

\* What a script may pass to a command.
LEMMA ValueIs ==
  ASSUME NEW v \in Values
  PROVE  \/ \E p \in Paths \cup {Star} : v = Str(p)
         \/ v = Other
         \/ v = Arr(<< >>)
         \/ \E p \in Paths, n \in Names : v = Arr(<<p, Rel(n)>>)
<1> DEFINE A1 == {Str(p) : p \in Paths \cup {Star}}
           A2 == {Other, Arr(<< >>)}
           A3 == {Arr(<<p, Rel(n)>>) : p \in Paths, n \in Names}
<1>1. v \in A1 => \E p \in Paths \cup {Star} : v = Str(p)
  OBVIOUS
<1>2. v \in A2 => v = Other \/ v = Arr(<< >>)
  OBVIOUS
<1>3. v \in A3 => \E p \in Paths, n \in Names : v = Arr(<<p, Rel(n)>>)
  OBVIOUS
<1>4. Values = A1 \cup A2 \cup A3
  BY DEF Values, Singles
<1> HIDE DEF A1, A2, A3
<1>5. v \in A1 \/ v \in A2 \/ v \in A3
  BY <1>4
<1>6. QED  BY <1>1, <1>2, <1>3, <1>5, Zenon

\* The strings in an argument list.
LEMMA StringsAreSeq ==
  ASSUME NEW args \in Lists PROVE AllStrings(args) \in Seq(Paths \cup {Star})
<1> DEFINE P == Paths \cup {Star}
<1>1. \A v \in Values : Strings(v) \in Seq(P)
  <2> SUFFICES ASSUME NEW v \in Values PROVE Strings(v) \in Seq(P)
    OBVIOUS
  <2>1. CASE \E p \in P : v = Str(p)
    BY <2>1 DEF Strings, String, Str
  <2>2. CASE v = Other
    BY <2>2 DEF Strings, String, Other
  <2>3. CASE v = Arr(<< >>)
    BY <2>3 DEF Strings, String, Arr
  <2>4. CASE \E p \in Paths, n \in Names : v = Arr(<<p, Rel(n)>>)
    <3>1. PICK p \in Paths, n \in Names : v = Arr(<<p, Rel(n)>>)
      BY <2>4
    <3>2. Rel(n) \in Paths
      BY Zenon DEF Paths
    <3>3. <<p, Rel(n)>> \in Seq(P)
      BY <3>2
    <3>4. QED  BY <3>1, <3>3 DEF Strings, String, Arr
  <2>5. QED  BY <2>1, <2>2, <2>3, <2>4, ValueIs, Zenon
<1>2. CASE args = << >>
  <2>1. [i \in DOMAIN args |-> Strings(args[i])] = << >>
    BY <1>2
  <2>2. AllStrings(args) = << >>
    BY <2>1, FlattenNone, Zenon DEF AllStrings
  <2>3. QED  BY <2>2
<1>3. CASE \E v \in Values : args = <<v>>
  <2>1. PICK v \in Values : args = <<v>>
    BY <1>3
  <2>2. [i \in DOMAIN args |-> Strings(args[i])] = <<Strings(v)>>
    BY <2>1
  <2>3. QED  BY <1>1, <2>2, FlattenOne DEF AllStrings
<1>4. CASE \E v, w \in Values : args = <<v, w>>
  <2>1. PICK v \in Values, w \in Values : args = <<v, w>>
    BY <1>4
  <2>2. [i \in DOMAIN args |-> Strings(args[i])] = <<Strings(v), Strings(w)>>
    BY <2>1
  <2>3. AllStrings(args) = FlattenSeq(<<Strings(v), Strings(w)>>)
    BY <2>2, Zenon DEF AllStrings
  <2>4. AllStrings(args) = Strings(v) \o Strings(w)
    BY <2>3, FlattenTwo
  <2>5. QED  BY <1>1, <2>4
<1>5. args = << >> \/ (\E v \in Values : args = <<v>>) \/ \E v, w \in Values : args = <<v, w>>
  <2>1. Singles \subseteq Values
    BY DEF Values
  <2>2. QED  BY <2>1 DEF Lists
<1>6. QED  BY <1>2, <1>3, <1>4, <1>5, Zenon

-----------------------------------------------------------------------------
(* Selection: the members of a sequence that are in a set, in their order. *)

\* Induction: a set that has 0, and the successor of each of its numbers below n,
\* has every number up to n.
LEMMA UpTo ==
  ASSUME NEW n \in Nat, NEW T, 0 \in T, \A i \in 0 .. n - 1 : i \in T => i + 1 \in T
  PROVE  \A i \in 0 .. n : i \in T
<1> DEFINE Out == {i \in 0 .. n : i \notin T}
<1> SUFFICES ASSUME Out # {} PROVE FALSE
  OBVIOUS
<1>1. Out \in SUBSET Nat
  OBVIOUS
<1>2. PICK x \in Out : \A y \in Out : <<y, x>> \notin OpToRel(<, Nat)
  <2> HIDE DEF Out
  <2> QED  BY <1>1, NatLessThanWellFounded, WFMin, Zenon
<1>3. \A y \in Out : ~ (y < x)
  <2> HIDE DEF Out
  <2> QED  BY <1>1, <1>2 DEF OpToRel
<1>4. x # 0 /\ x \in 0 .. n /\ x \notin T
  OBVIOUS
<1>5. x - 1 \in 0 .. n - 1 /\ x - 1 \notin Out /\ x - 1 \in 0 .. n /\ (x - 1) + 1 = x
  BY <1>3, <1>4
<1>6. QED  BY <1>4, <1>5

\* What is kept of the first elements of s, up to the n-th.
IsKept(f, s, S, n) ==
  f = [i \in 0 .. n |-> IF i = 0 THEN << >> ELSE IF s[i] \in S THEN Append(f[i - 1], s[i]) ELSE f[i - 1]]

\* There is such a function, and what it has at the end are Those.
LEMMA ThoseAreKept ==
  ASSUME NEW s, Len(s) \in Nat, NEW S
  PROVE  \E f : IsKept(f, s, S, Len(s)) /\ Those(s, S) = f[Len(s)]
<1> DEFINE T == {n \in 0 .. Len(s) : \E f : IsKept(f, s, S, n)}
<1>1. 0 \in T
  <2>1. IsKept([i \in 0 .. 0 |-> << >>], s, S, 0)
    BY DEF IsKept
  <2>2. QED  BY <2>1
<1>2. ASSUME NEW n \in 0 .. Len(s) - 1, n \in T PROVE n + 1 \in T
  <2>1. PICK f : IsKept(f, s, S, n)
    BY <1>2
  <2> DEFINE last == IF s[n + 1] \in S THEN Append(f[n], s[n + 1]) ELSE f[n]
             g == [i \in 0 .. n + 1 |-> IF i = n + 1 THEN last ELSE f[i]]
  <2>2. \A i \in 0 .. n : g[i] = f[i]
    OBVIOUS
  <2>3. g[n + 1] = last
    OBVIOUS
  <2> HIDE DEF last
  <2>4. ASSUME NEW i \in 0 .. n + 1
        PROVE  g[i] = IF i = 0 THEN << >> ELSE IF s[i] \in S THEN Append(g[i - 1], s[i]) ELSE g[i - 1]
    <3>1. CASE i = n + 1
      <4>1. i # 0 /\ i - 1 = n /\ n \in 0 .. n
        BY <3>1
      <4> HIDE DEF g
      <4>2. QED  BY <2>2, <2>3, <3>1, <4>1, Zenon DEF last
    <3>2. CASE i # n + 1
      <4>1. i \in 0 .. n /\ (i # 0 => i - 1 \in 0 .. n)
        BY <3>2
      <4>2. f[i] = IF i = 0 THEN << >> ELSE IF s[i] \in S THEN Append(f[i - 1], s[i]) ELSE f[i - 1]
        BY <2>1, <4>1, Zenon DEF IsKept
      <4> HIDE DEF g
      <4>3. QED  BY <2>2, <4>1, <4>2, Zenon
    <3>3. QED  BY <3>1, <3>2
  <2>5. g = [i \in 0 .. n + 1 |-> g[i]]
    OBVIOUS
  <2> HIDE DEF g
  <2>6. IsKept(g, s, S, n + 1)
    BY <2>4, <2>5, Zenon DEF IsKept
  <2>7. QED  BY <2>6
<1>3. Len(s) \in T
  <2> HIDE DEF T
  <2>1. \A n \in 0 .. Len(s) : n \in T
    BY <1>1, <1>2, UpTo
  <2>2. QED  BY <2>1
<1>4. IsKept(CHOOSE f : IsKept(f, s, S, Len(s)), s, S, Len(s))
  BY <1>3
<1>5. Those(s, S) = (CHOOSE f : IsKept(f, s, S, Len(s)))[Len(s)]
  BY DEF Those, IsKept
<1>6. QED  BY <1>4, <1>5, Zenon

\* Those are in the set; they are as many as there are places with a member of
\* the set; and they are all when every element is one.
LEMMA ThoseIs ==
  ASSUME NEW V, NEW s \in Seq(V), NEW S
  PROVE  /\ Those(s, S) \in Seq(V \cap S)
         /\ Len(Those(s, S)) = Cardinality({i \in 1 .. Len(s) : s[i] \in S})
         /\ (\A i \in 1 .. Len(s) : s[i] \in S) => Those(s, S) = s
<1>1. Len(s) \in Nat
  OBVIOUS
<1>2. PICK f : IsKept(f, s, S, Len(s)) /\ Those(s, S) = f[Len(s)]
  BY <1>1, ThoseAreKept
<1>3. f[0] = << >>
  BY <1>1, <1>2 DEF IsKept
<1>4. ASSUME NEW n \in 0 .. Len(s) - 1
      PROVE  f[n + 1] = IF s[n + 1] \in S THEN Append(f[n], s[n + 1]) ELSE f[n]
  <2>1. PICK m : m = n + 1
    OBVIOUS
  <2>2. m \in 0 .. Len(s) /\ m # 0 /\ m - 1 = n
    BY <1>1, <2>1
  <2>3. f = [i \in 0 .. Len(s) |->
              IF i = 0 THEN << >> ELSE IF s[i] \in S THEN Append(f[i - 1], s[i]) ELSE f[i - 1]]
    BY <1>2 DEF IsKept
  <2>4. f[m] = IF s[m] \in S THEN Append(f[m - 1], s[m]) ELSE f[m - 1]
    BY <2>2, <2>3, Zenon
  <2>5. QED  BY <2>1, <2>2, <2>4, Zenon
<1>5. Those(s, S) \in Seq(V \cap S)
  <2> DEFINE T == {n \in 0 .. Len(s) : f[n] \in Seq(V \cap S)}
  <2>1. 0 \in T
    <3>1. << >> \in Seq(V \cap S) /\ 0 \in 0 .. Len(s)
      BY <1>1
    <3>2. QED  BY <1>3, <3>1, Zenon
  <2>2. ASSUME NEW n \in 0 .. Len(s) - 1, n \in T PROVE n + 1 \in T
    <3>1. n + 1 \in 0 .. Len(s) /\ s[n + 1] \in V /\ f[n] \in Seq(V \cap S)
      BY <1>1, <2>2
    <3>2. CASE s[n + 1] \in S
      <4>1. Append(f[n], s[n + 1]) \in Seq(V \cap S)
        BY <3>1, <3>2, AppendProperties
      <4>2. QED  BY <1>4, <3>1, <3>2, <4>1, Zenon
    <3>3. CASE s[n + 1] \notin S
      BY <1>4, <3>1, <3>3
    <3>4. QED  BY <3>2, <3>3
  <2> HIDE DEF T
  <2>3. \A n \in 0 .. Len(s) : n \in T
    BY <1>1, <2>1, <2>2, UpTo
  <2>4. QED  BY <1>1, <1>2, <2>3 DEF T
<1>6. Len(Those(s, S)) = Cardinality({i \in 1 .. Len(s) : s[i] \in S})
  <2> DEFINE at(n) == {i \in 1 .. n : s[i] \in S}
             T == {n \in 0 .. Len(s) : f[n] \in Seq(V) /\ Len(f[n]) = Cardinality(at(n))}
  <2>1. 0 \in T
    <3>1. at(0) = {}
      OBVIOUS
    <3>2. << >> \in Seq(V) /\ 0 \in 0 .. Len(s) /\ Len(<< >>) = 0
      BY <1>1
    <3> HIDE DEF at
    <3>3. QED  BY <1>3, <3>1, <3>2, FS_EmptySet, Zenon
  <2>2. ASSUME NEW n \in 0 .. Len(s) - 1, n \in T PROVE n + 1 \in T
    <3>1. n + 1 \in 0 .. Len(s) /\ s[n + 1] \in V /\ f[n] \in Seq(V) /\ Len(f[n]) = Cardinality(at(n))
      BY <1>1, <2>2
    <3>2. IsFiniteSet(at(n)) /\ n + 1 \notin at(n)
      <4>1. IsFiniteSet(1 .. n) /\ at(n) \in SUBSET (1 .. n)
        BY FS_Interval
      <4>2. IsFiniteSet(at(n))
        <5> HIDE DEF at
        <5>1. QED  BY <4>1, FS_Subset
      <4>3. QED  BY <4>2
    <3>3. CASE s[n + 1] \in S
      <4>1. at(n + 1) = at(n) \cup {n + 1}
        BY <3>3
      <4> HIDE DEF at
      <4>2. Cardinality(at(n + 1)) = Cardinality(at(n)) + 1
        BY <3>2, <4>1, FS_AddElement
      <4>3. Append(f[n], s[n + 1]) \in Seq(V) /\ Len(Append(f[n], s[n + 1])) = Len(f[n]) + 1
        BY <3>1, AppendProperties
      <4>4. f[n + 1] = Append(f[n], s[n + 1])
        BY <1>4, <3>3, Zenon
      <4>5. QED  BY <3>1, <4>2, <4>3, <4>4
    <3>4. CASE s[n + 1] \notin S
      <4>1. at(n + 1) = at(n)
        BY <3>4
      <4> HIDE DEF at
      <4>2. QED  BY <1>4, <3>1, <3>4, <4>1
    <3>5. QED  BY <3>3, <3>4
  <2> HIDE DEF T
  <2>3. \A n \in 0 .. Len(s) : n \in T
    BY <1>1, <2>1, <2>2, UpTo
  <2>4. QED  BY <1>1, <1>2, <2>3 DEF T
<1>7. ASSUME \A i \in 1 .. Len(s) : s[i] \in S PROVE Those(s, S) = s
  <2> DEFINE T == {n \in 0 .. Len(s) : f[n] = SubSeq(s, 1, n)}
  <2>1. 0 \in T
    <3>1. SubSeq(s, 1, 0) = << >> /\ 0 \in 0 .. Len(s)
      BY <1>1, SubSeqEmpty
    <3>2. QED  BY <1>3, <3>1, Zenon
  <2>2. ASSUME NEW n \in 0 .. Len(s) - 1, n \in T PROVE n + 1 \in T
    <3>1. n + 1 \in 1 .. Len(s) /\ 1 \in 1 .. Len(s) /\ n + 1 \in 1 .. n + 1 /\ n + 1 - 1 = n
      BY <1>1
    <3>2. SubSeq(s, 1, n + 1) = SubSeq(s, 1, n) \o <<s[n + 1]>>
      <4>1. n + 1 \in 1 .. Len(s)
        BY <3>1
      <4>2. SubSeq(s, 1, n + 1) = SubSeq(s, 1, (n + 1) - 1) \o <<s[n + 1]>>
        BY <3>1, SubSeqRecursiveSecond
      <4>3. QED  BY <3>1, <4>2
    <3>3. SubSeq(s, 1, n) \in Seq(V) /\ s[n + 1] \in V
      <4>1. \A i \in 1 .. n : s[i] \in V
        BY <1>1, <3>1
      <4>2. SubSeq(s, 1, n) \in Seq(V)
        BY <4>1, SubSeqProperties
      <4>3. QED  BY <3>1, <4>2
    <3>4. f[n + 1] = Append(SubSeq(s, 1, n), s[n + 1])
      BY <1>4, <1>7, <2>2, <3>1
    <3>5. f[n + 1] = SubSeq(s, 1, n + 1)
      BY <3>2, <3>3, <3>4, AppendIsConcat
    <3>6. QED  BY <3>1, <3>5
  <2> HIDE DEF T
  <2>3. \A n \in 0 .. Len(s) : n \in T
    BY <1>1, <2>1, <2>2, UpTo
  <2>4. QED  BY <1>1, <1>2, <2>3, SubSeqFull DEF T
<1>8. QED  BY <1>5, <1>6, <1>7

-----------------------------------------------------------------------------
\* A cat leaves no more files open than the process may have.
LEMMA LeakedInRange ==
  ASSUME leaked \in 0 .. MaxFds, NEW args \in Lists, NEW out PROVE LeakedAfter(args, out) \in 0 .. MaxFds
<1> DEFINE ps == AllStrings(args)
           left == {j \in 1 .. Len(ps) + 1 - 1 : Leaks(ps, out, j)}
<1>1. Len(ps) \in Nat
  BY StringsAreSeq
<1>2. IsFiniteSet(1 .. Len(ps) + 1 - 1)
  BY <1>1, FS_Interval
<1>3. Cardinality(left) \in Nat
  <2>1. IsFiniteSet(left)
    BY <1>2, FS_Subset
  <2>2. QED  BY <2>1, FS_CardinalityType
<1>4. LeakedBefore(ps, out, Len(ps) + 1) = leaked + Cardinality(left)
  BY DEF LeakedBefore
<1> HIDE DEF ps, left
<1>5. LeakedBefore(ps, out, Len(ps) + 1) \in Nat
  BY <1>3, <1>4, FsAssumption
<1>6. QED  BY <1>5, FsAssumption DEF LeakedAfter, ps

-----------------------------------------------------------------------------
\* Each command, and each move of other processes, keeps the ranges.
LEMMA TypeStep == TypeOK /\ [Next]_vars => TypeOK'
<1> SUFFICES ASSUME TypeOK, [Next]_vars PROVE TypeOK'
  OBVIOUS
<1>1. ASSUME NEW args \in Lists, NEW out \in Fails(args), DoCat(args, out) PROVE TypeOK'
  <2>1. leaked' \in 0 .. MaxFds
    BY <1>1, LeakedInRange DEF DoCat, TypeOK
  <2>2. heap' \in {"ok", "broken", "dead"}
    BY <1>1 DEF DoCat, TypeOK
  <2>3. QED  BY <1>1, <2>1, <2>2, Zenon DEF DoCat, TypeOK
<1>2. ASSUME NEW n \in Texts, NEW p \in Paths, DoEcho(n, p) PROVE TypeOK'
  <2>1. File(n) \in Entries
    BY Zenon DEF Entries
  <2>2. dir' \in [Names -> Entries]
    BY <1>2, <2>1 DEF DoEcho, TypeOK
  <2>3. QED  BY <1>2, <2>2, Zenon DEF DoEcho, TypeOK
<1>3. ASSUME NEW p \in Paths, DoCd(p) PROVE TypeOK'
  <2>1. cwd' \in {"home", "away", "gone"} /\ (cwd' = "away" => away)
    <3>1. p.from \in {"cwd", "home", "away"}
      BY DEF Paths, Rel, Abs, Away
    <3>2. QED  BY <1>3, <3>1 DEF DoCd, Chdir, IsDir, From, TypeOK
  <2>2. QED  BY <1>3, <2>1, Zenon DEF DoCd, TypeOK
<1>4. ASSUME NEW n \in Names, Others(n) PROVE TypeOK'
  <2>1. None \in Entries /\ \A m \in Names : Link(m) \in Entries
    BY Zenon DEF Entries
  <2>2. dir' \in [Names -> Entries]
    BY <1>4, <2>1 DEF Others, TypeOK
  <2>3. QED  BY <1>4, <2>2, Zenon DEF Others, TypeOK
<1>5. CASE OthersMove
  BY <1>5 DEF OthersMove, TypeOK
<1>6. CASE Abort
  BY <1>6 DEF Abort, TypeOK
<1>7. CASE UNCHANGED vars
  BY <1>7 DEF vars, TypeOK
<1>8. QED
  BY <1>1, <1>2, <1>3, <1>4, <1>5, <1>6, <1>7 DEF Next, Command

\* cat opens no more files than the process may have, echo writes files into the
\* directory, and cd goes only where a directory is.
THEOREM TypeCorrect == Spec => []TypeOK
<1>1. Init => TypeOK
  BY FsAssumption DEF Init, TypeOK
<1>2. QED  BY <1>1, TypeStep, PTL DEF Spec

\* What cd and pwd answer leads back there from any directory, removed or not, and
\* is what realpath answers for the directory that cd has gone to, or stayed in.
THEOREM AnswersLeadBack == Spec => []CdLeadsBack
<1>1. TypeOK => CdLeadsBack
  <2> SUFFICES ASSUME TypeOK, NEW p \in Paths, NEW c \in Cwds, Chdir(cwd, p) # "gone"
               PROVE  /\ Chdir(c, CdAnswer(cwd, p)) = Chdir(cwd, p)
                      /\ Resolves(Chdir(cwd, p), Here)
                      /\ RealOf(Chdir(cwd, p), Here) = CdAnswer(cwd, p)
    BY DEF CdLeadsBack
  <2> DEFINE d == Chdir(cwd, p)
  <2>1. p.from \in {"cwd", "home", "away"}
    BY DEF Paths, Rel, Abs, Away
  <2>2. d \in {"home", "away"} /\ (d = "away" => away)
    BY <2>1 DEF Chdir, IsDir, From, TypeOK
  <2>3. CdAnswer(cwd, p) = [from |-> d, name |-> Dot]
    BY DEF CdAnswer, Pwd
  <2>4. Here = [from |-> "cwd", name |-> Dot]
    BY DEF Here, Rel
  <2> HIDE DEF d
  <2>5. Chdir(c, [from |-> d, name |-> Dot]) = d
    BY <2>2 DEF Chdir, IsDir, From
  <2>6. Resolves(d, Here) /\ RealOf(d, Here) = [from |-> d, name |-> Dot]
    BY <2>2, <2>4 DEF Resolves, RealOf, IsDir, From
  <2>7. QED  BY <2>3, <2>5, <2>6 DEF d
<1>2. QED  BY <1>1, TypeCorrect, PTL

-----------------------------------------------------------------------------
(* What is packed into one value can be read out of it again. *)

\* The strings in the value that a command answers are those that it found.
LEMMA PackedParts ==
  ASSUME NEW V, NEW s \in Seq(V)
  PROVE  Strings(Pack(s)) = s /\ Parts(Pack(s)) = s
<1>1. CASE s = << >>
  <2>1. Pack(s) = Undefined
    BY <1>1 DEF Pack
  <2>2. QED  BY <1>1, <2>1 DEF Parts, Strings, String, Undefined
<1>2. CASE s # << >> /\ Len(s) = 1
  <2>1. Pack(s) = Str(s[1]) /\ s = <<s[1]>>
    BY <1>2 DEF Pack
  <2>2. Str(s[1]) # Undefined
    BY DEF Str, Undefined
  <2>3. Strings(Str(s[1])) = <<s[1]>>
    BY DEF Strings, String, Str
  <2>4. QED  BY <2>1, <2>2, <2>3, Zenon DEF Parts
<1>3. CASE s # << >> /\ Len(s) # 1
  <2>1. Pack(s) = Arr(s)
    BY <1>3 DEF Pack
  <2>2. Arr(s) # Undefined
    BY DEF Arr, Undefined
  <2>3. Strings(Arr(s)) = s
    BY DEF Strings, Arr
  <2>4. QED  BY <2>1, <2>2, <2>3, Zenon DEF Parts
<1>4. QED  BY <1>1, <1>2, <1>3

\* The strings in a single argument.
LEMMA OneArgument == ASSUME NEW v PROVE AllStrings(<<v>>) = Strings(v)
<1>1. [i \in DOMAIN <<v>> |-> Strings(<<v>>[i])] = <<Strings(v)>>
  OBVIOUS
<1>2. QED  BY <1>1, FlattenOne DEF AllStrings

-----------------------------------------------------------------------------
(* realpath *)

\* What realpath answers to one path is a path, resolves from anywhere, and is its
\* own real path there.
LEMMA RealIsReal ==
  ASSUME TypeOK, NEW p \in Paths, Resolves(cwd, p), NEW c \in Cwds
  PROVE  LET r == RealOf(cwd, p) IN r \in Paths /\ Resolves(c, r) /\ RealOf(c, r) = r
<1> DEFINE r == RealOf(cwd, p)
<1>1. /\ p = [from |-> p.from, name |-> p.name] /\ p.from \in {"cwd", "home", "away"}
      /\ p.name \in Names \cup {Dot}
  BY DEF Paths, Rel, Abs, Away
<1>2. Dot \notin Names
  BY FsAssumption DEF Dot, Names
<1>3. CASE p.name = Dot
  <2>1. IsDir(cwd, p) /\ From(cwd, p) # "gone"
    BY <1>2, <1>3 DEF Resolves, IsFile, IsEntry
  <2>2. From(cwd, p) \in {"home", "away"} /\ (From(cwd, p) = "away" => away)
    BY <1>1, <2>1 DEF From, IsDir, TypeOK
  <2>3. r = [from |-> From(cwd, p), name |-> Dot]
    BY <1>1, <1>3 DEF RealOf
  <2>4. r = Abs(Dot) \/ r = Away
    BY <2>2, <2>3 DEF Abs, Away
  <2>5. r \in Paths
    <3> HIDE DEF r
    <3>1. QED  BY <2>4, Zenon DEF Paths
  <2>6. Resolves(c, r)
    <3> HIDE DEF r
    <3>1. QED  BY <2>2, <2>3 DEF Resolves, IsDir, From
  <2>7. RealOf(c, r) = r
    <3> HIDE DEF r
    <3>1. From(c, r) = r.from /\ r.name = Dot
      BY <2>2, <2>3 DEF From
    <3>2. QED  BY <2>3, <3>1 DEF RealOf
  <2>8. QED  BY <2>5, <2>6, <2>7
<1>4. CASE p.name # Dot
  <2> DEFINE m == Target(p.name)
  <2>1. p.name \in Names /\ dir[m].t = "file"
    BY <1>1, <1>4 DEF Resolves, IsDir, IsFile
  <2>2. dir[p.name] \in Entries
    BY <2>1 DEF TypeOK
  <2>3. dir[p.name].t = "link" => dir[p.name].to \in Names
    <3>1. PICK e \in Entries : e = dir[p.name]
      BY <2>2
    <3>2. e = None \/ (\E n \in Texts : e = File(n)) \/ (\E n \in Names : e = Link(n))
      BY DEF Entries
    <3>3. e.t = "link" => \E n \in Names : e = Link(n)
      BY <3>2 DEF None, File
    <3>4. e.t = "link" => e.to \in Names
      BY <3>3 DEF Link
    <3>5. QED  BY <3>1, <3>4
  <2>4. m \in Names
    BY <2>1, <2>3 DEF Target
  <2>5. r = Abs(m)
    BY <1>4 DEF RealOf
  <2> HIDE DEF m, r
  <2>6. r \in Paths
    BY <2>4, <2>5, Zenon DEF Paths
  <2>7. r.name = m /\ r.from = "home" /\ m # Dot /\ Target(m) = m /\ dir[m] # None
    BY <1>2, <2>1, <2>4, <2>5 DEF Abs, Target, None
  <2>8. Resolves(c, r)
    BY <2>1, <2>4, <2>7 DEF Resolves, IsFile, IsEntry, From
  <2>9. RealOf(c, r) = r
    BY <2>5, <2>7 DEF RealOf
  <2>10. QED  BY <2>6, <2>8, <2>9 DEF r
<1>5. QED  BY <1>3, <1>4

\* The answer of realpath, given back to it from anywhere, is answered again.
LEMMA RealAgain ==
  ASSUME TypeOK, NEW args \in Lists, NEW c \in Cwds
  PROVE  Realpath(c, <<Realpath(cwd, args)>>) = Realpath(cwd, args)
<1> DEFINE P == Paths \cup {Star}
           S == {p \in Paths : Resolves(cwd, p)}
           Sc == {p \in Paths : Resolves(c, p)}
           found == Those(AllStrings(args), S)
           r == [i \in DOMAIN found |-> RealOf(cwd, found[i])]
<1>1. found \in Seq(P \cap S)
  <2>1. AllStrings(args) \in Seq(P)
    BY StringsAreSeq
  <2> HIDE DEF P, S
  <2>2. QED  BY <2>1, ThoseIs
<1>2. Len(found) \in Nat /\ DOMAIN found = 1 .. Len(found) /\ \A i \in 1 .. Len(found) : found[i] \in S
  <2> HIDE DEF found, S, P
  <2>1. QED  BY <1>1
<1>3. \A i \in 1 .. Len(found) : found[i] \in Paths /\ Resolves(cwd, found[i])
  BY <1>2
<1> HIDE DEF found
<1>4. r \in Seq(Paths) /\ Len(r) = Len(found) /\ DOMAIN r = 1 .. Len(found)
  <2>1. \A i \in 1 .. Len(found) : RealOf(cwd, found[i]) \in Paths
    BY <1>3, RealIsReal
  <2>2. r = [i \in 1 .. Len(found) |-> RealOf(cwd, found[i])]
    BY <1>2
  <2>3. r \in [1 .. Len(found) -> Paths]
    BY <2>1, <2>2
  <2> HIDE DEF r
  <2>4. QED  BY <1>2, <2>3
<1>5. \A i \in 1 .. Len(r) : r[i] \in Sc /\ RealOf(c, r[i]) = r[i]
  <2> SUFFICES ASSUME NEW i \in 1 .. Len(found) PROVE r[i] \in Sc /\ RealOf(c, r[i]) = r[i]
    BY <1>4
  <2>1. r[i] = RealOf(cwd, found[i])
    BY <1>2
  <2> HIDE DEF r
  <2>2. QED  BY <1>3, <2>1, RealIsReal
<1>6. Realpath(cwd, args) = Pack(r)
  BY DEF Realpath, found
<1> HIDE DEF r
<1>7. AllStrings(<<Pack(r)>>) = r
  BY <1>4, PackedParts, OneArgument
<1>8. Those(r, Sc) = r
  <2> HIDE DEF Sc
  <2>1. QED  BY <1>4, <1>5, ThoseIs
<1>9. [i \in DOMAIN r |-> RealOf(c, r[i])] = r
  <2>1. r = [i \in DOMAIN r |-> r[i]]
    BY <1>4
  <2>2. \A i \in DOMAIN r : RealOf(c, r[i]) = r[i]
    BY <1>4, <1>5
  <2>3. QED  BY <2>1, <2>2, Zenon
<1>10. QED  BY <1>6, <1>7, <1>8, <1>9 DEF Realpath

\* What realpath answers can be given back to it, as one string or as an array,
\* from any directory, and is its own real path.
THEOREM RealpathIsIdempotent == Spec => []RealpathTwice
<1>1. TypeOK => RealpathTwice
  BY RealAgain DEF RealpathTwice
<1>2. QED  BY <1>1, TypeCorrect, PTL

-----------------------------------------------------------------------------
(* cat *)

\* The places of a list of files whose test says yes.
LEMMA FinitePlaces ==
  ASSUME NEW n \in Nat, NEW A \in SUBSET (1 .. n)
  PROVE  IsFiniteSet(A) /\ Cardinality(A) \in Nat
<1>1. IsFiniteSet(1 .. n)
  BY FS_Interval
<1>2. IsFiniteSet(A)
  BY <1>1, FS_Subset
<1>3. QED  BY <1>2, FS_CardinalityType

\* A path to a file leads to a name with a text, itself or through a link.
LEMMA FileText ==
  ASSUME TypeOK, NEW p, IsFile(cwd, p)
  PROVE  /\ Target(p.name) \in Names /\ dir[Target(p.name)].t = "file"
         /\ dir[Target(p.name)].text \in Nat /\ TextAt(p) \in Nat
<1>1. p.name \in Names /\ dir[Target(p.name)].t = "file"
  BY DEF IsFile, IsEntry
<1>2. \A e \in Entries : (e.t = "link" => e.to \in Names) /\ (e.t = "file" => e.text \in Texts)
  <2> SUFFICES ASSUME NEW e \in Entries
               PROVE  (e.t = "link" => e.to \in Names) /\ (e.t = "file" => e.text \in Texts)
    OBVIOUS
  <2>1. e = None \/ (\E n \in Texts : e = File(n)) \/ (\E n \in Names : e = Link(n))
    BY DEF Entries
  <2>2. QED  BY <2>1 DEF None, File, Link
<1>3. Target(p.name) \in Names
  BY <1>1, <1>2 DEF Target, TypeOK
<1>4. dir[Target(p.name)].text \in Texts
  BY <1>1, <1>2, <1>3 DEF TypeOK
<1>5. QED  BY <1>1, <1>3, <1>4, FsAssumption DEF Texts, TextAt

\* As long as there is a descriptor left after a cat, there was one for each of
\* its files.
LEMMA EnoughDescriptors ==
  ASSUME leaked \in Nat, NEW ps, Len(ps) \in Nat, NEW out,
         LeakedBefore(ps, out, Len(ps) + 1) < MaxFds, NEW i \in 1 .. Len(ps)
  PROVE  LeakedBefore(ps, out, i) < MaxFds
<1> DEFINE A == {j \in 1 .. i - 1 : Leaks(ps, out, j)}
           B == {j \in 1 .. Len(ps) + 1 - 1 : Leaks(ps, out, j)}
<1>1. A \in SUBSET B /\ B \in SUBSET (1 .. Len(ps)) /\ A \in SUBSET (1 .. Len(ps))
  OBVIOUS
<1>2. /\ LeakedBefore(ps, out, i) = leaked + Cardinality(A)
      /\ LeakedBefore(ps, out, Len(ps) + 1) = leaked + Cardinality(B)
  BY DEF LeakedBefore
<1> HIDE DEF A, B
<1>3. Cardinality(A) \in Nat /\ Cardinality(B) \in Nat /\ Cardinality(A) <= Cardinality(B)
  BY <1>1, FinitePlaces, FS_Subset
<1>4. QED  BY <1>2, <1>3, FsAssumption

\* The texts that a cat answers are those of the files that it reads.
LEMMA CatAnswers ==
  ASSUME NEW args \in Lists, NEW out
  PROVE  LET ps == AllStrings(args) IN
         Len(Parts(Cat(args, out))) = Cardinality({i \in 1 .. Len(ps) : Reads(ps, out, i)})
<1> DEFINE ps == AllStrings(args)
           R == {i \in DOMAIN ps : Reads(ps, out, i)}
           idx == [i \in DOMAIN ps |-> i]
           read == Those(idx, R)
           texts == [k \in DOMAIN read |-> Size(ps[read[k]])]
           V == {Size(ps[read[k]]) : k \in DOMAIN read}
<1>1. ps \in Seq(Paths \cup {Star})
  BY StringsAreSeq
<1> HIDE DEF ps
<1>2. Len(ps) \in Nat /\ DOMAIN ps = 1 .. Len(ps)
  BY <1>1
<1>3. idx \in Seq(Nat) /\ Len(idx) = Len(ps) /\ \A i \in 1 .. Len(ps) : idx[i] = i
  <2>1. idx = [i \in 1 .. Len(ps) |-> i] /\ \A i \in 1 .. Len(ps) : i \in Nat
    BY <1>2
  <2>2. idx \in [1 .. Len(ps) -> Nat] /\ \A i \in 1 .. Len(ps) : idx[i] = i
    BY <2>1
  <2> HIDE DEF idx
  <2>3. QED  BY <1>2, <2>2
<1> HIDE DEF idx, R
<1>4. read \in Seq(Nat \cap R) /\ Len(read) = Cardinality({i \in 1 .. Len(idx) : idx[i] \in R})
  BY <1>3, ThoseIs
<1>5. {i \in 1 .. Len(idx) : idx[i] \in R} = {i \in 1 .. Len(ps) : Reads(ps, out, i)}
  BY <1>2, <1>3 DEF R
<1> HIDE DEF read
<1>6. texts \in Seq(V) /\ Len(texts) = Len(read)
  <2>1. Len(read) \in Nat /\ DOMAIN read = 1 .. Len(read)
    BY <1>4
  <2>2. texts \in [1 .. Len(read) -> V]
    BY <2>1
  <2> HIDE DEF texts, V
  <2>3. QED  BY <2>1, <2>2
<1> HIDE DEF V
<1>7. Cat(args, out) = IF Len(ps) > 1 THEN Arr(texts) ELSE Pack(texts)
  BY DEF Cat, ps, texts, read, R, idx
<1> HIDE DEF texts
<1>8. Parts(Cat(args, out)) = texts
  <2>1. Parts(Arr(texts)) = texts
    <3>1. Arr(texts) # Undefined
      BY DEF Arr, Undefined
    <3>2. Strings(Arr(texts)) = texts
      BY DEF Strings, Arr
    <3>3. QED  BY <3>1, <3>2, Zenon DEF Parts
  <2>2. Parts(Pack(texts)) = texts
    BY <1>6, PackedParts
  <2>3. QED  BY <1>7, <2>1, <2>2
<1>9. QED  BY <1>4, <1>5, <1>6, <1>8 DEF ps

\* What a cat does with its files: those read and those left open are among the
\* openable ones, none is both, and no more descriptors are lost than left open.
LEMMA ReadOrLeft ==
  ASSUME TypeOK, NEW args \in Lists, NEW out
  PROVE  LET ps == AllStrings(args)
             R == {i \in 1 .. Len(ps) : Reads(ps, out, i)}
             L == {j \in 1 .. Len(ps) : Leaks(ps, out, j)}
         IN  /\ Len(ps) \in Nat
             /\ R \cap L = {} /\ R \cup L \subseteq Openable(args, out)
             /\ Openable(args, out) \subseteq 1 .. Len(ps)
             /\ LeakedBefore(ps, out, Len(ps) + 1) = leaked + Cardinality(L)
             /\ Cardinality(L) \in Nat
             /\ LeakedAfter(args, out) \in Nat
             /\ LeakedAfter(args, out) <= leaked + Cardinality(L)
<1> DEFINE ps == AllStrings(args)
           R == {i \in 1 .. Len(ps) : Reads(ps, out, i)}
           L == {j \in 1 .. Len(ps) : Leaks(ps, out, j)}
           n == LeakedBefore(ps, out, Len(ps) + 1)
<1>1. ps \in Seq(Paths \cup {Star})
  BY StringsAreSeq
<1> HIDE DEF ps
<1>2. Len(ps) \in Nat /\ DOMAIN ps = 1 .. Len(ps) /\ leaked \in Nat
  BY <1>1 DEF TypeOK
<1>3. Openable(args, out) = {i \in 1 .. Len(ps) : i \notin out /\ Opens(ps[i])}
  BY <1>2 DEF Openable, ps
<1>4. R \cap L = {} /\ R \cup L \subseteq Openable(args, out)
  BY <1>3 DEF Reads, Tries, Leaks
<1>5. n = leaked + Cardinality(L)
  <2>1. 1 .. Len(ps) + 1 - 1 = 1 .. Len(ps)
    BY <1>2
  <2>2. QED  BY <2>1 DEF LeakedBefore
<1>6. Cardinality(L) \in Nat
  BY <1>2, FinitePlaces
<1>7. LeakedAfter(args, out) = IF n < MaxFds THEN n ELSE MaxFds
  BY DEF LeakedAfter, ps
<1> HIDE DEF L, R, n
<1>8. LeakedAfter(args, out) \in Nat /\ LeakedAfter(args, out) <= leaked + Cardinality(L)
  BY <1>2, <1>5, <1>6, <1>7, FsAssumption
<1>9. QED  BY <1>2, <1>3, <1>4, <1>5, <1>6, <1>8 DEF L, R, n, ps

\* What a cat answers it has closed, whatever is left of descriptors and memory.
LEMMA NoneBoth ==
  ASSUME TypeOK, NEW args \in Lists, NEW out
  PROVE  Len(Parts(Cat(args, out))) + (LeakedAfter(args, out) - leaked)
           <= Cardinality(Openable(args, out))
<1> DEFINE ps == AllStrings(args)
           R == {i \in 1 .. Len(ps) : Reads(ps, out, i)}
           L == {j \in 1 .. Len(ps) : Leaks(ps, out, j)}
           O == Openable(args, out)
<1>1. Len(Parts(Cat(args, out))) = Cardinality(R)
  BY CatAnswers
<1>2. /\ Len(ps) \in Nat /\ R \cap L = {} /\ R \cup L \subseteq O /\ O \subseteq 1 .. Len(ps)
      /\ LeakedAfter(args, out) \in Nat /\ LeakedAfter(args, out) <= leaked + Cardinality(L)
  BY ReadOrLeft
<1> HIDE DEF R, L, O
<1>3. /\ IsFiniteSet(O) /\ IsFiniteSet(R) /\ IsFiniteSet(L) /\ IsFiniteSet(R \cup L)
      /\ Cardinality(O) \in Nat /\ Cardinality(R) \in Nat /\ Cardinality(L) \in Nat
  <2>1. IsFiniteSet(1 .. Len(ps))
    BY <1>2, FS_Interval
  <2>2. O \in SUBSET (1 .. Len(ps)) /\ R \in SUBSET (1 .. Len(ps)) /\ L \in SUBSET (1 .. Len(ps))
    BY <1>2
  <2>3. QED  BY <1>2, <2>1, <2>2, FinitePlaces, FS_Union
<1>4. Cardinality(R \cup L) = Cardinality(R) + Cardinality(L)
  <2>1. Cardinality(R \cup L) = Cardinality(R) + Cardinality(L) - Cardinality(R \cap L)
    BY <1>3, FS_Union
  <2>2. Cardinality(R \cap L) = 0
    BY <1>2, FS_EmptySet
  <2>3. QED  BY <1>3, <2>1, <2>2
<1>5. Cardinality(R \cup L) <= Cardinality(O)
  BY <1>2, <1>3, FS_Subset
<1>6. leaked \in Nat
  BY DEF TypeOK
<1>7. QED  BY <1>1, <1>2, <1>3, <1>4, <1>5, <1>6 DEF O

\* A file that cat opens seems no longer than a byte only if it is a text of at most
\* one, or a directory that was removed; it passes the test on fread's answer.
LEMMA ShortPasses ==
  ASSUME TypeOK, NEW p, Opens(p), Size(p) <= 1 PROVE Passes(p)
<1>1. CASE p.name = Dot
  <2>1. Size(p) = 0
    BY <1>1, FsAssumption DEF Size
  <2>2. QED  BY <1>1, <2>1 DEF Passes, Items
<1>2. CASE p.name # Dot
  <2>1. Size(p) \in Nat
    BY <1>2, FileText DEF Opens, IsDir, Size
  <2>2. Size(p) = 0 \/ Size(p) = 1
    BY <2>1
  <2>3. QED  BY <1>2, <2>2 DEF Passes, Items
<1>3. QED  BY <1>1, <1>2

\* As long as a descriptor is left, each short text is among the answered.
LEMMA ShortAnswered ==
  ASSUME TypeOK, NEW args \in Lists, NEW out, LeakedAfter(args, out) < MaxFds
  PROVE  Cardinality(Short(args, out)) <= Len(Parts(Cat(args, out)))
<1> DEFINE ps == AllStrings(args)
           R == {i \in 1 .. Len(ps) : Reads(ps, out, i)}
           S == Short(args, out)
           n == LeakedBefore(ps, out, Len(ps) + 1)
<1>1. Len(Parts(Cat(args, out))) = Cardinality(R)
  BY CatAnswers
<1>2. Len(ps) \in Nat /\ Openable(args, out) \subseteq 1 .. Len(ps)
  BY ReadOrLeft
<1>3. n < MaxFds
  <2>1. LeakedAfter(args, out) = IF n < MaxFds THEN n ELSE MaxFds
    BY DEF LeakedAfter
  <2> HIDE DEF n
  <2>2. QED  BY <2>1, FsAssumption
<1>4. ASSUME NEW i \in S PROVE i \in R
  <2>1. i \in 1 .. Len(ps) /\ i \notin out /\ Opens(ps[i]) /\ Size(ps[i]) <= 1
    BY <1>2 DEF Openable, Short
  <2>2. Passes(ps[i])
    BY <2>1, ShortPasses
  <2>3. leaked \in Nat
    BY DEF TypeOK
  <2> HIDE DEF ps
  <2>4. LeakedBefore(ps, out, i) < MaxFds
    BY <1>2, <1>3, <2>1, <2>3, EnoughDescriptors
  <2>5. QED  BY <2>1, <2>2, <2>4 DEF Reads, Tries
<1>5. R \in SUBSET (1 .. Len(ps)) /\ S \in SUBSET R
  BY <1>4
<1> HIDE DEF R, S
<1>6. IsFiniteSet(R) /\ Cardinality(S) <= Cardinality(R)
  <2>1. IsFiniteSet(R)
    BY <1>2, <1>5, FinitePlaces
  <2>2. QED  BY <1>5, <2>1, FS_Subset
<1>7. QED  BY <1>1, <1>6 DEF S

\* A buffer that a cat overruns is that of a text that no uint can measure.
LEMMA OverrunIsHuge ==
  ASSUME TypeOK, NEW p, Opens(p), Written(p) > Buffer(p)
  PROVE  \E n \in Names : dir[n].t = "file" /\ dir[n].text >= UintMax
<1>1. CASE p.name = Dot
  <2>1. Size(p) \in {0, UintMax} /\ (Size(p) = 0 <=> Passes(p))
    BY <1>1, FsAssumption DEF Size, Passes, Items
  <2>2. CASE Size(p) = 0
    BY <2>1, <2>2, FsAssumption DEF Written, Buffer, Uint
  <2>3. CASE Size(p) = UintMax
    <3>1. Written(p) = 0
      BY <1>1, <2>1, <2>3, FsAssumption DEF Written
    <3>2. Buffer(p) = (UintMax + 1) % (UintMax + 1)
      BY <2>3, FsAssumption DEF Buffer, Uint
    <3>3. (UintMax + 1) % (UintMax + 1) >= 0
      BY FsAssumption
    <3>4. QED  BY <3>1, <3>2, <3>3, FsAssumption
  <2>4. QED  BY <2>1, <2>2, <2>3
<1>2. CASE p.name # Dot
  <2>1. /\ Target(p.name) \in Names /\ dir[Target(p.name)].t = "file"
        /\ Size(p) = dir[Target(p.name)].text /\ Size(p) \in Nat
    BY <1>2, FileText DEF Opens, IsDir, Size, TextAt
  <2>2. Size(p) < UintMax => Buffer(p) = Size(p) + 1
    BY <2>1, FsAssumption DEF Buffer, Uint
  <2>3. Written(p) \in Nat /\ Written(p) <= Size(p) + 1
    BY <1>2, <2>1 DEF Written
  <2>4. Size(p) >= UintMax
    <3>1. CASE Size(p) < UintMax
      <4>1. Buffer(p) = Size(p) + 1
        BY <2>2, <3>1
      <4>2. QED  BY <2>1, <2>3, <4>1
    <3>2. CASE ~(Size(p) < UintMax)
      BY <2>1, <3>2, FsAssumption
    <3>3. QED  BY <3>1, <3>2
  <2>5. QED  BY <2>1, <2>4
<1>3. QED  BY <1>1, <1>2

\* What cat answers it has closed, and what it has no memory for too: a file costs it
\* a descriptor at most, and only one that it does not answer.  Empty texts and those
\* of one byte are all answered while a descriptor is left.
THEOREM CatAnswersAndCloses == Spec => []AnswersAndCloses
<1>1. TypeOK => AnswersAndCloses
  BY NoneBoth, ShortAnswered DEF AnswersAndCloses
<1>2. QED  BY <1>1, TypeCorrect, PTL

\* The heap is broken by no text shorter than 2^32 - 1 bytes, and by no directory.
THEOREM OnlyHugeBreak == Spec => OnlyHugeTextsOverrun
<1> DEFINE Huge == \E n \in Names : dir[n].t = "file" /\ dir[n].text >= UintMax
           Step == heap = "ok" /\ heap' # "ok" => Huge
<1>1. ASSUME TypeOK, Next, heap = "ok", heap' # "ok" PROVE Huge
  <2>1. \E args \in Lists : \E out \in Fails(args) : DoCat(args, out)
    <3>1. ASSUME Abort \/ OthersMove \/ \E n \in Names : Others(n) PROVE FALSE
      BY <1>1, <3>1 DEF Abort, OthersMove, Others
    <3>2. ASSUME (\E n \in Texts, p \in Paths : DoEcho(n, p)) \/ \E p \in Paths : DoCd(p) PROVE FALSE
      BY <1>1, <3>2 DEF DoEcho, DoCd
    <3>3. QED  BY <1>1, <3>1, <3>2 DEF Next, Command
  <2>2. PICK args \in Lists : \E out : Overruns(AllStrings(args), out)
    BY <1>1, <2>1 DEF DoCat
  <2>3. PICK out : Overruns(AllStrings(args), out)
    BY <2>2
  <2>4. PICK i \in DOMAIN AllStrings(args) :
          /\ Tries(AllStrings(args), out, i)
          /\ Written(AllStrings(args)[i]) > Buffer(AllStrings(args)[i])
    BY <2>3 DEF Overruns
  <2>5. QED  BY <1>1, <2>4, OverrunIsHuge DEF Tries
<1>2. TypeOK /\ [Next]_vars => [Step]_vars
  BY <1>1 DEF vars
<1>3. QED  BY <1>2, TypeCorrect, PTL DEF Spec, OnlyHugeTextsOverrun

-----------------------------------------------------------------------------
(* ls *)

\* glob answers a sequence of paths.
LEMMA GlobIsSeq == ASSUME NEW p \in Paths \cup {Star} PROVE Glob(p) \in Seq(Paths \cup {Star})
<1> DEFINE P == Paths \cup {Star}
           s == [n \in Names |-> Rel(n)]
           S == {q \in Paths : IsEntry(cwd, q)}
<1>1. s \in Seq(Paths)
  <2>1. \A n \in 1 .. MaxName : Rel(n) \in Paths
    BY Zenon DEF Paths, Names
  <2>2. s \in [1 .. MaxName -> Paths]
    BY <2>1 DEF Names
  <2> HIDE DEF s
  <2>3. QED  BY <2>2, FsAssumption
<1> HIDE DEF s, S
<1>2. Those(s, S) \in Seq(Paths \cap S)
  BY <1>1, ThoseIs
<1>3. Those(s, S) \in Seq(P)
  BY <1>2
<1>4. Glob(p) \in {<<p>>, << >>, Those(s, S)}
  BY DEF Glob, s, S
<1>5. <<p>> \in Seq(P) /\ << >> \in Seq(P)
  OBVIOUS
<1> HIDE DEF P
<1>6. Glob(p) \in Seq(P)
  BY <1>3, <1>4, <1>5
<1>7. QED  BY <1>6 DEF P

\* The patterns up to the first that matches nothing.
Good(pats)  == {k \in 0 .. Len(pats) : \A i \in 1 .. k : Glob(pats[i]) # << >>}
Tried(pats) == CHOOSE k \in Good(pats) : \A j \in Good(pats) : j <= k
Found(pats) == FlattenSeq([i \in 1 .. Tried(pats) |-> Glob(pats[i])])

\* No pattern, one pattern, and two patterns of which the first matches.
LEMMA FoundIs ==
  /\ Found(<< >>) = << >>
  /\ \A p \in Paths \cup {Star} : Found(<<p>>) = Glob(p)
  /\ \A p, q \in Paths \cup {Star} : Glob(p) # << >> => Found(<<p, q>>) = Glob(p) \o Glob(q)
<1>1. \A pats : \A n \in Good(pats) : Len(pats) \in Nat /\ (\A j \in Good(pats) : j <= n) => Tried(pats) = n
  <2> SUFFICES ASSUME NEW pats, NEW n \in Good(pats), Len(pats) \in Nat, \A j \in Good(pats) : j <= n
               PROVE  Tried(pats) = n
    OBVIOUS
  <2>1. Good(pats) \in SUBSET Nat
    BY DEF Good
  <2>2. \A k \in Good(pats) : (\A j \in Good(pats) : j <= k) => k = n
    BY <2>1
  <2>3. QED  BY <2>2 DEF Tried
<1>2. Found(<< >>) = << >>
  <2>1. 0 \in Good(<< >>) /\ \A j \in Good(<< >>) : j <= 0
    BY DEF Good
  <2>2. Tried(<< >>) = 0
    BY <1>1, <2>1
  <2>3. [i \in 1 .. Tried(<< >>) |-> Glob(<< >>[i])] = << >>
    BY <2>2
  <2>4. QED  BY <2>3, FlattenNone DEF Found
<1>3. ASSUME NEW p \in Paths \cup {Star} PROVE Found(<<p>>) = Glob(p)
  <2>1. PICK pats : pats = <<p>>
    OBVIOUS
  <2>2. Len(pats) = 1 /\ pats[1] = p
    BY <2>1
  <2>3. CASE Glob(p) = << >>
    <3>1. 0 \in Good(pats) /\ \A j \in Good(pats) : j <= 0
      BY <2>2, <2>3 DEF Good
    <3>2. Tried(pats) = 0
      BY <1>1, <2>2, <3>1
    <3>3. [i \in 1 .. Tried(pats) |-> Glob(pats[i])] = << >>
      BY <3>2
    <3>4. QED  BY <2>1, <2>3, <3>3, FlattenNone DEF Found
  <2>4. CASE Glob(p) # << >>
    <3>1. 1 \in Good(pats) /\ \A j \in Good(pats) : j <= 1
      BY <2>2, <2>4 DEF Good
    <3>2. Tried(pats) = 1
      BY <1>1, <2>2, <3>1
    <3>3. [i \in 1 .. Tried(pats) |-> Glob(pats[i])] = <<Glob(p)>>
      BY <2>2, <3>2
    <3>4. QED  BY <2>1, <3>3, FlattenOne DEF Found
  <2>5. QED  BY <2>3, <2>4
<1>4. ASSUME NEW p \in Paths \cup {Star}, NEW q \in Paths \cup {Star}, Glob(p) # << >>
      PROVE  Found(<<p, q>>) = Glob(p) \o Glob(q)
  <2>1. PICK pats : pats = <<p, q>>
    OBVIOUS
  <2>2. Len(pats) = 2 /\ pats[1] = p /\ pats[2] = q
    BY <2>1
  <2>3. CASE Glob(q) = << >>
    <3>1. 1 \in Good(pats) /\ \A j \in Good(pats) : j <= 1
      BY <1>4, <2>2, <2>3 DEF Good
    <3>2. Tried(pats) = 1
      BY <1>1, <2>2, <3>1
    <3>3. [i \in 1 .. Tried(pats) |-> Glob(pats[i])] = <<Glob(p)>>
      BY <2>2, <3>2
    <3>4. Found(pats) = Glob(p)
      BY <3>3, FlattenOne DEF Found
    <3>5. Glob(p) \o Glob(q) = Glob(p)
      BY <2>3, GlobIsSeq, ConcatEmptySeq
    <3>6. QED  BY <2>1, <3>4, <3>5
  <2>4. CASE Glob(q) # << >>
    <3>1. 2 \in Good(pats) /\ \A j \in Good(pats) : j <= 2
      BY <1>4, <2>2, <2>4 DEF Good
    <3>2. Tried(pats) = 2
      BY <1>1, <2>2, <3>1
    <3>3. [i \in 1 .. Tried(pats) |-> Glob(pats[i])] = <<Glob(p), Glob(q)>>
      BY <2>2, <3>2
    <3>4. QED  BY <2>1, <3>3, FlattenTwo DEF Found
  <2>5. QED  BY <2>3, <2>4
<1>5. QED  BY <1>2, <1>3, <1>4

\* A value that is a string is one of a path or of the pattern.
LEMMA StringValue == ASSUME NEW v \in Values, v.t = "string" PROVE v.v \in Paths \cup {Star}
<1>1. v # Other /\ \A s : v # Arr(s)
  BY DEF Other, Arr
<1>2. PICK p \in Paths \cup {Star} : v = Str(p)
  BY <1>1, ValueIs, Zenon
<1>3. QED  BY <1>2 DEF Str

\* Two sequences of one element, one after the other.
LEMMA PairIs == ASSUME NEW V, NEW a \in V, NEW b \in V PROVE <<a>> \o <<b>> = <<a, b>>
<1>1. <<a>> \in Seq(V) /\ <<b>> \in Seq(V) /\ Len(<<a>>) = 1 /\ Len(<<b>>) = 1 /\ <<a>>[1] = a /\ <<b>>[1] = b
  OBVIOUS
<1> DEFINE s == <<a>> \o <<b>>
           t == <<a, b>>
<1>2. /\ s \in Seq(V) /\ Len(s) = Len(<<a>>) + Len(<<b>>)
      /\ \A i \in 1 .. Len(<<a>>) + Len(<<b>>) : s[i] = IF i <= Len(<<a>>) THEN <<a>>[i] ELSE <<b>>[i - Len(<<a>>)]
  BY <1>1, ConcatProperties
<1>3. t \in Seq(V) /\ Len(t) = 2 /\ t[1] = a /\ t[2] = b
  OBVIOUS
<1> HIDE DEF s, t
<1>4. Len(s) = 2 /\ s[1] = a /\ s[2] = b
  BY <1>1, <1>2
<1>5. \A i \in 1 .. Len(s) : s[i] = t[i]
  BY <1>3, <1>4
<1>6. s = t
  BY <1>2, <1>3, <1>4, <1>5, SeqEqual
<1>7. QED  BY <1>6 DEF s, t

\* What ls answers to one argument and to two.
LEMMA LsIs ==
  /\ \A v \in Values : Parts(Ls(<<v>>)) = IF v.t = "string" THEN Glob(v.v) ELSE << >>
  /\ \A v, w \in Values : v.t = "string" /\ Glob(v.v) # << >> =>
       Parts(Ls(<<v, w>>)) = Glob(v.v) \o IF w.t = "string" THEN Glob(w.v) ELSE << >>
<1> DEFINE P == Paths \cup {Star}
           Pats(args) == FlattenSeq([i \in DOMAIN args |-> String(args[i])])
<1>1. \A args : args # << >> => Ls(args) = Pack(Found(Pats(args)))
  BY DEF Ls, Appended, Found, Tried, Good
<1>2. ASSUME NEW v \in Values PROVE Parts(Ls(<<v>>)) = IF v.t = "string" THEN Glob(v.v) ELSE << >>
  <2>1. Pats(<<v>>) = String(v)
    <3>1. [i \in DOMAIN <<v>> |-> String(<<v>>[i])] = <<String(v)>>
      OBVIOUS
    <3>2. QED  BY <3>1, FlattenOne
  <2>2. Ls(<<v>>) = Pack(Found(String(v)))
    <3>1. <<v>> # << >>
      OBVIOUS
    <3> HIDE DEF Pats
    <3>2. QED  BY <1>1, <2>1, <3>1
  <2>3. CASE v.t = "string"
    <3>1. v.v \in P /\ String(v) = <<v.v>>
      BY <2>3, StringValue DEF String
    <3>2. Found(String(v)) = Glob(v.v) /\ Glob(v.v) \in Seq(P)
      BY <3>1, FoundIs, GlobIsSeq
    <3>3. QED  BY <2>2, <2>3, <3>2, PackedParts
  <2>4. CASE v.t # "string"
    <3>1. Found(String(v)) = << >> /\ << >> \in Seq(P)
      BY <2>4, FoundIs DEF String
    <3>2. QED  BY <2>2, <2>4, <3>1, PackedParts
  <2>5. QED  BY <2>3, <2>4
<1>3. ASSUME NEW v \in Values, NEW w \in Values, v.t = "string", Glob(v.v) # << >>
      PROVE  Parts(Ls(<<v, w>>)) = Glob(v.v) \o IF w.t = "string" THEN Glob(w.v) ELSE << >>
  <2>1. Pats(<<v, w>>) = String(v) \o String(w)
    <3>1. [i \in DOMAIN <<v, w>> |-> String(<<v, w>>[i])] = <<String(v), String(w)>>
      OBVIOUS
    <3>2. QED  BY <3>1, FlattenTwo
  <2>2. Ls(<<v, w>>) = Pack(Found(String(v) \o String(w)))
    <3>1. <<v, w>> # << >>
      OBVIOUS
    <3> HIDE DEF Pats
    <3>2. QED  BY <1>1, <2>1, <3>1
  <2>3. v.v \in P /\ String(v) = <<v.v>> /\ Glob(v.v) \in Seq(P)
    BY <1>3, StringValue, GlobIsSeq DEF String
  <2>4. CASE w.t = "string"
    <3>1. w.v \in P /\ String(w) = <<w.v>> /\ Glob(w.v) \in Seq(P)
      BY <2>4, StringValue, GlobIsSeq DEF String
    <3>2. String(v) \o String(w) = <<v.v, w.v>>
      BY <2>3, <3>1, PairIs
    <3>3. Found(String(v) \o String(w)) = Glob(v.v) \o Glob(w.v)
      BY <1>3, <2>3, <3>1, <3>2, FoundIs
    <3>4. Glob(v.v) \o Glob(w.v) \in Seq(P)
      BY <2>3, <3>1, ConcatProperties
    <3>5. QED  BY <2>2, <2>4, <3>3, <3>4, PackedParts
  <2>5. CASE w.t # "string"
    <3>1. String(v) \o String(w) = <<v.v>>
      BY <2>3, <2>5 DEF String
    <3>2. Found(String(v) \o String(w)) = Glob(v.v)
      BY <2>3, <3>1, FoundIs
    <3>3. Glob(v.v) \o << >> = Glob(v.v)
      BY <2>3, ConcatEmptySeq
    <3>4. QED  BY <2>2, <2>3, <2>5, <3>2, <3>3, PackedParts
  <2>6. QED  BY <2>4, <2>5
<1>4. QED  BY <1>2, <1>3

\* What ls answers to two patterns is what it answers to the first, then to the
\* second, as long as the first matches: the answer keeps the order of the
\* arguments.
THEOREM LsKeepsOrder == Spec => []LsIsInOrder
<1>1. LsIsInOrder
  BY LsIs DEF LsIsInOrder
<1>2. QED  BY <1>1, PTL
=============================================================================
