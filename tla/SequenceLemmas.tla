--------------------------- MODULE SequenceLemmas ---------------------------
(* Sequences and recursive functions: typing by induction. *)
EXTENDS SequencesExt, SequenceTheorems, FiniteSetTheorems, WellFoundedInduction, TLAPS

\* Natural induction over a set.
LEMMA Induction ==
  ASSUME NEW S, 0 \in S, \A n \in Nat : n \in S => n + 1 \in S
  PROVE  Nat \subseteq S
<1> DEFINE T == Nat \ S
<1> SUFFICES ASSUME T # {} PROVE FALSE
  OBVIOUS
<1>1. IsWellFoundedOn(OpToRel(<, Nat), Nat)
  BY NatLessThanWellFounded, Zenon
<1>2. PICK x \in T : \A y \in T : ~(<<y, x>> \in OpToRel(<, Nat))
  BY <1>1, WFMin, Zenon
<1>3. \A y \in T : ~(y < x)
  BY <1>2, Zenon DEF OpToRel
<1>4. x - 1 \in Nat /\ x - 1 < x
  OBVIOUS
<1>5. x - 1 \in S
  BY <1>3, <1>4
<1> QED
  BY <1>4, <1>5

\* What has been concatenated after each sequence, and all of it at the end.
LEMMA FlattenSeqSteps ==
  ASSUME NEW S, NEW seqs \in Seq(Seq(S)), seqs # <<>>
  PROVE  \E f \in [1 .. Len(seqs) -> Seq(S)] :
           /\ f[1] = seqs[1] /\ FlattenSeq(seqs) = f[Len(seqs)]
           /\ \A m \in 1 .. Len(seqs) - 1 : f[m + 1] = f[m] \o seqs[m + 1]
<1>1. PICK n \in Nat \ {0} : n = Len(seqs) /\ seqs \in [1 .. n -> Seq(S)]
  BY LenProperties, EmptySeq
<1> DEFINE Step(g, i) == IF i = 1 THEN seqs[i] ELSE g[i - 1] \o seqs[i]
           Flat(g, m) == g = [i \in 1 .. m |-> Step(g, i)]
           N == {m \in Nat : m <= n => \E g \in [1 .. m -> Seq(S)] : Flat(g, m)}
<1>2. 0 \in N
  <2>1. Flat(<<>>, 0) /\ <<>> \in [1 .. 0 -> Seq(S)]
    OBVIOUS
  <2> HIDE DEF Flat
  <2> QED BY <2>1
<1>3. ASSUME NEW m \in Nat, m \in N PROVE m + 1 \in N
  <2> SUFFICES ASSUME m + 1 <= n PROVE \E g \in [1 .. m + 1 -> Seq(S)] : Flat(g, m + 1)
    <3> HIDE DEF Flat
    <3> QED OBVIOUS
  <2>1. PICK g \in [1 .. m -> Seq(S)] : Flat(g, m)
    <3> HIDE DEF Flat
    <3> QED BY <1>3
  <2> DEFINE h == [i \in 1 .. m + 1 |-> IF i = m + 1 THEN Step(g, i) ELSE g[i]]
  <2>2. \A i \in 1 .. m : g[i] = Step(g, i) /\ g[i] \in Seq(S)
    BY <2>1
  <2>3. \A i \in 1 .. m + 1 : h[i] \in Seq(S) /\ h[i] = Step(h, i)
    <3> TAKE i \in 1 .. m + 1
    <3>1. seqs[i] \in Seq(S)
      BY <1>1
    <3>2. h[i] = Step(g, i)
      <4>1. i # m + 1 => i \in 1 .. m
        OBVIOUS
      <4> HIDE DEF Step
      <4> QED BY <2>2, <4>1
    <3>3. CASE i = 1
      BY <3>1, <3>2, <3>3
    <3>4. CASE i # 1
      <4>1. i - 1 \in 1 .. m /\ i - 1 # m + 1
        BY <3>4
      <4>2. h[i - 1] = g[i - 1] /\ g[i - 1] \in Seq(S)
        BY <2>2, <4>1
      <4>3. h[i] = g[i - 1] \o seqs[i] /\ Step(h, i) = h[i - 1] \o seqs[i]
        BY <3>2, <3>4
      <4> HIDE DEF h
      <4> QED BY <3>1, <4>2, <4>3, ConcatProperties, ZenonT(40)
    <3> QED BY <3>3, <3>4
  <2>4. h = [i \in 1 .. m + 1 |-> h[i]]
    OBVIOUS
  <2> HIDE DEF Step, h
  <2> QED BY <2>3, <2>4
<1>4. \E g \in [1 .. n -> Seq(S)] : Flat(g, n)
  <2> HIDE DEF Flat
  <2>1. Nat \subseteq N
    <3> HIDE DEF N
    <3> QED BY <1>2, <1>3, Induction
  <2> QED BY <2>1
<1> DEFINE flatten == CHOOSE g : Flat(g, n)
<1>5. PICK f : f = flatten /\ Flat(f, n)
  <2> HIDE DEF Flat
  <2> QED BY <1>4
<1>6. FlattenSeq(seqs) = f[n]
  BY <1>1, <1>5 DEF FlattenSeq
<1>7. /\ f[1] = seqs[1]
      /\ \A m \in 1 .. n - 1 : f[m + 1] = f[m] \o seqs[m + 1]
  <2>1. f[1] = seqs[1]
    <3>1. 1 \in 1 .. n
      BY <1>1
    <3> QED BY <1>5, <3>1
  <2>2. ASSUME NEW m \in 1 .. n - 1 PROVE f[m + 1] = f[m] \o seqs[m + 1]
    <3>1. m + 1 \in 1 .. n /\ m + 1 # 1 /\ (m + 1) - 1 = m
      OBVIOUS
    <3> QED BY <1>5, <3>1
  <2> QED BY <2>1, <2>2
<1>8. f = [i \in 1 .. n |-> f[i]]
  BY <1>5
<1> DEFINE M == {m \in Nat : m + 1 <= n => f[m + 1] \in Seq(S)}
<1>9. 0 \in M
  BY <1>1, <1>7
<1>10. ASSUME NEW m \in Nat, m \in M PROVE m + 1 \in M
  <2> SUFFICES ASSUME (m + 1) + 1 <= n PROVE f[(m + 1) + 1] \in Seq(S)
    OBVIOUS
  <2>1. m + 1 \in 1 .. n - 1 /\ (m + 1) + 1 \in 1 .. n /\ m + 1 <= n
    OBVIOUS
  <2>2. f[(m + 1) + 1] = f[m + 1] \o seqs[(m + 1) + 1]
    BY <1>7, <2>1
  <2>3. f[m + 1] \in Seq(S) /\ seqs[(m + 1) + 1] \in Seq(S)
    BY <1>1, <1>10, <2>1
  <2> QED BY <2>2, <2>3, ConcatProperties
<1>11. \A i \in 1 .. n : f[i] \in Seq(S)
  <2> TAKE i \in 1 .. n
  <2>1. i - 1 \in Nat /\ (i - 1) + 1 = i /\ i <= n
    OBVIOUS
  <2>2. i - 1 \in M
    <3> HIDE DEF M
    <3> QED BY <1>9, <1>10, <2>1, Induction
  <2> QED BY <2>1, <2>2
<1>12. f \in [1 .. n -> Seq(S)]
  BY <1>8, <1>11
<1> QED BY <1>1, <1>6, <1>7, <1>12

\* Flattening sequences over a set gives a sequence over it.
LEMMA FlattenSeqType ==
  ASSUME NEW S, NEW seqs \in Seq(Seq(S))
  PROVE  FlattenSeq(seqs) \in Seq(S)
<1>1. CASE seqs = <<>>
  BY <1>1 DEF FlattenSeq
<1>2. CASE seqs # <<>>
  <2>1. PICK f \in [1 .. Len(seqs) -> Seq(S)] : FlattenSeq(seqs) = f[Len(seqs)]
    BY <1>2, FlattenSeqSteps, Zenon
  <2>2. Len(seqs) \in 1 .. Len(seqs)
    BY <1>2, EmptySeq, LenProperties
  <2> QED BY <2>1, <2>2
<1> QED BY <1>1, <1>2

\* The elements of s are those of the first m sequences, in order: the k-th of s is the
\* col[k]-th of the row[k]-th.
Strung(s, seqs, m, row, col) ==
  /\ row \in [1 .. Len(s) -> 1 .. m] /\ col \in [1 .. Len(s) -> Nat]
  /\ \A k \in 1 .. Len(s) : col[k] \in 1 .. Len(seqs[row[k]]) /\ s[k] = seqs[row[k]][col[k]]
  /\ \A i \in 1 .. m : \A j \in 1 .. Len(seqs[i]) : \E k \in 1 .. Len(s) : row[k] = i /\ col[k] = j
  /\ \A k, l \in 1 .. Len(s) : k < l => row[k] < row[l] \/ (row[k] = row[l] /\ col[k] < col[l])

\* One more sequence lays its elements after those of the others.
LEMMA StrungAfter ==
  ASSUME NEW S, NEW seqs \in Seq(Seq(S)), NEW m \in Nat, m + 1 <= Len(seqs), NEW s \in Seq(S),
         NEW row, NEW col, Strung(s, seqs, m, row, col)
  PROVE  \E row2, col2 : Strung(s \o seqs[m + 1], seqs, m + 1, row2, col2)
<1> DEFINE t == s \o seqs[m + 1]
           a == Len(s)
           row2 == [k \in 1 .. Len(t) |-> IF k <= a THEN row[k] ELSE m + 1]
           col2 == [k \in 1 .. Len(t) |-> IF k <= a THEN col[k] ELSE k - a]
<1>1. seqs[m + 1] \in Seq(S) /\ a \in Nat /\ Len(seqs[m + 1]) \in Nat
  BY LenProperties
<1>2. /\ t \in Seq(S) /\ Len(t) = a + Len(seqs[m + 1])
      /\ \A k \in 1 .. Len(t) : t[k] = IF k <= a THEN s[k] ELSE seqs[m + 1][k - a]
  BY <1>1, ConcatProperties
<1> HIDE DEF a
<1>3. \A k \in 1 .. Len(t) :
        /\ k <= a => k \in 1 .. a /\ row2[k] = row[k] /\ col2[k] = col[k]
        /\ ~(k <= a) => k - a \in 1 .. Len(seqs[m + 1]) /\ row2[k] = m + 1 /\ col2[k] = k - a
  <2> TAKE k \in 1 .. Len(t)
  <2>1. row2[k] = (IF k <= a THEN row[k] ELSE m + 1) /\ col2[k] = (IF k <= a THEN col[k] ELSE k - a)
    OBVIOUS
  <2> HIDE DEF t, row2, col2
  <2>2. k \in Nat /\ k >= 1 /\ k <= a + Len(seqs[m + 1])
    BY <1>1, <1>2
  <2> QED BY <1>1, <2>1, <2>2
<1> HIDE DEF t
<1>4. /\ row \in [1 .. a -> 1 .. m] /\ col \in [1 .. a -> Nat]
      /\ \A k \in 1 .. a : col[k] \in 1 .. Len(seqs[row[k]]) /\ s[k] = seqs[row[k]][col[k]]
      /\ \A i \in 1 .. m : \A j \in 1 .. Len(seqs[i]) : \E k \in 1 .. a : row[k] = i /\ col[k] = j
      /\ \A k, l \in 1 .. a : k < l => row[k] < row[l] \/ (row[k] = row[l] /\ col[k] < col[l])
  BY DEF Strung, a
<1>5. row2 \in [1 .. Len(t) -> 1 .. m + 1] /\ col2 \in [1 .. Len(t) -> Nat]
  <2>1. \A k \in 1 .. Len(t) : row2[k] \in 1 .. m + 1 /\ col2[k] \in Nat
    BY <1>1, <1>2, <1>3, <1>4
  <2> QED BY <2>1
<1>6. \A k \in 1 .. Len(t) : col2[k] \in 1 .. Len(seqs[row2[k]]) /\ t[k] = seqs[row2[k]][col2[k]]
  <2> TAKE k \in 1 .. Len(t)
  <2>1. CASE k <= a
    BY <1>2, <1>3, <1>4, <2>1
  <2>2. CASE ~(k <= a)
    BY <1>2, <1>3, <2>2
  <2> QED BY <2>1, <2>2
<1>7. ASSUME NEW i \in 1 .. m + 1, NEW j \in 1 .. Len(seqs[i])
      PROVE  \E k \in 1 .. Len(t) : row2[k] = i /\ col2[k] = j
  <2>1. CASE i = m + 1
    <3>1. a + j \in 1 .. Len(t) /\ ~(a + j <= a) /\ (a + j) - a = j
      BY <1>1, <1>2, <2>1
    <3> HIDE DEF row2, col2
    <3> QED BY <1>3, <2>1, <3>1
  <2>2. CASE i # m + 1
    <3>1. i \in 1 .. m
      BY <2>2
    <3>2. PICK k \in 1 .. a : row[k] = i /\ col[k] = j
      BY <1>4, <3>1
    <3>3. k \in 1 .. Len(t) /\ k <= a
      BY <1>1, <1>2
    <3> HIDE DEF row2, col2
    <3> QED BY <1>3, <3>2, <3>3
  <2> QED BY <2>1, <2>2
<1>8. ASSUME NEW k \in 1 .. Len(t), NEW l \in 1 .. Len(t), k < l
      PROVE  row2[k] < row2[l] \/ (row2[k] = row2[l] /\ col2[k] < col2[l])
  <2>1. CASE l <= a
    <3>1. k <= a
      BY <1>1, <1>2, <1>8, <2>1
    <3> HIDE DEF row2, col2
    <3> QED BY <1>3, <1>4, <1>8, <2>1, <3>1
  <2>2. CASE ~(l <= a) /\ k <= a
    <3>1. row2[k] = row[k] /\ row[k] \in 1 .. m /\ row2[l] = m + 1
      BY <1>3, <1>4, <2>2
    <3> HIDE DEF row2, col2
    <3> QED BY <3>1
  <2>3. CASE ~(l <= a) /\ ~(k <= a)
    <3>1. row2[k] = m + 1 /\ row2[l] = m + 1 /\ col2[k] = k - a /\ col2[l] = l - a
      BY <1>3, <2>3
    <3>2. k - a < l - a
      BY <1>1, <1>2, <1>8
    <3> HIDE DEF row2, col2
    <3> QED BY <3>1, <3>2
  <2> QED BY <2>1, <2>2, <2>3
<1> HIDE DEF row2, col2
<1>9. Strung(t, seqs, m + 1, row2, col2)
  BY <1>5, <1>6, <1>7, <1>8 DEF Strung
<1> QED BY <1>9 DEF t

\* Where the elements of a flattened sequence come from.
LEMMA FlattenSeqPlaces ==
  ASSUME NEW S, NEW seqs \in Seq(Seq(S))
  PROVE  \E row, col : Strung(FlattenSeq(seqs), seqs, Len(seqs), row, col)
<1>1. PICK n \in Nat : n = Len(seqs)
  BY LenProperties
<1> DEFINE Done(s, m) == \E row, col : Strung(s, seqs, m, row, col)
<1>2. Done(<<>>, 0)
  <2>1. 1 .. Len(<<>>) = {} /\ 1 .. 0 = {}
    OBVIOUS
  <2>2. Strung(<<>>, seqs, 0, [k \in {} |-> 1], [k \in {} |-> 1])
    BY <2>1 DEF Strung
  <2> QED BY <2>2
<1>3. CASE n = 0
  <2>1. FlattenSeq(seqs) = <<>>
    BY <1>1, <1>3, EmptySeq DEF FlattenSeq
  <2> QED BY <1>1, <1>2, <1>3, <2>1
<1>4. CASE n # 0
  <2>0. seqs # <<>>
    BY <1>1, <1>4, EmptySeq
  <2>1. PICK f \in [1 .. Len(seqs) -> Seq(S)] :
           /\ f[1] = seqs[1] /\ FlattenSeq(seqs) = f[Len(seqs)]
           /\ \A m \in 1 .. Len(seqs) - 1 : f[m + 1] = f[m] \o seqs[m + 1]
    BY <2>0, FlattenSeqSteps, Zenon
  <2> DEFINE N == {m \in Nat : m + 1 <= n => Done(f[m + 1], m + 1)}
  <2>2. 0 \in N
    <3>1. f[1] = <<>> \o seqs[1]
      <4>1. seqs[1] \in Seq(S)
        BY <1>1, <1>4
      <4> QED BY <2>1, <4>1, ConcatEmptySeq
    <3>2. <<>> \in Seq(S) /\ 0 + 1 = 1 /\ 1 <= n
      BY <1>4
    <3>3. Done(f[1], 1)
      <4> HIDE DEF Done
      <4>1. Done(<<>> \o seqs[0 + 1], 0 + 1)
        BY <1>1, <1>2, <3>2, StrungAfter DEF Done
      <4> QED BY <3>1, <3>2, <4>1
    <3> HIDE DEF Done
    <3> QED BY <3>2, <3>3
  <2>3. ASSUME NEW m \in Nat, m \in N PROVE m + 1 \in N
    <3> SUFFICES ASSUME (m + 1) + 1 <= n PROVE Done(f[(m + 1) + 1], (m + 1) + 1)
      <4> HIDE DEF Done
      <4> QED OBVIOUS
    <3>0. m + 1 \in 1 .. n - 1 /\ m + 1 <= n /\ m + 1 \in 1 .. n
      <4> HIDE DEF Done, N
      <4> QED OBVIOUS
    <3>1. m + 1 \in 1 .. n - 1 /\ f[m + 1] \in Seq(S) /\ m + 1 <= n
      <4> HIDE DEF Done, N
      <4> QED BY <1>1, <3>0
    <3>2. Done(f[m + 1], m + 1)
      <4> HIDE DEF Done
      <4> QED BY <2>3, <3>1
    <3>3. f[(m + 1) + 1] = f[m + 1] \o seqs[(m + 1) + 1]
      BY <1>1, <2>1, <3>1
    <3>4. PICK row, col : Strung(f[m + 1], seqs, m + 1, row, col)
      BY <3>2
    <3> HIDE DEF N
    <3>5. (m + 1) + 1 <= Len(seqs) /\ m + 1 \in Nat
      BY <1>1
    <3>6. \E row2, col2 : Strung(f[m + 1] \o seqs[(m + 1) + 1], seqs, (m + 1) + 1, row2, col2)
      BY <3>1, <3>4, <3>5, StrungAfter, Zenon
    <3> QED BY <3>3, <3>6, Zenon
  <2>4. n - 1 \in Nat /\ (n - 1) + 1 = n
    BY <1>4
  <2>5. n - 1 \in N
    <3> HIDE DEF N
    <3> QED BY <2>2, <2>3, <2>4, Induction
  <2>6. Done(f[n], n)
    <3> HIDE DEF Done
    <3> QED BY <2>4, <2>5
  <2> QED BY <1>1, <2>1, <2>6
<1> QED BY <1>3, <1>4

\* It has the elements of all the sequences.
LEMMA FlattenSeqElements ==
  ASSUME NEW S, NEW seqs \in Seq(Seq(S))
  PROVE  ToSet(FlattenSeq(seqs)) = UNION {ToSet(seqs[i]) : i \in DOMAIN seqs}
<1> DEFINE s == FlattenSeq(seqs)
<1>1. PICK row, col : Strung(s, seqs, Len(seqs), row, col)
  BY FlattenSeqPlaces
<1>2. s \in Seq(S) /\ DOMAIN s = 1 .. Len(s) /\ DOMAIN seqs = 1 .. Len(seqs)
  BY FlattenSeqType, LenProperties
<1>3. \A i \in DOMAIN seqs : DOMAIN seqs[i] = 1 .. Len(seqs[i])
  BY LenProperties
<1> HIDE DEF s
<1>4. ASSUME NEW k \in DOMAIN s PROVE \E i \in DOMAIN seqs : s[k] \in ToSet(seqs[i])
  <2>1. row[k] \in DOMAIN seqs /\ col[k] \in DOMAIN seqs[row[k]] /\ s[k] = seqs[row[k]][col[k]]
    BY <1>1, <1>2, <1>3 DEF Strung
  <2> QED BY <2>1 DEF ToSet
<1>5. ASSUME NEW i \in DOMAIN seqs, NEW j \in DOMAIN seqs[i] PROVE seqs[i][j] \in ToSet(s)
  <2>0. i \in 1 .. Len(seqs) /\ j \in 1 .. Len(seqs[i])
    BY <1>2, <1>3
  <2>1. PICK k \in 1 .. Len(s) : row[k] = i /\ col[k] = j
    BY <1>1, <2>0 DEF Strung
  <2>2. k \in DOMAIN s /\ s[k] = seqs[i][j]
    BY <1>1, <1>2, <2>1 DEF Strung
  <2> QED BY <2>2 DEF ToSet
<1>6. ToSet(s) \subseteq UNION {ToSet(seqs[i]) : i \in DOMAIN seqs}
  BY <1>4 DEF ToSet
<1>7. UNION {ToSet(seqs[i]) : i \in DOMAIN seqs} \subseteq ToSet(s)
  BY <1>5 DEF ToSet
<1> QED BY <1>6, <1>7 DEF s

\* It repeats nothing if the sequences do not, alone and among each other.
LEMMA FlattenSeqInjective ==
  ASSUME NEW S, NEW seqs \in Seq(Seq(S)), \A i \in DOMAIN seqs : IsInjective(seqs[i]),
         \A i, j \in DOMAIN seqs : i # j => ToSet(seqs[i]) \cap ToSet(seqs[j]) = {}
  PROVE  IsInjective(FlattenSeq(seqs))
<1> DEFINE s == FlattenSeq(seqs)
<1>1. PICK row, col : Strung(s, seqs, Len(seqs), row, col)
  BY FlattenSeqPlaces
<1>2. s \in Seq(S) /\ DOMAIN s = 1 .. Len(s) /\ Len(s) \in Nat /\ DOMAIN seqs = 1 .. Len(seqs)
  BY FlattenSeqType, LenProperties
<1>3. \A i \in DOMAIN seqs : DOMAIN seqs[i] = 1 .. Len(seqs[i])
  BY LenProperties
<1> HIDE DEF s
<1>4. ASSUME NEW k \in DOMAIN s, NEW l \in DOMAIN s, s[k] = s[l], k < l PROVE FALSE
  <2>1. /\ row[k] \in DOMAIN seqs /\ col[k] \in DOMAIN seqs[row[k]] /\ s[k] = seqs[row[k]][col[k]]
        /\ row[l] \in DOMAIN seqs /\ col[l] \in DOMAIN seqs[row[l]] /\ s[l] = seqs[row[l]][col[l]]
    BY <1>1, <1>2, <1>3 DEF Strung
  <2>2. row[k] = row[l]
    BY <1>4, <2>1 DEF ToSet
  <2>3. IsInjective(seqs[row[k]])
    BY <2>1
  <2>4. col[k] = col[l]
    BY <1>4, <2>1, <2>2, <2>3 DEF IsInjective
  <2>5. /\ row[k] \in 1 .. Len(seqs) /\ col[k] \in Nat
        /\ row[k] < row[l] \/ (row[k] = row[l] /\ col[k] < col[l])
    BY <1>1, <1>2, <1>4 DEF Strung
  <2>6. Len(seqs) \in Nat
    BY LenProperties
  <2> QED BY <2>2, <2>4, <2>5, <2>6
<1>5. \A k, l \in DOMAIN s : k < l \/ l < k \/ k = l
  BY <1>2
<1> QED BY <1>4, <1>5 DEF IsInjective, s

\* It has several elements if two of the sequences have one, or one has two.
LEMMA FlattenSeqSeveral ==
  ASSUME NEW S, NEW seqs \in Seq(Seq(S)), \A i \in DOMAIN seqs : IsInjective(seqs[i])
  PROVE  Len(FlattenSeq(seqs)) > 1 <=>
           \E i, j \in DOMAIN seqs : \E x \in ToSet(seqs[i]), y \in ToSet(seqs[j]) : x # y \/ i # j
<1> DEFINE s == FlattenSeq(seqs)
<1>1. PICK row, col : Strung(s, seqs, Len(seqs), row, col)
  BY FlattenSeqPlaces
<1>2. s \in Seq(S) /\ DOMAIN s = 1 .. Len(s) /\ Len(s) \in Nat /\ DOMAIN seqs = 1 .. Len(seqs)
      /\ Len(seqs) \in Nat
  BY FlattenSeqType, LenProperties
<1>3. \A i \in DOMAIN seqs : DOMAIN seqs[i] = 1 .. Len(seqs[i])
  BY LenProperties
<1> HIDE DEF s
<1>4. ASSUME Len(s) > 1
      PROVE  \E i, j \in DOMAIN seqs : \E x \in ToSet(seqs[i]), y \in ToSet(seqs[j]) : x # y \/ i # j
  <2>1. 1 \in 1 .. Len(s) /\ 2 \in 1 .. Len(s)
    BY <1>2, <1>4
  <2>2. \A k \in {1, 2} : /\ row[k] \in DOMAIN seqs /\ col[k] \in DOMAIN seqs[row[k]]
                          /\ s[k] = seqs[row[k]][col[k]] /\ col[k] \in Nat
    <3> SUFFICES ASSUME NEW k \in 1 .. Len(s)
                 PROVE  /\ row[k] \in DOMAIN seqs /\ col[k] \in DOMAIN seqs[row[k]]
                        /\ s[k] = seqs[row[k]][col[k]] /\ col[k] \in Nat
      BY <2>1
    <3>1. row[k] \in 1 .. Len(seqs) /\ col[k] \in 1 .. Len(seqs[row[k]])
          /\ s[k] = seqs[row[k]][col[k]] /\ col[k] \in Nat
      BY <1>1 DEF Strung
    <3> QED BY <1>2, <1>3, <3>1
  <2>3. row[1] # row[2] \/ col[1] # col[2]
    <3>1. row[1] < row[2] \/ (row[1] = row[2] /\ col[1] < col[2])
      BY <1>1, <2>1 DEF Strung
    <3> QED BY <1>2, <2>2, <3>1
  <2>4. s[1] # s[2] \/ row[1] # row[2]
    BY <2>2, <2>3 DEF IsInjective
  <2>5. s[1] \in ToSet(seqs[row[1]]) /\ s[2] \in ToSet(seqs[row[2]])
    BY <2>2 DEF ToSet
  <2> QED BY <2>2, <2>4, <2>5
<1>5. ASSUME NEW i \in DOMAIN seqs, NEW j \in DOMAIN seqs,
             NEW x \in ToSet(seqs[i]), NEW y \in ToSet(seqs[j]), x # y \/ i # j
      PROVE  Len(s) > 1
  <2>1. PICK a \in DOMAIN seqs[i] : x = seqs[i][a]
    BY DEF ToSet
  <2>2. PICK b \in DOMAIN seqs[j] : y = seqs[j][b]
    BY DEF ToSet
  <2>0. i \in 1 .. Len(seqs) /\ a \in 1 .. Len(seqs[i]) /\ j \in 1 .. Len(seqs) /\ b \in 1 .. Len(seqs[j])
    BY <1>2, <1>3
  <2>3. PICK k \in 1 .. Len(s) : row[k] = i /\ col[k] = a
    BY <1>1, <2>0 DEF Strung
  <2>4. PICK l \in 1 .. Len(s) : row[l] = j /\ col[l] = b
    BY <1>1, <2>0 DEF Strung
  <2>5. k # l
    BY <1>5, <2>1, <2>2, <2>3, <2>4
  <2> QED BY <1>2, <2>5
<1> QED BY <1>4, <1>5 DEF s

\* f starts with base and goes on by step.
Steps(f, n, base, step) == f[0] = base /\ \A i \in 1 .. n : f[i] = step[i][f[i - 1]]

\* A function that is built step by step exists, with its type.
LEMMA Recursion ==
  ASSUME NEW T, NEW n \in Nat, NEW base \in T, NEW step \in [1 .. n -> [T -> T]]
  PROVE  \E f \in [0 .. n -> T] : Steps(f, n, base, step)
<1> DEFINE Step(g, i) == IF i = 0 THEN base ELSE step[i][g[i - 1]]
           Rec(g, m) == g = [i \in 0 .. m |-> Step(g, i)]
           N == {m \in Nat : m <= n => \E g \in [0 .. m -> T] : Rec(g, m)}
<1>1. 0 \in N
  <2>1. [i \in 0 .. 0 |-> base] \in [0 .. 0 -> T] /\ Rec([i \in 0 .. 0 |-> base], 0)
    OBVIOUS
  <2> HIDE DEF Rec
  <2> QED BY <2>1
<1>2. ASSUME NEW m \in Nat, m \in N PROVE m + 1 \in N
  <2> SUFFICES ASSUME m + 1 <= n PROVE \E g \in [0 .. m + 1 -> T] : Rec(g, m + 1)
    <3> HIDE DEF Rec
    <3> QED OBVIOUS
  <2>1. PICK g \in [0 .. m -> T] : Rec(g, m)
    <3> HIDE DEF Rec
    <3> QED BY <1>2
  <2> DEFINE h == [i \in 0 .. m + 1 |-> IF i = m + 1 THEN step[i][g[m]] ELSE g[i]]
  <2>2. \A i \in 0 .. m : g[i] = Step(g, i) /\ g[i] \in T
    BY <2>1
  <2>3. step[m + 1][g[m]] \in T
    BY <2>2
  <2>4. \A i \in 0 .. m + 1 : h[i] \in T /\ h[i] = Step(h, i)
    <3> TAKE i \in 0 .. m + 1
    <3>1. CASE i = m + 1
      <4>1. h[i] = step[i][g[m]] /\ i # 0 /\ i - 1 = m /\ m # m + 1 /\ m \in 0 .. m + 1
        BY <3>1
      <4>2. h[m] = g[m]
        BY <4>1
      <4> HIDE DEF h
      <4> QED BY <2>3, <3>1, <4>1, <4>2
    <3>2. CASE i # m + 1
      <4>1. i \in 0 .. m /\ h[i] = g[i]
        BY <3>2
      <4>2. i # 0 => i - 1 \in 0 .. m + 1 /\ i - 1 # m + 1
        BY <4>1
      <4>3. i # 0 => h[i - 1] = g[i - 1]
        BY <4>2
      <4> HIDE DEF h
      <4> QED BY <2>2, <4>1, <4>3
    <3> QED BY <3>1, <3>2
  <2>5. h = [i \in 0 .. m + 1 |-> h[i]]
    OBVIOUS
  <2> HIDE DEF h, Step
  <2> QED BY <2>4, <2>5
<1>3. \E g \in [0 .. n -> T] : Rec(g, n)
  <2> HIDE DEF Rec
  <2>1. Nat \subseteq N
    <3> HIDE DEF N
    <3> QED BY <1>1, <1>2, Induction
  <2> QED BY <2>1
<1>4. PICK f \in [0 .. n -> T] : Rec(f, n)
  <2> HIDE DEF Rec
  <2> QED BY <1>3
<1>5. \A i \in 0 .. n : f[i] = Step(f, i)
  BY <1>4
<1>6. f[0] = base
  <2>1. 0 \in 0 .. n
    OBVIOUS
  <2> QED BY <1>5, <2>1
<1>7. ASSUME NEW i \in 1 .. n PROVE f[i] = step[i][f[i - 1]]
  <2>1. i \in 0 .. n /\ i # 0
    OBVIOUS
  <2> QED BY <1>5, <2>1
<1> QED BY <1>6, <1>7 DEF Steps

\* What every step keeps holds at the end.
LEMMA RecursionType ==
  ASSUME NEW T, NEW n \in Nat, NEW f, f[0] \in T,
         \A i \in 1 .. n : f[i - 1] \in T => f[i] \in T
  PROVE  f[n] \in T
<1> DEFINE N == {m \in Nat : m <= n => f[m] \in T}
<1>1. ASSUME NEW m \in Nat, m \in N PROVE m + 1 \in N
  <2>1. m + 1 <= n => m + 1 \in 1 .. n /\ (m + 1) - 1 = m
    OBVIOUS
  <2> QED BY <1>1, <2>1
<1>2. 0 \in N
  OBVIOUS
<1> HIDE DEF N
<1>3. n \in N
  BY <1>1, <1>2, Induction
<1> QED BY <1>3 DEF N

\* An element of a sequence over a set is in the set.
LEMMA ElementType ==
  ASSUME NEW S, NEW s \in Seq(S), NEW k \in DOMAIN s
  PROVE  s[k] \in S
OBVIOUS

\* A sequence with one element replaced is one over the same set.
LEMMA ExceptType ==
  ASSUME NEW S, NEW s \in Seq(S), NEW k, NEW x, k \in DOMAIN s => x \in S
  PROVE  [s EXCEPT ![k] = x] \in Seq(S)
<1> DEFINE t == [s EXCEPT ![k] = x]
<1>1. PICK n \in Nat : s \in [1 .. n -> S]
  OBVIOUS
<1>2. t = [i \in 1 .. n |-> t[i]] /\ \A i \in 1 .. n : t[i] \in S
  BY <1>1
<1> HIDE DEF t
<1>3. t \in [1 .. n -> S]
  BY <1>2
<1> QED BY <1>3 DEF t

\* R orders the numbers up to n, and the place of one of them is behind those that come before.
Orders(R, n) ==
  /\ \A i \in 1 .. n : <<i, i>> \notin R
  /\ \A i, j, k \in 1 .. n : <<i, j>> \in R /\ <<j, k>> \in R => <<i, k>> \in R
  /\ \A i, j \in 1 .. n : i # j => <<i, j>> \in R \/ <<j, i>> \in R

Preceding(R, n, j) == {i \in 1 .. n : <<i, j>> \in R}

PlaceIn(R, n, j) == Cardinality(Preceding(R, n, j)) + 1

\* Every number has a place of its own and every place its number.
LEMMA PlacesAreTaken ==
  ASSUME NEW n \in Nat, NEW R, Orders(R, n)
  PROVE  /\ \A j \in 1 .. n : PlaceIn(R, n, j) \in 1 .. n
         /\ \A i, j \in 1 .. n : PlaceIn(R, n, i) = PlaceIn(R, n, j) => i = j
         /\ \A k \in 1 .. n : \E j \in 1 .. n : PlaceIn(R, n, j) = k
<1> DEFINE D == 1 .. n
           Pre(j) == Preceding(R, n, j)
<1>1. IsFiniteSet(D) /\ Cardinality(D) = n
  BY FS_Interval
<1> HIDE DEF D
<1>2. ASSUME NEW j \in D
      PROVE  Pre(j) \subseteq D \ {j} /\ IsFiniteSet(Pre(j)) /\ Cardinality(Pre(j)) \in Nat
             /\ Cardinality(Pre(j)) + 1 <= n
  <2>1. Pre(j) \in SUBSET (D \ {j})
    BY DEF D, Orders, Preceding
  <2>2. IsFiniteSet(D \ {j}) /\ Cardinality(D \ {j}) = n - 1
    BY <1>1, FS_RemoveElement
  <2> HIDE DEF Pre
  <2>3. IsFiniteSet(Pre(j)) /\ Cardinality(Pre(j)) <= n - 1
    BY <2>1, <2>2, FS_Subset
  <2>4. Cardinality(Pre(j)) \in Nat
    BY <2>3, FS_CardinalityType
  <2> QED BY <2>1, <2>3, <2>4
<1>3. ASSUME NEW i \in D, NEW j \in D, <<i, j>> \in R
      PROVE  Cardinality(Pre(i)) # Cardinality(Pre(j))
  <2>1. Pre(i) \in SUBSET Pre(j) /\ i \in Pre(j) /\ i \notin Pre(i)
    BY <1>3 DEF D, Orders, Preceding
  <2> HIDE DEF Pre
  <2>2. IsFiniteSet(Pre(j)) /\ Pre(i) # Pre(j)
    BY <1>2, <2>1
  <2> QED BY <2>1, <2>2, FS_Subset
<1>4. \A i, j \in D : i # j => Cardinality(Pre(i)) # Cardinality(Pre(j))
  BY <1>3 DEF D, Orders
<1>5. \A j \in D : PlaceIn(R, n, j) = Cardinality(Pre(j)) + 1
  BY DEF PlaceIn
<1> HIDE DEF Pre
<1>6. /\ \A j \in D : PlaceIn(R, n, j) \in D
      /\ \A i, j \in D : PlaceIn(R, n, i) = PlaceIn(R, n, j) => i = j
  <2>1. \A j \in D : PlaceIn(R, n, j) \in Nat /\ 1 <= PlaceIn(R, n, j) /\ PlaceIn(R, n, j) <= n
    BY <1>2, <1>5
  <2>2. ASSUME NEW i \in D, NEW j \in D, PlaceIn(R, n, i) = PlaceIn(R, n, j) PROVE i = j
    <3>1. Cardinality(Pre(i)) \in Nat /\ Cardinality(Pre(j)) \in Nat
          /\ Cardinality(Pre(i)) + 1 = Cardinality(Pre(j)) + 1
      BY <1>2, <1>5, <2>2
    <3>2. Cardinality(Pre(i)) = Cardinality(Pre(j))
      BY <3>1
    <3> QED BY <1>4, <3>2
  <2> QED BY <2>1, <2>2 DEF D
<1>7. \A k \in D : \E j \in D : PlaceIn(R, n, j) = k
  <2>1. PICK place : place = [j \in D |-> PlaceIn(R, n, j)]
    OBVIOUS
  <2>2. place \in Injection(D, D)
    BY <1>6, <2>1 DEF Injection, IsInjective
  <2>3. place \in Surjection(D, D)
    BY <1>1, <2>2, FS_Injection
  <2> QED BY <2>1, <2>3 DEF Surjection
<1> QED BY <1>6, <1>7 DEF D

\* The same things in the same order have the same places.
LEMMA PlacesAgree ==
  ASSUME NEW n \in Nat, NEW R, NEW Q, NEW p \in Bijection(1 .. n, 1 .. n),
         \A i, j \in 1 .. n : <<p[i], p[j]>> \in Q <=> <<i, j>> \in R
  PROVE  \A j \in 1 .. n : PlaceIn(Q, n, p[j]) = PlaceIn(R, n, j)
<1> DEFINE D == 1 .. n
<1>1. p \in [D -> D] /\ (\A i, j \in D : p[i] = p[j] => i = j) /\ \A k \in D : \E i \in D : p[i] = k
  BY DEF Bijection, Injection, Surjection, IsInjective
<1>2. IsFiniteSet(D)
  BY FS_Interval
<1> HIDE DEF D
<1>3. ASSUME NEW j \in D PROVE Cardinality(Preceding(Q, n, p[j])) = Cardinality(Preceding(R, n, j))
  <2> DEFINE A == Preceding(R, n, j)
             B == Preceding(Q, n, p[j])
  <2>1. A = {i \in D : <<i, j>> \in R} /\ B = {i \in D : <<i, p[j]>> \in Q}
    BY DEF Preceding, D
  <2>2. \A i \in D : i \in A <=> p[i] \in B
    BY <1>1, <2>1 DEF D
  <2> HIDE DEF A, B
  <2>3. PICK f : f = [i \in A |-> p[i]]
    OBVIOUS
  <2>4. f \in Bijection(A, B)
    <3>1. f \in [A -> B]
      BY <1>1, <2>1, <2>2, <2>3
    <3>2. \A a, b \in A : f[a] = f[b] => a = b
      BY <1>1, <2>1, <2>3
    <3>3. \A b \in B : \E a \in A : f[a] = b
      BY <1>1, <2>1, <2>2, <2>3
    <3> QED BY <3>1, <3>2, <3>3 DEF Bijection, Injection, Surjection, IsInjective
  <2>5. IsFiniteSet(A)
    BY <1>2, <2>1, FS_Subset
  <2>6. ExistsBijection(A, B)
    BY <2>4 DEF ExistsBijection
  <2> QED BY <2>5, <2>6, FS_Bijection DEF A, B
<1> QED BY <1>3 DEF PlaceIn, D

\* A set of numbers has a least one.
LEMMA LeastOf ==
  ASSUME NEW S \in SUBSET Nat, S # {}
  PROVE  Min(S) \in S /\ \A x \in S : Min(S) <= x
<1>1. \E x \in S : \A y \in S : x <= y
  <2> DEFINE T == {n \in Nat : \A x \in S : n < x}
  <2>1. SUFFICES ASSUME \A x \in S : \E y \in S : ~(x <= y) PROVE FALSE
    OBVIOUS
  <2>2. 0 \in T
    <3>1. \A x \in S : x # 0
      BY <2>1
    <3> QED BY <3>1
  <2>3. ASSUME NEW n \in Nat, n \in T PROVE n + 1 \in T
    <3>1. \A x \in S : x # n + 1
      BY <2>1, <2>3
    <3> QED BY <2>3, <3>1
  <2> HIDE DEF T
  <2>4. Nat \subseteq T
    BY <2>2, <2>3, Induction
  <2>5. PICK x \in S : TRUE
    OBVIOUS
  <2>6. x \in T
    BY <2>4
  <2> QED BY <2>5, <2>6 DEF T
<1>2. PICK x : x = Min(S)
  OBVIOUS
<1>3. x \in S /\ \A y \in S : x <= y
  BY <1>1, <1>2 DEF Min
<1> QED BY <1>2, <1>3

\* What is in two sequences one after the other.
LEMMA ConcatElements ==
  ASSUME NEW S, NEW s \in Seq(S), NEW t \in Seq(S)
  PROVE  s \o t \in Seq(S) /\ ToSet(s \o t) = ToSet(s) \cup ToSet(t)
<1>1. PICK m \in Nat, n \in Nat : m = Len(s) /\ n = Len(t) /\ DOMAIN s = 1 .. m /\ DOMAIN t = 1 .. n
  BY LenProperties
<1>2. PICK u : u = s \o t
  OBVIOUS
<1>3. /\ u \in Seq(S) /\ DOMAIN u = 1 .. (m + n)
      /\ \A i \in 1 .. (m + n) : u[i] = IF i <= m THEN s[i] ELSE t[i - m]
  BY <1>1, <1>2
<1>4. \A i \in 1 .. m : i \in 1 .. (m + n) /\ u[i] = s[i]
  BY <1>3
<1>5. \A i \in 1 .. n : m + i \in 1 .. (m + n) /\ u[m + i] = t[i]
  <2> TAKE i \in 1 .. n
  <2>1. m + i \in 1 .. (m + n) /\ ~(m + i <= m) /\ (m + i) - m = i
    OBVIOUS
  <2> QED BY <1>3, <2>1
<1>6. \A i \in 1 .. (m + n) : (i \in 1 .. m /\ u[i] = s[i]) \/ (i - m \in 1 .. n /\ u[i] = t[i - m])
  BY <1>3
<1>7. /\ ToSet(s) = {s[i] : i \in 1 .. m} /\ ToSet(t) = {t[i] : i \in 1 .. n}
      /\ ToSet(u) = {u[i] : i \in 1 .. (m + n)}
  BY <1>1, <1>3 DEF ToSet
<1>8. ToSet(u) \subseteq ToSet(s) \cup ToSet(t)
  BY <1>6, <1>7
<1>9. ToSet(s) \cup ToSet(t) \subseteq ToSet(u)
  BY <1>4, <1>5, <1>7
<1> QED BY <1>2, <1>3, <1>8, <1>9

\* Where the elements of two sequences one after the other are.
LEMMA ConcatPlaces ==
  ASSUME NEW S, NEW a \in Seq(S), NEW b \in Seq(S)
  PROVE  /\ a \o b \in Seq(S) /\ Len(a \o b) = Len(a) + Len(b)
         /\ \A k \in 1 .. Len(a) + Len(b) : (a \o b)[k] = IF k <= Len(a) THEN a[k] ELSE b[k - Len(a)]
OBVIOUS

\* Numbers that are matched up to two bounds have the same bound.
LEMMA SameLength ==
  ASSUME NEW m \in Nat, NEW n \in Nat, NEW f \in Bijection(1 .. m, 1 .. n)
  PROVE  m = n
<1>1. 1 \in Int /\ m \in Int /\ n \in Int
  OBVIOUS
<1>2. IsFiniteSet(1 .. m) /\ Cardinality(1 .. m) = m /\ IsFiniteSet(1 .. n) /\ Cardinality(1 .. n) = n
  BY FS_Interval
<1>3. ExistsBijection(1 .. m, 1 .. n)
  BY DEF ExistsBijection
<1> QED BY <1>2, <1>3, FS_Bijection

\* Two orders of the same names are one permuted.
LEMMA OrdersPermute ==
  ASSUME NEW K, NEW m \in Nat, NEW n \in Nat, NEW o \in Bijection(1 .. m, K), NEW u \in Bijection(1 .. n, K)
  PROVE  m = n /\ \E q \in Bijection(1 .. n, 1 .. n) : \A i \in 1 .. n : u[q[i]] = o[i]
<1>1. /\ \A i \in 1 .. m : o[i] \in K
      /\ \A i, j \in 1 .. m : o[i] = o[j] => i = j
      /\ \A k \in K : \E i \in 1 .. m : o[i] = k
  BY DEF Bijection, Injection, Surjection, IsInjective
<1>2. /\ \A i \in 1 .. n : u[i] \in K
      /\ \A i, j \in 1 .. n : u[i] = u[j] => i = j
      /\ \A k \in K : \E i \in 1 .. n : u[i] = k
  BY DEF Bijection, Injection, Surjection, IsInjective
<1> DEFINE At(i) == CHOOSE j \in 1 .. n : u[j] = o[i]
<1>3. \A i \in 1 .. m : At(i) \in 1 .. n /\ u[At(i)] = o[i]
  BY <1>1, <1>2
<1> HIDE DEF At
<1>4. PICK q : q = [i \in 1 .. m |-> At(i)]
  OBVIOUS
<1>5. q \in [1 .. m -> 1 .. n] /\ \A i \in 1 .. m : q[i] \in 1 .. n /\ u[q[i]] = o[i]
  BY <1>3, <1>4
<1>6. \A i, j \in 1 .. m : q[i] = q[j] => i = j
  BY <1>1, <1>5
<1>7. ASSUME NEW j \in 1 .. n PROVE \E i \in 1 .. m : q[i] = j
  <2>1. PICK i \in 1 .. m : o[i] = u[j]
    BY <1>1, <1>2
  <2>2. q[i] \in 1 .. n /\ u[q[i]] = u[j]
    BY <1>5, <2>1
  <2> QED BY <1>2, <2>2
<1>8. q \in Bijection(1 .. m, 1 .. n)
  BY <1>5, <1>6, <1>7 DEF Bijection, Injection, Surjection, IsInjective
<1>9. m = n
  BY <1>8, SameLength
<1> QED BY <1>5, <1>8, <1>9

\* Of two elements of a flattened sequence that come from one sequence the one before stays before.
Follows(row, p, n) == \A k, l \in 1 .. n : row[k] = row[l] => (k < l <=> p[k] < p[l])

\* One flattened sequence is the other with its elements in other places, those of a sequence in order.
Interleaved(seqs, others, n) ==
  LET s == FlattenSeq(seqs)
      t == FlattenSeq(others)
  IN  /\ Len(t) = Len(s)
      /\ \E row \in [1 .. Len(s) -> 1 .. n], p \in Bijection(1 .. Len(s), 1 .. Len(s)) :
           /\ \A k \in 1 .. Len(s) : t[p[k]] = s[k] /\ s[k] \in ToSet(seqs[row[k]])
           /\ Follows(row, p, Len(s))

\* The same sequences flattened in another order have the same elements, those of each in its order.
LEMMA FlattenSeqPermuted ==
  ASSUME NEW S, NEW seqs \in Seq(Seq(S)), NEW others \in Seq(Seq(S)), NEW n \in Nat, n = Len(seqs), n = Len(others),
         NEW q \in Bijection(1 .. n, 1 .. n), \A i \in 1 .. n : others[q[i]] = seqs[i]
  PROVE  Interleaved(seqs, others, n)
<1>1. PICK s, t : s = FlattenSeq(seqs) /\ t = FlattenSeq(others)
  OBVIOUS
<1>2. s \in Seq(S) /\ t \in Seq(S)
  BY <1>1, FlattenSeqType
<1>3. PICK a \in Nat, b \in Nat : a = Len(s) /\ b = Len(t) /\ DOMAIN s = 1 .. a /\ DOMAIN t = 1 .. b
  BY <1>2, LenProperties
<1>4. PICK row, col : Strung(s, seqs, n, row, col)
  BY <1>1, FlattenSeqPlaces
<1>5. PICK row2, col2 : Strung(t, others, n, row2, col2)
  BY <1>1, FlattenSeqPlaces
<1>6. row \in [1 .. a -> 1 .. n] /\ \A k \in 1 .. a : row[k] \in 1 .. n /\ col[k] \in Nat
  BY <1>3, <1>4 DEF Strung
<1>7. \A k \in 1 .. a : col[k] \in 1 .. Len(seqs[row[k]]) /\ s[k] = seqs[row[k]][col[k]]
  BY <1>3, <1>4 DEF Strung
<1>8. \A i \in 1 .. n : \A j \in 1 .. Len(seqs[i]) : \E k \in 1 .. a : row[k] = i /\ col[k] = j
  BY <1>3, <1>4 DEF Strung
<1>9. ASSUME NEW k \in 1 .. a, NEW l \in 1 .. a, k < l
        PROVE  row[k] < row[l] \/ (row[k] = row[l] /\ col[k] < col[l])
  BY <1>3, <1>4, <1>9 DEF Strung
<1>10. row2 \in [1 .. b -> 1 .. n] /\ \A k \in 1 .. b : row2[k] \in 1 .. n /\ col2[k] \in Nat
  BY <1>3, <1>5 DEF Strung
<1>11. \A k \in 1 .. b : col2[k] \in 1 .. Len(others[row2[k]]) /\ t[k] = others[row2[k]][col2[k]]
  BY <1>3, <1>5 DEF Strung
<1>12. \A i \in 1 .. n : \A j \in 1 .. Len(others[i]) : \E k \in 1 .. b : row2[k] = i /\ col2[k] = j
  BY <1>3, <1>5 DEF Strung
<1>13. ASSUME NEW k \in 1 .. b, NEW l \in 1 .. b, k < l
        PROVE  row2[k] < row2[l] \/ (row2[k] = row2[l] /\ col2[k] < col2[l])
  BY <1>3, <1>5, <1>13 DEF Strung
<1>14. /\ q \in [1 .. n -> 1 .. n] /\ (\A i, j \in 1 .. n : q[i] = q[j] => i = j)
      /\ \A i \in 1 .. n : \E j \in 1 .. n : q[j] = i
  BY DEF Bijection, Injection, Surjection, IsInjective
\* A place is told by its row and its column.
<1>15. \A k, l \in 1 .. a : row[k] = row[l] /\ col[k] = col[l] => k = l
  <2>1. ASSUME NEW k \in 1 .. a, NEW l \in 1 .. a, k < l, row[k] = row[l], col[k] = col[l] PROVE FALSE
    <3>1. row[k] \in 1 .. n /\ col[k] \in Nat
      BY <1>6
    <3>2. row[k] < row[l] \/ (row[k] = row[l] /\ col[k] < col[l])
      BY <1>9, <2>1
    <3> QED BY <2>1, <3>1, <3>2
  <2>2. \A k, l \in 1 .. a : k < l \/ l < k \/ k = l
    OBVIOUS
  <2> QED BY <2>1, <2>2
<1>16. \A k, l \in 1 .. b : row2[k] = row2[l] /\ col2[k] = col2[l] => k = l
  <2>1. ASSUME NEW k \in 1 .. b, NEW l \in 1 .. b, k < l, row2[k] = row2[l], col2[k] = col2[l] PROVE FALSE
    <3>1. row2[k] \in 1 .. n /\ col2[k] \in Nat
      BY <1>10
    <3>2. row2[k] < row2[l] \/ (row2[k] = row2[l] /\ col2[k] < col2[l])
      BY <1>13, <2>1
    <3> QED BY <2>1, <3>1, <3>2
  <2>2. \A k, l \in 1 .. b : k < l \/ l < k \/ k = l
    OBVIOUS
  <2> QED BY <2>1, <2>2
<1>17. \A k \in 1 .. a : \E l \in 1 .. b : row2[l] = q[row[k]] /\ col2[l] = col[k]
  <2> SUFFICES ASSUME NEW k \in 1 .. a PROVE \E l \in 1 .. b : row2[l] = q[row[k]] /\ col2[l] = col[k]
    OBVIOUS
  <2>1. row[k] \in 1 .. n /\ q[row[k]] \in 1 .. n /\ others[q[row[k]]] = seqs[row[k]]
    BY <1>6, <1>14
  <2>2. col[k] \in 1 .. Len(others[q[row[k]]])
    BY <1>7, <2>1
  <2> QED BY <1>12, <2>1, <2>2
<1> DEFINE To(k) == CHOOSE l \in 1 .. b : row2[l] = q[row[k]] /\ col2[l] = col[k]
<1>18. PICK p : p = [k \in 1 .. a |-> To(k)]
  OBVIOUS
<1>19. \A k \in 1 .. a : p[k] \in 1 .. b /\ row2[p[k]] = q[row[k]] /\ col2[p[k]] = col[k]
  <2> SUFFICES ASSUME NEW k \in 1 .. a PROVE To(k) \in 1 .. b /\ row2[To(k)] = q[row[k]] /\ col2[To(k)] = col[k]
    BY <1>18
  <2> QED BY <1>17
<1> HIDE DEF To
<1>20. \A k, l \in 1 .. a : p[k] = p[l] => k = l
  <2> SUFFICES ASSUME NEW k \in 1 .. a, NEW l \in 1 .. a, p[k] = p[l] PROVE k = l
    OBVIOUS
  <2>1. row[k] \in 1 .. n /\ row[l] \in 1 .. n
    BY <1>6
  <2>2. row2[p[k]] = q[row[k]] /\ col2[p[k]] = col[k]
    BY <1>19
  <2>3. row2[p[l]] = q[row[l]] /\ col2[p[l]] = col[l]
    BY <1>19
  <2>4. q[row[k]] = q[row[l]] /\ col[k] = col[l]
    BY <2>2, <2>3
  <2>5. row[k] = row[l]
    BY <1>14, <2>1, <2>4
  <2> QED BY <1>15, <2>4, <2>5
<1>21. \A l \in 1 .. b : \E k \in 1 .. a : p[k] = l
  <2> SUFFICES ASSUME NEW l \in 1 .. b PROVE \E k \in 1 .. a : p[k] = l
    OBVIOUS
  <2>1. PICK i \in 1 .. n : q[i] = row2[l]
    <3>1. row2[l] \in 1 .. n
      BY <1>10
    <3> QED BY <1>14, <3>1
  <2>2. col2[l] \in 1 .. Len(seqs[i])
    <3>1. others[row2[l]] = seqs[i]
      BY <2>1
    <3> QED BY <1>11, <3>1
  <2>3. PICK k \in 1 .. a : row[k] = i /\ col[k] = col2[l]
    BY <1>8, <2>2
  <2>4. p[k] \in 1 .. b /\ row2[p[k]] = row2[l] /\ col2[p[k]] = col2[l]
    BY <1>19, <2>1, <2>3
  <2> QED BY <1>16, <2>4
<1>22. p \in Bijection(1 .. a, 1 .. b)
  <2>1. p \in [1 .. a -> 1 .. b]
    BY <1>18, <1>19
  <2> QED BY <1>20, <1>21, <2>1 DEF Bijection, Injection, Surjection, IsInjective
<1>23. a = b
  BY <1>22, SameLength
<1>24. \A k \in 1 .. a : t[p[k]] = s[k] /\ s[k] \in ToSet(seqs[row[k]])
  <2> SUFFICES ASSUME NEW k \in 1 .. a PROVE t[p[k]] = s[k] /\ s[k] \in ToSet(seqs[row[k]])
    OBVIOUS
  <2>1. row[k] \in 1 .. n /\ others[q[row[k]]] = seqs[row[k]]
    BY <1>6
  <2>2. t[p[k]] = s[k]
    <3>1. p[k] \in 1 .. b /\ t[p[k]] = others[row2[p[k]]][col2[p[k]]] /\ row2[p[k]] = q[row[k]] /\ col2[p[k]] = col[k]
      BY <1>11, <1>19
    <3> QED BY <1>7, <2>1, <3>1
  <2>3. PICK x : x = seqs[row[k]]
    OBVIOUS
  <2>4. x \in Seq(S)
    <3>1. DOMAIN seqs = 1 .. n
      BY LenProperties
    <3> QED BY <2>1, <2>3, <3>1, ElementType
  <2>5. col[k] \in DOMAIN x /\ s[k] = x[col[k]]
    <3>1. col[k] \in 1 .. Len(x) /\ DOMAIN x = 1 .. Len(x)
      BY <1>7, <2>3, <2>4, LenProperties
    <3> QED BY <1>7, <2>3, <3>1
  <2> QED BY <2>2, <2>3, <2>5 DEF ToSet
<1>25. ASSUME NEW k \in 1 .. a, NEW l \in 1 .. a, row[k] = row[l], k < l PROVE p[k] < p[l]
  <2>0. row[k] \in 1 .. n /\ ~(row[k] < row[l])
    BY <1>6, <1>25
  <2>1. col[k] < col[l] /\ col[k] \in Nat /\ col[l] \in Nat
    BY <1>6, <1>9, <1>25, <2>0
  <2>2. row2[p[k]] = row2[p[l]] /\ col2[p[k]] < col2[p[l]] /\ p[k] \in 1 .. b /\ p[l] \in 1 .. b
    BY <1>19, <1>25, <2>1
  <2>3. row2[p[k]] \in 1 .. n /\ col2[p[k]] \in Nat /\ col2[p[l]] \in Nat
    BY <1>10, <2>2
  <2>4. ~(p[l] < p[k])
    <3>1. PICK c, d : c = p[k] /\ d = p[l]
      OBVIOUS
    <3>2. /\ c \in 1 .. b /\ d \in 1 .. b /\ row2[c] = row2[d] /\ col2[c] < col2[d]
          /\ row2[c] \in 1 .. n /\ col2[c] \in Nat /\ col2[d] \in Nat
      BY <2>2, <2>3, <3>1
    <3>3. ASSUME d < c PROVE FALSE
      <4>1. row2[d] < row2[c] \/ (row2[d] = row2[c] /\ col2[d] < col2[c])
        BY <1>13, <3>2, <3>3
      <4>2. PICK i \in 1 .. n, x \in Nat, y \in Nat : row2[c] = i /\ row2[d] = i /\ col2[c] = x /\ col2[d] = y
        BY <3>2
      <4>3. x < y /\ (i < i \/ y < x)
        BY <3>2, <4>1, <4>2
      <4> QED BY <4>3
    <3> QED BY <3>1, <3>3
  <2>5. p[k] # p[l]
    BY <2>2, <2>3
  <2> QED BY <2>2, <2>4, <2>5
<1>26. Follows(row, p, a)
  <2> SUFFICES ASSUME NEW k \in 1 .. a, NEW l \in 1 .. a, row[k] = row[l] PROVE k < l <=> p[k] < p[l]
    BY DEF Follows
  <2>1. p[k] \in 1 .. b /\ p[l] \in 1 .. b
    BY <1>19
  <2>2. k < l => p[k] < p[l]
    BY <1>25
  <2>3. l < k => p[l] < p[k]
    BY <1>25
  <2>4. k = l => p[k] = p[l]
    OBVIOUS
  <2> QED BY <2>1, <2>2, <2>3, <2>4
<1> QED BY <1>1, <1>3, <1>6, <1>22, <1>23, <1>24, <1>26 DEF Interleaved

\* The last element of a flattened sequence is that of the last sequence that has one.
LEMMA FlattenSeqLast ==
  ASSUME NEW S, NEW seqs \in Seq(Seq(S))
  PROVE  /\ (\A i \in DOMAIN seqs : seqs[i] = <<>>) => FlattenSeq(seqs) = <<>>
         /\ \A k \in DOMAIN seqs :
              seqs[k] # <<>> /\ (\A i \in DOMAIN seqs : i > k => seqs[i] = <<>>) =>
                FlattenSeq(seqs) # <<>> /\ Last(FlattenSeq(seqs)) = Last(seqs[k])
<1> DEFINE s == FlattenSeq(seqs)
<1>1. PICK row, col : Strung(s, seqs, Len(seqs), row, col)
  BY FlattenSeqPlaces
<1>2. s \in Seq(S) /\ Len(s) \in Nat /\ DOMAIN seqs = 1 .. Len(seqs) /\ Len(seqs) \in Nat
  BY FlattenSeqType, LenProperties
<1>3. \A i \in DOMAIN seqs : seqs[i] \in Seq(S) /\ Len(seqs[i]) \in Nat /\ (seqs[i] = <<>> <=> Len(seqs[i]) = 0)
  BY LenProperties, EmptySeq
<1> HIDE DEF s
<1>4. \A p \in 1 .. Len(s) : row[p] \in DOMAIN seqs /\ col[p] \in 1 .. Len(seqs[row[p]])
                             /\ s[p] = seqs[row[p]][col[p]] /\ seqs[row[p]] # <<>>
  <2> TAKE p \in 1 .. Len(s)
  <2>1. row[p] \in DOMAIN seqs /\ col[p] \in 1 .. Len(seqs[row[p]]) /\ s[p] = seqs[row[p]][col[p]]
    BY <1>1, <1>2 DEF Strung
  <2> QED BY <1>3, <2>1
<1>5. ASSUME \A i \in DOMAIN seqs : seqs[i] = <<>> PROVE s = <<>>
  <2>1. Len(s) = 0
    BY <1>2, <1>4, <1>5
  <2> QED BY <1>2, <2>1, EmptySeq
<1>6. ASSUME NEW k \in DOMAIN seqs, seqs[k] # <<>>, \A i \in DOMAIN seqs : i > k => seqs[i] = <<>>
      PROVE  s # <<>> /\ Last(s) = Last(seqs[k])
  <2>1. Len(seqs[k]) \in 1 .. Len(seqs[k])
    BY <1>3, <1>6
  <2>0. k \in 1 .. Len(seqs)
    BY <1>2
  <2>2. PICK p \in 1 .. Len(s) : row[p] = k /\ col[p] = Len(seqs[k])
    BY <1>1, <2>0, <2>1 DEF Strung
  <2>3. p = Len(s)
    <3> SUFFICES ASSUME p # Len(s) PROVE FALSE
      OBVIOUS
    <3>1. Len(s) \in 1 .. Len(s) /\ p < Len(s)
      BY <1>2
    <3>2. row[p] < row[Len(s)] \/ (row[p] = row[Len(s)] /\ col[p] < col[Len(s)])
      BY <1>1, <3>1 DEF Strung
    <3>3. row[Len(s)] \in DOMAIN seqs /\ ~(row[Len(s)] > k)
          /\ col[Len(s)] \in 1 .. Len(seqs[row[Len(s)]])
      BY <1>4, <1>6, <3>1
    <3>4. row[Len(s)] \in Nat /\ k \in Nat
      BY <1>2, <3>3
    <3>5. row[p] = row[Len(s)]
      BY <2>2, <3>2, <3>3, <3>4
    <3>6. col[Len(s)] \in 1 .. Len(seqs[k]) /\ col[p] < col[Len(s)]
      BY <2>2, <3>2, <3>3, <3>4, <3>5
    <3>7. Len(seqs[k]) \in Nat
      BY <1>3
    <3> QED BY <2>2, <3>6, <3>7
  <2>4. s[p] = seqs[k][Len(seqs[k])]
    BY <1>4, <2>2
  <2>5. s # <<>>
    BY <1>2, <2>2
  <2> QED BY <2>3, <2>4, <2>5 DEF Last
<1> QED BY <1>5, <1>6 DEF s
=============================================================================
