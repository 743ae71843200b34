----------------------------- MODULE ScopeProofs ----------------------------
(***************************************************************************)
(* Scopes are lexical. A text balances, so its openers and closers pair up *)
(* and the pairs nest; the stack the extractor keeps is the open pairs,    *)
(* from outer to inner, and the region, the range and the owner it         *)
(* computes from that stack are those of the pair that encloses a place    *)
(* most narrowly.                                                          *)
(***************************************************************************)
EXTENDS TemplateProofs

(***************************************************************************)
(* Balance is nesting.                                                     *)
(***************************************************************************)
\* The elements from i to j.
Part(A, i, j) == A \cap i .. j
CountIn(A, i, j) == Cardinality(Part(A, i, j))

\* Opening minus closing tags from i to j.
Balance(text, i, j) == CountIn(Openers(text), i, j) - CountIn(Closers(text), i, j)

\* A part of an interval is finite.
LEMMA PartIsFinite ==
  ASSUME NEW A, NEW i \in Nat, NEW j \in Nat
  PROVE  IsFiniteSet(Part(A, i, j)) /\ CountIn(A, i, j) \in Nat
<1>1. i \in Int /\ j \in Int
  OBVIOUS
<1>2. IsFiniteSet(i .. j)
  BY <1>1, FS_Interval
<1>3. IsFiniteSet(Part(A, i, j))
  BY <1>2, FS_Intersection DEF Part
<1> QED BY <1>3, FS_CardinalityType DEF CountIn

\* An interval that grows by one number meets a set in at most one element more.
LEMMA CountNext ==
  ASSUME NEW A, NEW i \in Nat, NEW j \in Nat, i <= j + 1
  PROVE  CountIn(A, i, j + 1) = CountIn(A, i, j) + (IF j + 1 \in A THEN 1 ELSE 0)
<1>1. IsFiniteSet(Part(A, i, j)) /\ CountIn(A, i, j) \in Nat
  BY PartIsFinite
<1>2. CASE j + 1 \in A
  <2>1. Part(A, i, j + 1) = Part(A, i, j) \cup {j + 1} /\ j + 1 \notin Part(A, i, j)
    BY <1>2 DEF Part
  <2>2. Cardinality(Part(A, i, j) \cup {j + 1}) = Cardinality(Part(A, i, j)) + 1
    BY <1>1, <2>1, FS_AddElement
  <2> QED BY <1>2, <2>1, <2>2 DEF CountIn
<1>3. CASE j + 1 \notin A
  <2>1. Part(A, i, j + 1) = Part(A, i, j)
    BY <1>3 DEF Part
  <2> QED BY <1>1, <1>3, <2>1 DEF CountIn
<1> QED BY <1>2, <1>3

\* What an interval counts is what its two parts count.
LEMMA CountSplits ==
  ASSUME NEW A, NEW i \in Nat, NEW h \in Nat, NEW j \in Nat, i <= h, h <= j
  PROVE  CountIn(A, i, j) = CountIn(A, i, h) + CountIn(A, h + 1, j)
<1> DEFINE L == Part(A, i, h)
           R == Part(A, h + 1, j)
<1>1. IsFiniteSet(L) /\ IsFiniteSet(R) /\ Cardinality(L) \in Nat /\ Cardinality(R) \in Nat
  <2>1. h + 1 \in Nat
    OBVIOUS
  <2> QED BY <2>1, PartIsFinite DEF CountIn
<1>2. Part(A, i, j) = L \cup R /\ L \cap R = {}
  BY DEF Part
<1> HIDE DEF L, R
<1>3. Cardinality(L \cup R) = Cardinality(L) + Cardinality(R) - Cardinality({})
  BY <1>1, <1>2, FS_Union
<1>4. Cardinality(L \cup R) = Cardinality(L) + Cardinality(R)
  BY <1>1, <1>3, FS_EmptySet
<1> QED BY <1>2, <1>4 DEF L, R, CountIn

\* A tag that opens a scope closes none.
LEMMA OpenersAreNoClosers ==
  ASSUME NEW tag, tag.kind \in ScopeKinds
  PROVE  ClosedKind(tag) = None /\ tag.kind # None
BY DEF ClosedKind, ScopeKinds, Closes, None

\* One tag changes the balance by at most one.
LEMMA BalanceNext ==
  ASSUME NEW text, NEW i \in Nat, NEW j \in Nat, i <= j + 1
  PROVE  /\ Balance(text, i, j) \in Int /\ Balance(text, i, j + 1) \in Int
         /\ Balance(text, i, j + 1) >= Balance(text, i, j) - 1
<1> DEFINE O == Openers(text)
           C == Closers(text)
<1>1. CountIn(O, i, j) \in Nat /\ CountIn(C, i, j) \in Nat
  BY PartIsFinite
<1>2. /\ CountIn(O, i, j + 1) = CountIn(O, i, j) + (IF j + 1 \in O THEN 1 ELSE 0)
      /\ CountIn(C, i, j + 1) = CountIn(C, i, j) + (IF j + 1 \in C THEN 1 ELSE 0)
  BY CountNext
<1> HIDE DEF O, C
<1>3. Balance(text, i, j) = CountIn(O, i, j) - CountIn(C, i, j)
      /\ Balance(text, i, j + 1) = CountIn(O, i, j + 1) - CountIn(C, i, j + 1)
  BY DEF Balance, O, C
<1> QED BY <1>1, <1>2, <1>3

\* The balance of an interval is that of its parts.
LEMMA BalanceSplits ==
  ASSUME NEW text, NEW i \in Nat, NEW h \in Nat, NEW j \in Nat, i <= h, h <= j
  PROVE  /\ Balance(text, i, h) \in Int /\ Balance(text, h + 1, j) \in Int
         /\ Balance(text, i, j) = Balance(text, i, h) + Balance(text, h + 1, j)
<1> DEFINE O == Openers(text)
           C == Closers(text)
<1>1. /\ CountIn(O, i, h) \in Nat /\ CountIn(C, i, h) \in Nat
      /\ CountIn(O, h + 1, j) \in Nat /\ CountIn(C, h + 1, j) \in Nat
  <2>1. h + 1 \in Nat
    OBVIOUS
  <2> QED BY <2>1, PartIsFinite
<1>2. /\ CountIn(O, i, j) = CountIn(O, i, h) + CountIn(O, h + 1, j)
      /\ CountIn(C, i, j) = CountIn(C, i, h) + CountIn(C, h + 1, j)
  BY CountSplits
<1> HIDE DEF O, C
<1>3. /\ Balance(text, i, j) = CountIn(O, i, j) - CountIn(C, i, j)
      /\ Balance(text, i, h) = CountIn(O, i, h) - CountIn(C, i, h)
      /\ Balance(text, h + 1, j) = CountIn(O, h + 1, j) - CountIn(C, h + 1, j)
  BY DEF Balance, O, C
<1> QED BY <1>1, <1>2, <1>3

\* What balances an opening tag.
LEMMA BalancingIs ==
  ASSUME NEW text, NEW i \in Nat, NEW j \in Nat
  PROVE  j \in Balancing(text, i) <=> j \in i + 1 .. Len(text) /\ Balance(text, i, j) = 0
<1>1. CountIn(Openers(text), i, j) \in Nat /\ CountIn(Closers(text), i, j) \in Nat
  BY PartIsFinite
<1>2. Balance(text, i, j) = 0 <=> CountIn(Openers(text), i, j) = CountIn(Closers(text), i, j)
  BY <1>1 DEF Balance
<1> QED BY <1>2, Zenon DEF Balancing, CountIn, Part

\* From an opening tag to its partner something is open.
LEMMA OpenUntilPartner ==
  ASSUME NEW text, IsText(text), NEW i \in Openers(text), Balancing(text, i) # {}
  PROVE  /\ Partner(text, i) \in Balancing(text, i) /\ Partner(text, i) \in Nat
         /\ \A h \in Nat : i <= h /\ h < Partner(text, i) => Balance(text, i, h) >= 1
<1>1. PICK n \in Nat : DOMAIN text = 1 .. n /\ Len(text) = n
  BY DEF IsText
<1>2. i \in 1 .. n
  BY <1>1 DEF Openers, Tags
<1> DEFINE B == Balancing(text, i)
           p == Partner(text, i)
<1>3. B \in SUBSET Nat
  BY <1>1, <1>2 DEF Balancing
<1>4. p \in B /\ \A h \in B : p <= h
  <2>1. \E j \in B : \A h \in B : j <= h
    <3>1. B # {}
      OBVIOUS
    <3> HIDE DEF B
    <3> QED BY <1>3, <3>1, LeastExists
  <2> QED BY <2>1 DEF Partner
<1>5. p \in i + 1 .. n
  BY <1>1, <1>4 DEF Balancing
<1>6. \A j \in i + 1 .. p - 1 : Balance(text, i, j) # 0
  <2> TAKE j \in i + 1 .. p - 1
  <2> SUFFICES ASSUME Balance(text, i, j) = 0 PROVE FALSE
    OBVIOUS
  <2>1. j \in i + 1 .. n /\ j < p
    BY <1>2, <1>5
  <2>4. j \in B
    BY <1>1, <1>2, <2>1, BalancingIs
  <2> HIDE DEF B, p
  <2>5. p <= j /\ j \in Nat /\ p \in Nat
    BY <1>3, <1>4, <2>4
  <2> QED BY <2>1, <2>5
<1> HIDE DEF B, p
<1>7. Balance(text, i, i) = 1
  <2>2. ASSUME NEW A PROVE CountIn(A, i, i) = IF i \in A THEN 1 ELSE 0
    <3>1. Part(A, i, i) = IF i \in A THEN {i} ELSE {}
      BY <1>2 DEF Part
    <3> QED BY <3>1, FS_EmptySet, FS_Singleton DEF CountIn
  <2>4. /\ CountIn(Openers(text), i, i) = IF i \in Openers(text) THEN 1 ELSE 0
        /\ CountIn(Closers(text), i, i) = IF i \in Closers(text) THEN 1 ELSE 0
    BY <2>2
  <2>5. i \notin Closers(text)
    BY OpenersAreNoClosers DEF Openers, Tags, Closers
  <2> QED BY <2>4, <2>5 DEF Balance
<1> DEFINE N == {d \in Nat : i + d < p => Balance(text, i, i + d) >= 1}
<1>8. 0 \in N
  BY <1>2, <1>7
<1>9. ASSUME NEW d \in Nat, d \in N PROVE d + 1 \in N
  <2> SUFFICES ASSUME i + (d + 1) < p PROVE Balance(text, i, i + (d + 1)) >= 1
    OBVIOUS
  <2>1. i + d \in Nat /\ i <= (i + d) + 1 /\ (i + d) + 1 = i + (d + 1) /\ i + d < p
    BY <1>2, <1>5
  <2>2. /\ Balance(text, i, i + d) \in Int /\ Balance(text, i, i + (d + 1)) \in Int
        /\ Balance(text, i, i + (d + 1)) >= Balance(text, i, i + d) - 1
    <3>1. /\ Balance(text, i, i + d) \in Int /\ Balance(text, i, (i + d) + 1) \in Int
          /\ Balance(text, i, (i + d) + 1) >= Balance(text, i, i + d) - 1
      BY <1>2, <2>1, BalanceNext
    <3> QED BY <2>1, <3>1
  <2>3. Balance(text, i, i + (d + 1)) # 0
    <3>1. i + (d + 1) \in i + 1 .. p - 1
      BY <1>2, <1>5
    <3> QED BY <1>6, <3>1
  <2>4. Balance(text, i, i + d) >= 1
    BY <1>9, <2>1
  <2> QED BY <2>2, <2>3, <2>4
<1> HIDE DEF N
<1>10. Nat \subseteq N
  BY <1>8, <1>9, Induction
<1>11. ASSUME NEW h \in Nat, i <= h, h < p PROVE Balance(text, i, h) >= 1
  <2>1. h - i \in N /\ i + (h - i) = h
    BY <1>2, <1>10, <1>11
  <2> QED BY <1>11, <2>1 DEF N
<1> QED BY <1>4, <1>5, <1>2, <1>11 DEF B, p

\* What is opened between an opening tag and its partner is closed there too.
LEMMA PartnersNest ==
  ASSUME NEW text, IsText(text), NEW i \in Openers(text), Balancing(text, i) # {},
         NEW h \in Openers(text), Balancing(text, h) # {}, i < h, h < Partner(text, i)
  PROVE  Partner(text, h) < Partner(text, i)
<1>1. PICK n \in Nat : DOMAIN text = 1 .. n /\ Len(text) = n
  BY DEF IsText
<1>2. i \in 1 .. n /\ h \in 1 .. n
  BY <1>1 DEF Openers, Tags
<1> DEFINE p == Partner(text, i)
           q == Partner(text, h)
<1>3. p \in Balancing(text, i) /\ p \in Nat /\ \A g \in Nat : i <= g /\ g < p => Balance(text, i, g) >= 1
  BY OpenUntilPartner
<1>4. q \in Balancing(text, h) /\ q \in Nat /\ \A g \in Nat : h <= g /\ g < q => Balance(text, h, g) >= 1
  BY OpenUntilPartner
<1>5. Balance(text, i, p) = 0
  BY <1>1, <1>2, <1>3, BalancingIs
<1>6. Balance(text, h, q) = 0
  BY <1>1, <1>2, <1>4, BalancingIs
<1>7. i < h /\ h < p
  OBVIOUS
<1> HIDE DEF p, q
<1>8. PICK m \in Nat : m + 1 = h /\ i <= m /\ m <= p /\ m < p
  <2>1. h - 1 \in Nat /\ (h - 1) + 1 = h /\ i <= h - 1 /\ h - 1 <= p /\ h - 1 < p
    BY <1>2, <1>3, <1>7
  <2> QED BY <2>1
<1>9. /\ Balance(text, i, m) \in Int /\ Balance(text, h, p) \in Int
      /\ Balance(text, i, p) = Balance(text, i, m) + Balance(text, h, p)
  <2>1. /\ Balance(text, i, m) \in Int /\ Balance(text, m + 1, p) \in Int
        /\ Balance(text, i, p) = Balance(text, i, m) + Balance(text, m + 1, p)
    BY <1>2, <1>3, <1>8, BalanceSplits
  <2> QED BY <1>8, <2>1
<1>10. Balance(text, i, m) >= 1
  BY <1>3, <1>8
<1>11. Balance(text, h, p) < 0
  BY <1>5, <1>9, <1>10
<1>12. ~(p < q) /\ p # q
  <2>1. p < q => Balance(text, h, p) >= 1
    BY <1>2, <1>3, <1>4, <1>7
  <2> QED BY <1>6, <1>9, <1>11, <2>1
<1>13. q < p
  BY <1>3, <1>4, <1>12
<1> QED BY <1>13 DEF p, q

\* The pairs of a well nested text: p gives every opening tag its end.
IsPairing(text, p) ==
  /\ p \in [Openers(text) -> DOMAIN text]
  /\ \A i \in Openers(text) : p[i] = Partner(text, i) /\ i < p[i] /\ EndsItsOwn(text, i, p[i])
  /\ \A j \in Closers(text) : \E i \in Openers(text) : p[i] = j
  /\ \A i, h \in Openers(text) : i < h /\ h < p[i] => p[h] < p[i]

\* A well nested text has its pairs.
LEMMA PairsOf ==
  ASSUME NEW text, IsText(text), WellNested(text)
  PROVE  \E p : IsPairing(text, p)
<1> DEFINE p == [i \in Openers(text) |-> Partner(text, i)]
<1>1. PICK n \in Nat : DOMAIN text = 1 .. n /\ Len(text) = n
  BY DEF IsText
<1>2. ASSUME NEW i \in Openers(text)
      PROVE  Balancing(text, i) # {} /\ Partner(text, i) \in DOMAIN text /\ i < Partner(text, i)
             /\ EndsItsOwn(text, i, Partner(text, i))
  <2>1. Balancing(text, i) # {} /\ EndsItsOwn(text, i, Partner(text, i))
    BY DEF WellNested, Orderly
  <2>2. Partner(text, i) \in Balancing(text, i)
    BY <2>1, OpenUntilPartner
  <2>3. i \in 1 .. n
    BY <1>1 DEF Openers, Tags
  <2>4. Partner(text, i) \in i + 1 .. n
    BY <1>1, <2>2 DEF Balancing
  <2> QED BY <1>1, <2>1, <2>3, <2>4
<1>3. p \in [Openers(text) -> DOMAIN text]
  BY <1>2
<1>4. \A j \in Closers(text) : \E i \in Openers(text) : p[i] = j
  BY DEF WellNested, Orderly
<1>5. \A i, h \in Openers(text) : i < h /\ h < p[i] => p[h] < p[i]
  BY <1>2, PartnersNest
<1> HIDE DEF WellNested
<1>6. \A i \in Openers(text) : p[i] = Partner(text, i) /\ i < p[i] /\ EndsItsOwn(text, i, p[i])
  BY <1>2
<1> QED BY <1>3, <1>4, <1>5, <1>6, Zenon DEF IsPairing

\* No two opening tags have the same end, and of two that are open the later one ends first.
LEMMA PairsAreNested ==
  ASSUME NEW text, IsText(text), NEW p, IsPairing(text, p), NEW i \in Openers(text), NEW h \in Openers(text)
  PROVE  /\ i \in Nat /\ p[i] \in Nat /\ i < p[i] /\ p[i] \in DOMAIN text /\ p[i] \notin Openers(text)
         /\ p[i] = p[h] => i = h
         /\ i < h /\ h < p[i] => p[h] < p[i]
         /\ ClosedKind(text[p[i]]) = text[i].kind /\ text[i].kind \in ScopeKinds
<1>1. PICK n \in Nat : DOMAIN text = 1 .. n /\ Len(text) = n
  BY DEF IsText
<1>2. /\ p[i] \in DOMAIN text /\ p[h] \in DOMAIN text /\ i < p[i] /\ h < p[h]
      /\ i < h /\ h < p[i] => p[h] < p[i]
      /\ h < i /\ i < p[h] => p[i] < p[h]
  BY DEF IsPairing
<1>3. i \in 1 .. n /\ h \in 1 .. n /\ text[i].kind \in ScopeKinds
  BY <1>1 DEF Openers, Tags
<1>4. ClosedKind(text[p[i]]) = text[i].kind
  BY DEF IsPairing, EndsItsOwn
<1>5. p[i] \notin Openers(text)
  <2> SUFFICES ASSUME p[i] \in Openers(text) PROVE FALSE
    OBVIOUS
  <2>1. text[p[i]].kind \in ScopeKinds
    BY DEF Openers, Tags
  <2>2. ClosedKind(text[p[i]]) = None /\ text[i].kind # None
    BY <1>3, <2>1, OpenersAreNoClosers
  <2> QED BY <1>4, <2>2
<1>6. p[i] \in 1 .. n /\ p[h] \in 1 .. n
  BY <1>1, <1>2
<1> QED BY <1>1, <1>2, <1>3, <1>4, <1>5, <1>6

(***************************************************************************)
(* The stack of open scopes.  A named endblock pops nothing, so blocks are *)
(* exact on the stack only where there is none; where there is one, an     *)
(* open block is covered by a block on the stack, its own or a later one   *)
(* that is stale, with no other open scope in between.                     *)
(***************************************************************************)
ExactKinds(text) == IF Tags(text, {"named_endblock"}) = {} THEN ScopeKinds ELSE ScopeKinds \ {"block"}
IsExact(text, i) == text[i].kind \in ExactKinds(text)
OpenTags(text, p, j) == {i \in Openers(text) : i <= j /\ j < p[i]}

\* at[k] is the tag of the k-th entry.  After tag j the entries are in order, and of the exact kinds
\* those that are open.
OnStack(text, p, j, m, at) ==
  /\ m \in Nat /\ at \in [1 .. m -> Openers(text)]
  /\ \A k \in 1 .. m : at[k] <= j
  /\ \A k, l \in 1 .. m : k < l => at[k] < at[l]
  /\ \A i \in OpenTags(text, p, j) : IsExact(text, i) => \E k \in 1 .. m : at[k] = i
  /\ \A k \in 1 .. m : IsExact(text, at[k]) => at[k] \in OpenTags(text, p, j)

\* h gives every open block that is not exact a place on the stack.
Covering(text, p, j, m, at, h) ==
  /\ \A i \in OpenTags(text, p, j) :
       ~IsExact(text, i) =>
         /\ h[i] \in 1 .. m /\ ~IsExact(text, at[h[i]]) /\ i <= at[h[i]]
         /\ \A f \in OpenTags(text, p, j) : IsExact(text, f) => ~(i < f /\ f < at[h[i]])
  /\ \A i, g \in OpenTags(text, p, j) :
       ~IsExact(text, i) /\ ~IsExact(text, g) /\ h[i] = h[g] => i = g

\* What is open after an opening tag is that tag and what was.
LEMMA OpenAfterOpen ==
  ASSUME NEW text, IsText(text), NEW p, IsPairing(text, p), NEW j \in Nat, NEW t \in Openers(text), t = j + 1
  PROVE  OpenTags(text, p, t) = OpenTags(text, p, j) \cup {t}
<1>1. \A i \in Openers(text) : i \in Nat /\ p[i] \in Nat /\ i < p[i] /\ p[i] \notin Openers(text)
  BY PairsAreNested
<1>2. \A i \in Openers(text) : p[i] # t
  BY <1>1
<1>3. \A i \in Openers(text) : i <= t /\ t < p[i] <=> (i <= j /\ j < p[i]) \/ i = t
  BY <1>1, <1>2
<1> QED BY <1>3 DEF OpenTags

\* Only its own opening tag is closed by an end tag, and it was the last that was open.
LEMMA OpenAfterClose ==
  ASSUME NEW text, IsText(text), NEW p, IsPairing(text, p), NEW j \in Nat, NEW i \in Openers(text), p[i] = j + 1
  PROVE  /\ OpenTags(text, p, j + 1) = OpenTags(text, p, j) \ {i}
         /\ i \in OpenTags(text, p, j) /\ \A g \in OpenTags(text, p, j) : g <= i
<1>1. \A g \in Openers(text) :
        /\ g \in Nat /\ p[g] \in Nat /\ g < p[g] /\ p[g] \notin Openers(text) /\ (p[g] = p[i] => g = i)
        /\ i < g /\ g < p[i] => p[g] < p[i]
  BY PairsAreNested
<1>2. \A g \in Openers(text) : g # j + 1
  BY <1>1
<1>3. i \in OpenTags(text, p, j)
  BY <1>1 DEF OpenTags
<1>4. ASSUME NEW g \in OpenTags(text, p, j) PROVE g <= i
  <2>1. g \in Openers(text) /\ g <= j /\ j < p[g]
    BY DEF OpenTags
  <2>2. ~(i < g)
    <3>1. i < g => p[g] < p[i]
      BY <1>1, <2>1
    <3> QED BY <1>1, <2>1, <3>1
  <2> QED BY <1>1, <2>1, <2>2
<1>5. \A g \in Openers(text) : g <= j + 1 /\ j + 1 < p[g] <=> (g <= j /\ j < p[g]) /\ g # i
  <2> TAKE g \in Openers(text)
  <2>1. g # j + 1 /\ (p[g] = j + 1 <=> g = i)
    BY <1>1, <1>2
  <2> QED BY <1>1, <2>1
<1>6. OpenTags(text, p, j + 1) = OpenTags(text, p, j) \ {i}
  BY <1>5 DEF OpenTags
<1> QED BY <1>3, <1>4, <1>6

\* A tag that is the end of nothing leaves open what is open.
LEMMA OpenAfterOther ==
  ASSUME NEW text, IsText(text), NEW p, IsPairing(text, p), NEW j \in Nat, j + 1 \notin Openers(text),
         j + 1 \notin Closers(text)
  PROVE  OpenTags(text, p, j + 1) = OpenTags(text, p, j)
<1>1. \A g \in Openers(text) : g \in Nat /\ p[g] \in Nat /\ g # j + 1
  BY PairsAreNested
<1>2. \A g \in Openers(text) : p[g] # j + 1
  <2> TAKE g \in Openers(text)
  <2>1. ClosedKind(text[p[g]]) = text[g].kind /\ text[g].kind \in ScopeKinds /\ p[g] \in DOMAIN text
    BY PairsAreNested
  <2>2. text[g].kind # None
    BY <2>1 DEF ScopeKinds, None
  <2> QED BY <2>1, <2>2 DEF Closers
<1>3. \A g \in Openers(text) : g <= j + 1 /\ j + 1 < p[g] <=> g <= j /\ j < p[g]
  BY <1>1, <1>2
<1> QED BY <1>3 DEF OpenTags

\* An opening tag is pushed.
LEMMA OpenOnStack ==
  ASSUME NEW text, IsText(text), NEW p, IsPairing(text, p), NEW j \in Nat, NEW t \in Openers(text), t = j + 1,
         NEW m, NEW at, OnStack(text, p, j, m, at), NEW more, more = [k \in 1 .. m + 1 |-> IF k = m + 1 THEN t ELSE at[k]]
  PROVE  OnStack(text, p, t, m + 1, more)
<1>1. /\ m \in Nat /\ at \in [1 .. m -> Openers(text)]
      /\ \A k \in 1 .. m : at[k] <= j
      /\ \A k, l \in 1 .. m : k < l => at[k] < at[l]
      /\ \A i \in OpenTags(text, p, j) : IsExact(text, i) => \E k \in 1 .. m : at[k] = i
      /\ \A k \in 1 .. m : IsExact(text, at[k]) => at[k] \in OpenTags(text, p, j)
  BY DEF OnStack
<1>2. \A i \in Openers(text) : i \in Nat
  BY PairsAreNested
<1>3. OpenTags(text, p, t) = OpenTags(text, p, j) \cup {t}
  BY OpenAfterOpen
<1>4. \A k \in 1 .. m : k \in 1 .. m + 1 /\ more[k] = at[k] /\ at[k] \in Nat /\ at[k] <= j
  <2> TAKE k \in 1 .. m
  <2>1. k \in 1 .. m + 1 /\ k # m + 1
    BY <1>1
  <2>2. at[k] \in Openers(text) /\ at[k] <= j
    BY <1>1
  <2> QED BY <1>2, <2>1, <2>2
<1>5. m + 1 \in 1 .. m + 1 /\ more[m + 1] = t /\ \A k \in 1 .. m + 1 : k = m + 1 \/ k \in 1 .. m
  BY <1>1
<1>6. m + 1 \in Nat /\ more \in [1 .. m + 1 -> Openers(text)]
  BY <1>1
<1>7. \A k \in 1 .. m + 1 : more[k] <= t
  <2> TAKE k \in 1 .. m + 1
  <2>1. CASE k = m + 1
    BY <1>5, <2>1
  <2>2. CASE k \in 1 .. m
    <3>1. more[k] = at[k] /\ at[k] \in Nat /\ at[k] <= j
      BY <1>4, <2>2
    <3> QED BY <3>1
  <2> QED BY <1>5, <2>1, <2>2
<1>8. \A k, l \in 1 .. m + 1 : k < l => more[k] < more[l]
  <2> TAKE k, l \in 1 .. m + 1
  <2> HAVE k < l
  <2>0. k \in 1 .. m
    BY <1>1
  <2>1. more[k] = at[k] /\ at[k] \in Nat /\ at[k] <= j
    BY <1>4, <2>0
  <2>2. CASE l = m + 1
    BY <1>5, <2>1, <2>2
  <2>3. CASE l \in 1 .. m
    <3>1. more[l] = at[l] /\ at[k] < at[l]
      BY <1>1, <1>4, <2>0, <2>3
    <3> QED BY <2>1, <3>1
  <2> QED BY <1>5, <2>2, <2>3
<1>9. \A i \in OpenTags(text, p, t) : IsExact(text, i) => \E k \in 1 .. m + 1 : more[k] = i
  BY <1>1, <1>3, <1>4, <1>5
<1>10. \A k \in 1 .. m + 1 : IsExact(text, more[k]) => more[k] \in OpenTags(text, p, t)
  BY <1>1, <1>3, <1>4, <1>5
<1> QED BY <1>6, <1>7, <1>8, <1>9, <1>10 DEF OnStack

\* A pushed tag covers itself.
LEMMA OpenIsCovered ==
  ASSUME NEW text, IsText(text), NEW p, IsPairing(text, p), NEW j \in Nat, NEW t \in Openers(text), t = j + 1,
         NEW m, NEW at, OnStack(text, p, j, m, at), NEW more, more = [k \in 1 .. m + 1 |-> IF k = m + 1 THEN t ELSE at[k]],
         \E h : Covering(text, p, j, m, at, h)
  PROVE  \E h : Covering(text, p, t, m + 1, more, h)
<1> PICK h : Covering(text, p, j, m, at, h)
  OBVIOUS
<1> DEFINE O == OpenTags(text, p, j)
           g == [i \in O \cup {t} |-> IF i = t THEN m + 1 ELSE h[i]]
<1>1. /\ m \in Nat /\ at \in [1 .. m -> Openers(text)] /\ \A k \in 1 .. m : at[k] <= j
  BY DEF OnStack
<1>2. \A i \in Openers(text) : i \in Nat
  BY PairsAreNested
<1>3. OpenTags(text, p, t) = O \cup {t}
  BY OpenAfterOpen
<1>4. \A i \in O : i \in Openers(text) /\ i <= j /\ i \in Nat /\ i # t
  BY <1>2 DEF OpenTags
<1>5. \A k \in 1 .. m : k \in 1 .. m + 1 /\ k # m + 1 /\ more[k] = at[k] /\ at[k] \in Nat /\ at[k] <= j
  <2> TAKE k \in 1 .. m
  <2>1. k \in 1 .. m + 1 /\ k # m + 1
    BY <1>1
  <2>2. at[k] \in Openers(text) /\ at[k] <= j
    BY <1>1
  <2> QED BY <1>2, <2>1, <2>2
<1>6. m + 1 \in 1 .. m + 1 /\ more[m + 1] = t
  BY <1>1
<1>7. ASSUME NEW i \in O, ~IsExact(text, i)
      PROVE  /\ h[i] \in 1 .. m /\ ~IsExact(text, at[h[i]]) /\ i <= at[h[i]]
             /\ \A f \in O : IsExact(text, f) => ~(i < f /\ f < at[h[i]])
  BY <1>7 DEF Covering
<1>8. ASSUME NEW i \in O \cup {t}, ~IsExact(text, i)
      PROVE  /\ g[i] \in 1 .. m + 1 /\ ~IsExact(text, more[g[i]]) /\ i <= more[g[i]]
             /\ \A f \in O \cup {t} : IsExact(text, f) => ~(i < f /\ f < more[g[i]])
  <2>1. CASE i = t
    <3>1. g[i] = m + 1 /\ more[g[i]] = t /\ t \in Nat
      BY <1>2, <1>6, <2>1
    <3>2. \A f \in O \cup {t} : f \in Nat /\ ~(t < f /\ f < t)
      BY <1>2, <1>4
    <3> QED BY <1>6, <1>8, <2>1, <3>1, <3>2
  <2>2. CASE i # t
    <3>1. i \in O /\ g[i] = h[i] /\ h[i] \in 1 .. m
      BY <1>7, <1>8, <2>2
    <3>2. more[g[i]] = at[h[i]] /\ g[i] \in 1 .. m + 1
      BY <1>5, <3>1
    <3>3. ~(i < t /\ t < at[h[i]])
      BY <1>2, <1>5, <3>1
    <3> QED BY <1>7, <1>8, <3>1, <3>2, <3>3
  <2> QED BY <2>1, <2>2
<1>9. ASSUME NEW i \in O \cup {t}, NEW q \in O \cup {t}, ~IsExact(text, i), ~IsExact(text, q), g[i] = g[q]
      PROVE  i = q
  <2>1. \A x \in O : x # t /\ g[x] = h[x]
    BY <1>4
  <2>2. g[t] = m + 1
    OBVIOUS
  <2>3. \A x \in O : ~IsExact(text, x) => h[x] \in 1 .. m /\ h[x] # m + 1
    BY <1>5, <1>7
  <2>4. \A x, y \in O : ~IsExact(text, x) /\ ~IsExact(text, y) /\ h[x] = h[y] => x = y
    BY DEF Covering
  <2> HIDE DEF g, O
  <2> QED BY <1>9, <2>1, <2>2, <2>3, <2>4
<1> HIDE DEF g, O
<1>10. Covering(text, p, t, m + 1, more, g)
  BY <1>3, <1>8, <1>9 DEF Covering
<1> QED BY <1>10

\* The entries below one that is removed.
Below(at, k) == [l \in 1 .. k - 1 |-> at[l]]

\* What is below a place on the stack is in order.
LEMMA BelowOnStack ==
  ASSUME NEW text, IsText(text), NEW p, IsPairing(text, p), NEW j \in Nat, NEW m, NEW at, OnStack(text, p, j, m, at),
         NEW k \in 1 .. m
  PROVE  /\ k - 1 \in Nat /\ Below(at, k) \in [1 .. k - 1 -> Openers(text)]
         /\ \A l \in 1 .. k - 1 : l \in 1 .. m /\ l < k /\ Below(at, k)[l] = at[l] /\ at[l] <= j + 1
         /\ \A l, q \in 1 .. k - 1 : l < q => Below(at, k)[l] < Below(at, k)[q]
<1>1. /\ m \in Nat /\ at \in [1 .. m -> Openers(text)] /\ \A l \in 1 .. m : at[l] <= j
      /\ \A l, q \in 1 .. m : l < q => at[l] < at[q]
  BY DEF OnStack
<1>2. \A i \in Openers(text) : i \in Nat
  BY PairsAreNested
<1>3. k - 1 \in Nat /\ \A l \in 1 .. k - 1 : l \in 1 .. m /\ l < k
  BY <1>1
<1>4. \A l \in 1 .. k - 1 : Below(at, k)[l] = at[l] /\ at[l] \in Openers(text)
  BY <1>1, <1>3 DEF Below
<1>5. Below(at, k) \in [1 .. k - 1 -> Openers(text)]
  BY <1>1, <1>3 DEF Below
<1>6. \A l \in 1 .. m : at[l] <= j + 1
  <2> TAKE l \in 1 .. m
  <2>1. at[l] \in Nat /\ at[l] <= j
    BY <1>1, <1>2
  <2> QED BY <2>1
<1> QED BY <1>1, <1>3, <1>4, <1>5, <1>6

\* The end tag of an exact scope finds its own entry on the stack, the last of its kind.
LEMMA ExactIsLast ==
  ASSUME NEW text, IsText(text), NEW p, IsPairing(text, p), NEW j \in Nat, NEW m, NEW at, OnStack(text, p, j, m, at),
         NEW i \in Openers(text), p[i] = j + 1, IsExact(text, i)
  PROVE  \E k \in 1 .. m : at[k] = i /\ \A l \in 1 .. m : text[at[l]].kind = text[i].kind => l <= k
<1>1. /\ m \in Nat /\ at \in [1 .. m -> Openers(text)] /\ \A l, q \in 1 .. m : l < q => at[l] < at[q]
      /\ \A g \in OpenTags(text, p, j) : IsExact(text, g) => \E k \in 1 .. m : at[k] = g
      /\ \A k \in 1 .. m : IsExact(text, at[k]) => at[k] \in OpenTags(text, p, j)
  BY DEF OnStack
<1>2. i \in OpenTags(text, p, j) /\ \A g \in OpenTags(text, p, j) : g <= i
  BY OpenAfterClose
<1>3. PICK k \in 1 .. m : at[k] = i
  BY <1>1, <1>2
<1>4. \A g \in Openers(text) : g \in Nat
  BY PairsAreNested
<1>5. ASSUME NEW l \in 1 .. m, text[at[l]].kind = text[i].kind PROVE l <= k
  <2>1. IsExact(text, at[l])
    BY <1>5 DEF IsExact
  <2>2. at[l] <= i /\ at[l] \in Nat /\ i \in Nat
    BY <1>1, <1>2, <1>4, <2>1
  <2>3. ~(k < l)
    BY <1>1, <1>3, <2>2
  <2> QED BY <1>1, <2>3
<1> QED BY <1>3, <1>5

\* The stack after an exact scope is closed: what was below it.
LEMMA CloseExact ==
  ASSUME NEW text, IsText(text), NEW p, IsPairing(text, p), NEW j \in Nat, NEW m, NEW at, OnStack(text, p, j, m, at),
         \E h : Covering(text, p, j, m, at, h),
         NEW k \in 1 .. m, p[at[k]] = j + 1, IsExact(text, at[k])
  PROVE  /\ OnStack(text, p, j + 1, k - 1, Below(at, k))
         /\ \E h : Covering(text, p, j + 1, k - 1, Below(at, k), h)
<1> DEFINE O == OpenTags(text, p, j)
           low == Below(at, k)
<1>1. /\ m \in Nat /\ at \in [1 .. m -> Openers(text)] /\ \A l, q \in 1 .. m : l < q => at[l] < at[q]
      /\ \A g \in O : IsExact(text, g) => \E l \in 1 .. m : at[l] = g
      /\ \A l \in 1 .. m : IsExact(text, at[l]) => at[l] \in O
  BY DEF OnStack
<1>2. PICK i \in Openers(text) : i = at[k]
  BY <1>1
<1>3. OpenTags(text, p, j + 1) = O \ {i} /\ i \in O /\ \A g \in O : g <= i
  BY <1>2, OpenAfterClose
<1>4. \A g \in Openers(text) : g \in Nat
  BY PairsAreNested
<1>5. /\ k - 1 \in Nat /\ low \in [1 .. k - 1 -> Openers(text)]
      /\ \A l \in 1 .. k - 1 : l \in 1 .. m /\ l < k /\ low[l] = at[l] /\ at[l] <= j + 1
      /\ \A l, q \in 1 .. k - 1 : l < q => low[l] < low[q]
  BY BelowOnStack
<1>6. \A l \in 1 .. m : at[l] < i => l \in 1 .. k - 1
  <2> TAKE l \in 1 .. m
  <2> HAVE at[l] < i
  <2>1. at[l] \in Nat /\ i \in Nat
    BY <1>1, <1>4
  <2>2. l # k /\ ~(k < l)
    BY <1>1, <1>2, <2>1
  <2> QED BY <1>1, <2>2
<1>7. \A g \in O : g \in Nat /\ g \in Openers(text) /\ (g # i => g < i)
  <2> TAKE g \in O
  <2>1. g \in Openers(text)
    BY DEF OpenTags
  <2> QED BY <1>3, <1>4, <2>1
<1>8. \A l \in 1 .. k - 1 : at[l] # i
  <2> TAKE l \in 1 .. k - 1
  <2>1. l \in 1 .. m /\ l < k
    BY <1>5
  <2>2. at[l] < i /\ at[l] \in Nat /\ i \in Nat
    BY <1>1, <1>2, <1>4, <2>1
  <2> QED BY <2>2
<1>9. OnStack(text, p, j + 1, k - 1, low)
  <2>1. \A g \in O \ {i} : IsExact(text, g) => \E l \in 1 .. k - 1 : low[l] = g
    BY <1>1, <1>5, <1>6, <1>7
  <2>2. \A l \in 1 .. k - 1 : IsExact(text, low[l]) => low[l] \in O \ {i}
    BY <1>1, <1>5, <1>8
  <2>3. \A l \in 1 .. k - 1 : low[l] <= j + 1
    BY <1>5
  <2> HIDE DEF O, low
  <2> QED BY <1>3, <1>5, <2>1, <2>2, <2>3 DEF OnStack
<1>10. PICK h : Covering(text, p, j, m, at, h)
  OBVIOUS
<1>11. ASSUME NEW g \in O \ {i}, ~IsExact(text, g)
       PROVE  /\ h[g] \in 1 .. k - 1 /\ ~IsExact(text, low[h[g]]) /\ g <= low[h[g]]
              /\ \A f \in O \ {i} : IsExact(text, f) => ~(g < f /\ f < low[h[g]])
  <2>1. /\ h[g] \in 1 .. m /\ ~IsExact(text, at[h[g]]) /\ g <= at[h[g]]
        /\ \A f \in O : IsExact(text, f) => ~(g < f /\ f < at[h[g]])
    BY <1>10, <1>11 DEF Covering
  <2>2. ~(g < i /\ i < at[h[g]]) /\ at[h[g]] # i /\ g < i
    BY <1>2, <1>3, <1>7, <1>11, <2>1
  <2>3. at[h[g]] < i
    <3>1. at[h[g]] \in Nat /\ i \in Nat
      BY <1>1, <1>4, <2>1
    <3> QED BY <2>2, <3>1
  <2>4. h[g] \in 1 .. k - 1
    BY <1>6, <2>1, <2>3
  <2>5. low[h[g]] = at[h[g]]
    BY <1>5, <2>4
  <2> QED BY <2>1, <2>4, <2>5
<1>12. Covering(text, p, j + 1, k - 1, low, h)
  <2>1. \A x, y \in O \ {i} : ~IsExact(text, x) /\ ~IsExact(text, y) /\ h[x] = h[y] => x = y
    BY <1>10 DEF Covering
  <2> HIDE DEF O, low
  <2> QED BY <1>3, <1>11, <2>1 DEF Covering
<1> HIDE DEF low
<1> QED BY <1>9, <1>12 DEF low

\* Of two entries on the stack the later tag is the higher one.
LEMMA HigherIsLater ==
  ASSUME NEW text, IsText(text), NEW p, IsPairing(text, p), NEW j, NEW m, NEW at, OnStack(text, p, j, m, at),
         NEW k \in 1 .. m, NEW l \in 1 .. m
  PROVE  /\ at[k] \in Nat /\ at[l] \in Nat /\ m \in Nat
         /\ k < l <=> at[k] < at[l]
<1>1. /\ m \in Nat /\ at \in [1 .. m -> Openers(text)] /\ \A a, b \in 1 .. m : a < b => at[a] < at[b]
  BY DEF OnStack
<1>2. \A i \in Openers(text) : i \in Nat
  BY PairsAreNested
<1>3. at[k] \in Nat /\ at[l] \in Nat
  BY <1>1, <1>2
<1>4. k < l => at[k] < at[l]
  BY <1>1
<1>5. l < k => at[l] < at[k]
  BY <1>1
<1>6. k \in Int /\ l \in Int
  BY <1>1
<1>7. k = l => at[k] = at[l]
  OBVIOUS
<1> QED BY <1>1, <1>3, <1>4, <1>5, <1>6, <1>7

\* Where only a block that is not exact is closed without being removed, the stack still stands.
LEMMA LooseStays ==
  ASSUME NEW text, IsText(text), NEW p, IsPairing(text, p), NEW j \in Nat, NEW m, NEW at, OnStack(text, p, j, m, at),
         \E h : Covering(text, p, j, m, at, h),
         NEW D, \A i \in D : ~IsExact(text, i), OpenTags(text, p, j + 1) = OpenTags(text, p, j) \ D
  PROVE  OnStack(text, p, j + 1, m, at) /\ \E h : Covering(text, p, j + 1, m, at, h)
<1> DEFINE O == OpenTags(text, p, j)
<1>1. /\ m \in Nat /\ at \in [1 .. m -> Openers(text)]
      /\ \A k \in 1 .. m : at[k] <= j
      /\ \A k, l \in 1 .. m : k < l => at[k] < at[l]
      /\ \A i \in O : IsExact(text, i) => \E k \in 1 .. m : at[k] = i
      /\ \A k \in 1 .. m : IsExact(text, at[k]) => at[k] \in O
  BY DEF OnStack
<1>2. \A k \in 1 .. m : at[k] <= j + 1
  <2> TAKE k \in 1 .. m
  <2>1. at[k] \in Nat /\ at[k] <= j
    BY <1>1, HigherIsLater
  <2> QED BY <2>1
<1>3. OpenTags(text, p, j + 1) = O \ D
  OBVIOUS
<1> HIDE DEF O
<1>4. OnStack(text, p, j + 1, m, at)
  BY <1>1, <1>2, <1>3 DEF OnStack
<1>5. PICK h : Covering(text, p, j, m, at, h)
  OBVIOUS
<1>6. /\ \A i \in O :
           ~IsExact(text, i) =>
             /\ h[i] \in 1 .. m /\ ~IsExact(text, at[h[i]]) /\ i <= at[h[i]]
             /\ \A f \in O : IsExact(text, f) => ~(i < f /\ f < at[h[i]])
      /\ \A i, g \in O : ~IsExact(text, i) /\ ~IsExact(text, g) /\ h[i] = h[g] => i = g
  BY <1>5 DEF Covering, O
<1>7. Covering(text, p, j + 1, m, at, h)
  BY <1>3, <1>6 DEF Covering
<1> QED BY <1>4, <1>7

\* An unnamed endblock removes the last entry, and what that covered is covered by what covered the
\* block that is closed.
LEMMA CloseLoose ==
  ASSUME NEW text, IsText(text), NEW p, IsPairing(text, p), NEW j \in Nat, NEW m, NEW at, OnStack(text, p, j, m, at),
         \E h : Covering(text, p, j, m, at, h),
         NEW i \in Openers(text), p[i] = j + 1, ~IsExact(text, i)
  PROVE  /\ m \in 1 .. m /\ ~IsExact(text, at[m])
         /\ OnStack(text, p, j + 1, m - 1, Below(at, m))
         /\ \E h : Covering(text, p, j + 1, m - 1, Below(at, m), h)
<1> DEFINE O == OpenTags(text, p, j)
           low == Below(at, m)
<1>1. /\ m \in Nat /\ at \in [1 .. m -> Openers(text)]
      /\ \A g \in O : IsExact(text, g) => \E l \in 1 .. m : at[l] = g
      /\ \A l \in 1 .. m : IsExact(text, at[l]) => at[l] \in O
  BY DEF OnStack
<1>2. OpenTags(text, p, j + 1) = O \ {i} /\ i \in O /\ \A g \in O : g <= i
  BY OpenAfterClose
<1>3. PICK h : Covering(text, p, j, m, at, h)
  OBVIOUS
<1>4. ASSUME NEW g \in O, ~IsExact(text, g)
      PROVE  /\ h[g] \in 1 .. m /\ ~IsExact(text, at[h[g]]) /\ g <= at[h[g]]
             /\ \A f \in O : IsExact(text, f) => ~(g < f /\ f < at[h[g]])
  BY <1>3, <1>4 DEF Covering
<1>5. \A x, y \in O : ~IsExact(text, x) /\ ~IsExact(text, y) /\ h[x] = h[y] => x = y
  BY <1>3 DEF Covering
<1>6. m \in 1 .. m /\ h[i] \in 1 .. m /\ i <= at[h[i]]
  <2>1. h[i] \in 1 .. m /\ i <= at[h[i]]
    BY <1>2, <1>4
  <2> QED BY <1>1, <2>1
<1>7. \A k, l \in 1 .. m : at[k] \in Nat /\ at[l] \in Nat /\ (k < l <=> at[k] < at[l])
  BY HigherIsLater
<1>8. i \in Nat
  BY PairsAreNested
<1>9. ~IsExact(text, at[m])
  <2> SUFFICES ASSUME IsExact(text, at[m]) PROVE FALSE
    OBVIOUS
  <2>1. at[m] <= i
    BY <1>1, <1>2, <1>6
  <2>2. ~(at[h[i]] < at[m])
    BY <1>6, <1>7, <1>8, <2>1
  <2>3. h[i] # m
    BY <1>2, <1>4
  <2>4. h[i] < m
    BY <1>1, <1>6, <2>3
  <2> QED BY <1>6, <1>7, <2>2, <2>4
<1>10. /\ m - 1 \in Nat /\ low \in [1 .. m - 1 -> Openers(text)]
       /\ \A l \in 1 .. m - 1 : l \in 1 .. m /\ l < m /\ low[l] = at[l] /\ at[l] <= j + 1
       /\ \A l, q \in 1 .. m - 1 : l < q => low[l] < low[q]
  BY <1>6, BelowOnStack
<1>11. \A l \in 1 .. m : l # m => l \in 1 .. m - 1
  BY <1>1
<1>12. OnStack(text, p, j + 1, m - 1, low)
  <2>1. \A g \in O \ {i} : IsExact(text, g) => \E l \in 1 .. m - 1 : low[l] = g
    <3> TAKE g \in O \ {i}
    <3> HAVE IsExact(text, g)
    <3>1. PICK l \in 1 .. m : at[l] = g
      BY <1>1
    <3>2. l # m
      BY <1>9, <3>1
    <3>3. l \in 1 .. m - 1 /\ low[l] = at[l]
      BY <1>10, <1>11, <3>2
    <3> QED BY <3>1, <3>3
  <2>2. \A l \in 1 .. m - 1 : IsExact(text, low[l]) => low[l] \in O \ {i}
    BY <1>1, <1>10
  <2>3. \A l \in 1 .. m - 1 : low[l] <= j + 1
    BY <1>10
  <2> HIDE DEF O, low
  <2> QED BY <1>2, <1>10, <2>1, <2>2, <2>3 DEF OnStack
<1> DEFINE R == O \ {i}
           g == [x \in R |-> IF h[x] = m THEN h[i] ELSE h[x]]
<1>13. ASSUME NEW x \in R, ~IsExact(text, x)
       PROVE  /\ g[x] \in 1 .. m - 1 /\ ~IsExact(text, low[g[x]]) /\ x <= low[g[x]]
              /\ \A f \in R : IsExact(text, f) => ~(x < f /\ f < low[g[x]])
  <2>0. x \in O /\ x # i /\ \A f \in R : f \in O /\ f \in Nat
    <3>1. \A f \in O : f \in Openers(text)
      BY DEF OpenTags
    <3> QED BY <3>1, PairsAreNested
  <2>1. /\ h[x] \in 1 .. m /\ ~IsExact(text, at[h[x]]) /\ x <= at[h[x]]
        /\ \A f \in O : IsExact(text, f) => ~(x < f /\ f < at[h[x]])
    BY <1>4, <1>13, <2>0
  <2>2. CASE h[x] = m
    <3>1. g[x] = h[i] /\ h[i] # m
      BY <1>2, <1>5, <1>13, <2>0, <2>2
    <3>2. h[i] \in 1 .. m - 1 /\ low[h[i]] = at[h[i]] /\ h[i] < m
      BY <1>6, <1>10, <1>11, <3>1
    <3>3. ~IsExact(text, at[h[i]])
      BY <1>2, <1>4
    <3>4. at[h[i]] < at[m] /\ at[h[i]] \in Nat /\ at[m] \in Nat
      BY <1>6, <1>7, <3>2
    <3>5. x <= at[h[i]]
      BY <1>2, <1>6, <1>8, <2>0, <3>4
    <3>6. \A f \in R : IsExact(text, f) => ~(x < f /\ f < at[h[i]])
      <4> TAKE f \in R
      <4> HAVE IsExact(text, f)
      <4>1. ~(x < f /\ f < at[m]) /\ f \in Nat
        BY <2>0, <2>1, <2>2
      <4> QED BY <3>4, <4>1
    <3> HIDE DEF g, low, R
    <3> QED BY <3>1, <3>2, <3>3, <3>5, <3>6
  <2>3. CASE h[x] # m
    <3>1. g[x] = h[x] /\ h[x] \in 1 .. m - 1 /\ low[h[x]] = at[h[x]]
      BY <1>10, <1>11, <2>1, <2>3
    <3> HIDE DEF g, low
    <3> QED BY <2>1, <3>1
  <2> QED BY <2>2, <2>3
<1>14. ASSUME NEW x \in R, NEW y \in R, ~IsExact(text, x), ~IsExact(text, y), g[x] = g[y]
       PROVE  x = y
  <2>1. g[x] = (IF h[x] = m THEN h[i] ELSE h[x]) /\ g[y] = (IF h[y] = m THEN h[i] ELSE h[y])
    OBVIOUS
  <2>2. x \in O /\ y \in O /\ x # i /\ y # i /\ i \in O
    BY <1>2
  <2>3. (h[x] = h[y] => x = y) /\ h[x] # h[i] /\ h[y] # h[i]
    BY <1>5, <1>14, <2>2
  <2> HIDE DEF g, O, R
  <2> QED BY <1>14, <2>1, <2>3
<1> HIDE DEF g, O, low
<1>15. Covering(text, p, j + 1, m - 1, low, g)
  BY <1>2, <1>13, <1>14 DEF Covering
<1> QED BY <1>6, <1>9, <1>12, <1>15 DEF low

RegionSet == [scope : ScopeKinds, depth : Nat, span : [lo : Nat, hi : Nat]]

\* The region of what is opened by tag i and closed by tag q.
IsRegion(text, r, i, q) ==
  /\ r.scope = text[i].kind /\ r.span = Span(TagEnd(i), TagStart(q)) /\ i < q
  /\ text[q].kind \in DOMAIN Closes /\ Closes[text[q].kind] = text[i].kind

\* The regions found up to tag j: those of exact kinds are the pairs, and the deeper is the inner one.
RegionsAre(text, p, j, m, at, R) ==
  /\ R \subseteq RegionSet
  /\ \A r \in R : \E i \in Openers(text), q \in DOMAIN text :
       q <= j /\ IsRegion(text, r, i, q) /\ (IsExact(text, i) => q = p[i])
  /\ \A i \in Openers(text) : IsExact(text, i) /\ p[i] <= j => \E r \in R : r.span.lo = TagEnd(i)
  /\ \A r, s \in R : r.scope \in ExactKinds(text) /\ s.span.lo = r.span.lo => s = r
  /\ \A r, s \in R :
       /\ r.scope \in ExactKinds(text) /\ s.scope \in ExactKinds(text)
       /\ r.span.lo < s.span.lo /\ s.span.lo < r.span.hi
       => r.depth < s.depth
  /\ \A r \in R, k \in 1 .. m :
       r.scope \in ExactKinds(text) /\ IsExact(text, at[k]) /\ TagEnd(at[k]) < r.span.lo => k <= r.depth

\* The end of a tag tells which tag it is.
LEMMA TagEndsDiffer ==
  ASSUME NEW i \in Nat, NEW h \in Nat
  PROVE  /\ TagEnd(i) \in Nat /\ TagStart(i) \in Nat
         /\ TagEnd(i) = TagEnd(h) => i = h
         /\ TagEnd(i) < TagEnd(h) <=> i < h
         /\ TagEnd(i) < TagStart(h) <=> i < h
         /\ TagStart(i) < TagEnd(h) <=> i <= h
BY DEF TagEnd, TagStart, Width

\* Where the stack only loses entries or gains the tag itself, and no exact scope is closed, the regions stand.
LEMMA RegionsStay ==
  ASSUME NEW text, IsText(text), NEW p, IsPairing(text, p), NEW j \in Nat, NEW m, NEW at, OnStack(text, p, j, m, at),
         NEW R, RegionsAre(text, p, j, m, at, R),
         NEW n \in Nat, NEW new, \A k \in 1 .. n : (k \in 1 .. m /\ new[k] = at[k]) \/ new[k] = j + 1,
         \A i \in Openers(text) : IsExact(text, i) => p[i] # j + 1
  PROVE  RegionsAre(text, p, j + 1, n, new, R)
<1>1. /\ R \subseteq RegionSet
      /\ \A r \in R : \E i \in Openers(text), q \in DOMAIN text :
           q <= j /\ IsRegion(text, r, i, q) /\ (IsExact(text, i) => q = p[i])
      /\ \A i \in Openers(text) : IsExact(text, i) /\ p[i] <= j => \E r \in R : r.span.lo = TagEnd(i)
      /\ \A r, s \in R : r.scope \in ExactKinds(text) /\ s.span.lo = r.span.lo => s = r
      /\ \A r, s \in R :
           /\ r.scope \in ExactKinds(text) /\ s.scope \in ExactKinds(text)
           /\ r.span.lo < s.span.lo /\ s.span.lo < r.span.hi
           => r.depth < s.depth
      /\ \A r \in R, k \in 1 .. m :
           r.scope \in ExactKinds(text) /\ IsExact(text, at[k]) /\ TagEnd(at[k]) < r.span.lo => k <= r.depth
  BY DEF RegionsAre
<1>2. PICK len \in Nat : DOMAIN text = 1 .. len
  BY DEF IsText
<1>3. \A i \in Openers(text) : i \in Nat /\ p[i] \in Nat
  BY PairsAreNested
<1>4. \A r \in R : \E i \in Openers(text), q \in DOMAIN text :
        q <= j + 1 /\ IsRegion(text, r, i, q) /\ (IsExact(text, i) => q = p[i])
  <2> TAKE r \in R
  <2>1. PICK i \in Openers(text), q \in DOMAIN text :
           q <= j /\ IsRegion(text, r, i, q) /\ (IsExact(text, i) => q = p[i])
    BY <1>1
  <2>2. q <= j + 1
    BY <1>2, <2>1
  <2> QED BY <2>1, <2>2
<1>5. \A i \in Openers(text) : IsExact(text, i) /\ p[i] <= j + 1 => \E r \in R : r.span.lo = TagEnd(i)
  <2> TAKE i \in Openers(text)
  <2> HAVE IsExact(text, i) /\ p[i] <= j + 1
  <2>1. p[i] <= j
    BY <1>3
  <2> QED BY <1>1, <2>1
<1>6. \A r \in R, k \in 1 .. n :
        r.scope \in ExactKinds(text) /\ IsExact(text, new[k]) /\ TagEnd(new[k]) < r.span.lo => k <= r.depth
  <2> TAKE r \in R, k \in 1 .. n
  <2> HAVE r.scope \in ExactKinds(text) /\ IsExact(text, new[k]) /\ TagEnd(new[k]) < r.span.lo
  <2>1. CASE k \in 1 .. m /\ new[k] = at[k]
    BY <1>1, <2>1
  <2>2. CASE new[k] = j + 1
    <3>1. PICK i \in Openers(text), q \in DOMAIN text : q <= j /\ IsRegion(text, r, i, q)
      BY <1>1
    <3>2. r.span.lo = TagEnd(i) /\ i < q /\ q \in Nat /\ i \in Nat
      BY <1>2, <1>3, <3>1 DEF IsRegion, Span
    <3>3. TagEnd(j + 1) < TagEnd(i)
      BY <2>2, <3>2
    <3>4. j + 1 < i
      BY <3>2, <3>3, TagEndsDiffer
    <3> QED BY <3>1, <3>2, <3>4
  <2> QED BY <2>1, <2>2
<1> QED BY <1>1, <1>4, <1>5, <1>6 DEF RegionsAre

\* A region is added when the entry of its tag is removed.
LEMMA RegionsClose ==
  ASSUME NEW text, IsText(text), NEW p, IsPairing(text, p), NEW j \in Nat, NEW m, NEW at, OnStack(text, p, j, m, at),
         NEW R, RegionsAre(text, p, j, m, at, R),
         NEW k \in 1 .. m, j + 1 \in DOMAIN text,
         text[j + 1].kind \in DOMAIN Closes, Closes[text[j + 1].kind] = text[at[k]].kind,
         IsExact(text, at[k]) => p[at[k]] = j + 1,
         \A i \in Openers(text) : IsExact(text, i) /\ p[i] = j + 1 => i = at[k],
         NEW r, r = [scope |-> text[at[k]].kind, depth |-> k - 1, span |-> Span(TagEnd(at[k]), TagStart(j + 1))]
  PROVE  RegionsAre(text, p, j + 1, k - 1, Below(at, k), R \cup {r})
<1> DEFINE X == ExactKinds(text)
<1>1. /\ R \subseteq RegionSet
      /\ \A s \in R : \E i \in Openers(text), q \in DOMAIN text :
           q <= j /\ IsRegion(text, s, i, q) /\ (IsExact(text, i) => q = p[i])
      /\ \A i \in Openers(text) : IsExact(text, i) /\ p[i] <= j => \E s \in R : s.span.lo = TagEnd(i)
      /\ \A s, t \in R : s.scope \in X /\ t.span.lo = s.span.lo => t = s
      /\ \A s, t \in R :
           /\ s.scope \in X /\ t.scope \in X
           /\ s.span.lo < t.span.lo /\ t.span.lo < s.span.hi
           => s.depth < t.depth
      /\ \A s \in R, l \in 1 .. m : s.scope \in X /\ IsExact(text, at[l]) /\ TagEnd(at[l]) < s.span.lo => l <= s.depth
  BY DEF RegionsAre
<1>2. PICK len \in Nat : DOMAIN text = 1 .. len
  BY DEF IsText
<1>3. \A i \in Openers(text) : i \in Nat /\ p[i] \in Nat /\ text[i].kind \in ScopeKinds
  BY PairsAreNested
<1>4. PICK o \in Openers(text) : o = at[k]
  BY DEF OnStack
<1>5. m \in Nat /\ k \in Nat /\ o <= j
  BY <1>4 DEF OnStack
<1>6. /\ r.scope = text[o].kind /\ r.depth = k - 1 /\ r.span = Span(TagEnd(o), TagStart(j + 1))
      /\ r.span.lo = TagEnd(o) /\ r.span.hi = TagStart(j + 1)
  BY <1>4 DEF Span
<1>7. r \in RegionSet
  <2>1. TagEnd(o) \in Nat /\ TagStart(j + 1) \in Nat /\ k - 1 \in Nat /\ text[o].kind \in ScopeKinds
    BY <1>3, <1>5, TagEndsDiffer
  <2> QED BY <1>4, <2>1 DEF RegionSet, Span
<1>8. IsRegion(text, r, o, j + 1)
  <2>1. o < j + 1
    BY <1>3, <1>5
  <2> QED BY <1>4, <1>6, <2>1 DEF IsRegion
<1>9. /\ k - 1 \in Nat
      /\ \A l \in 1 .. k - 1 : l \in 1 .. m /\ l < k /\ Below(at, k)[l] = at[l]
  BY BelowOnStack
<1>10. ASSUME NEW s \in R
       PROVE  \E i \in Openers(text), q \in DOMAIN text :
                q <= j /\ IsRegion(text, s, i, q) /\ (IsExact(text, i) => q = p[i]) /\ i \in Nat /\ q \in Nat
                /\ s.span.lo = TagEnd(i) /\ s.span.hi = TagStart(q) /\ s.scope = text[i].kind
  <2>1. PICK i \in Openers(text), q \in DOMAIN text :
           q <= j /\ IsRegion(text, s, i, q) /\ (IsExact(text, i) => q = p[i])
    BY <1>1
  <2>2. s.span.lo = TagEnd(i) /\ s.span.hi = TagStart(q) /\ s.scope = text[i].kind
    BY <2>1 DEF IsRegion, Span
  <2> QED BY <1>2, <1>3, <2>1, <2>2
<1>11. ASSUME NEW s \in R, s.span.lo = r.span.lo PROVE s.scope \notin X /\ r.scope \notin X
  <2>1. PICK i \in Openers(text), q \in DOMAIN text :
          q <= j /\ (IsExact(text, i) => q = p[i]) /\ i \in Nat /\ q \in Nat /\ s.span.lo = TagEnd(i) /\ s.scope = text[i].kind
    BY <1>10
  <2>2. i = o
    BY <1>3, <1>6, <1>11, <2>1, TagEndsDiffer
  <2>3. ~IsExact(text, o)
    BY <1>4, <2>1, <2>2
  <2> QED BY <1>6, <2>1, <2>2, <2>3 DEF IsExact
<1>12. \A s \in R \cup {r} : \E i \in Openers(text), q \in DOMAIN text :
         q <= j + 1 /\ IsRegion(text, s, i, q) /\ (IsExact(text, i) => q = p[i])
  <2> TAKE s \in R \cup {r}
  <2>1. CASE s = r
    BY <1>4, <1>8, <2>1
  <2>2. CASE s \in R
    <3>1. PICK i \in Openers(text), q \in DOMAIN text :
            q <= j /\ IsRegion(text, s, i, q) /\ (IsExact(text, i) => q = p[i]) /\ q \in Nat
      BY <1>10, <2>2
    <3>2. q <= j + 1
      BY <3>1
    <3> QED BY <3>1, <3>2
  <2> QED BY <2>1, <2>2
<1>13. \A i \in Openers(text) : IsExact(text, i) /\ p[i] <= j + 1 => \E s \in R \cup {r} : s.span.lo = TagEnd(i)
  <2> TAKE i \in Openers(text)
  <2> HAVE IsExact(text, i) /\ p[i] <= j + 1
  <2>1. CASE p[i] = j + 1
    BY <1>4, <1>6, <2>1
  <2>2. CASE p[i] # j + 1
    <3>1. p[i] <= j
      BY <1>3, <2>2
    <3> QED BY <1>1, <3>1
  <2> QED BY <2>1, <2>2
<1>14. \A s, t \in R \cup {r} : s.scope \in X /\ t.span.lo = s.span.lo => t = s
  BY <1>1, <1>11
<1>15. ASSUME NEW t \in R, r.scope \in X, t.scope \in X, r.span.lo < t.span.lo, t.span.lo < r.span.hi
       PROVE  r.depth < t.depth
  <2>1. IsExact(text, at[k])
    BY <1>4, <1>6, <1>15 DEF IsExact
  <2>2. k <= t.depth
    BY <1>1, <1>4, <1>6, <1>15, <2>1
  <2>3. t.depth \in Nat
    BY <1>1 DEF RegionSet
  <2> QED BY <1>5, <1>6, <2>2, <2>3
<1>16. ASSUME NEW s \in R, r.scope \in X, s.scope \in X, s.span.lo < r.span.lo, r.span.lo < s.span.hi
       PROVE  FALSE
  <2>1. PICK i \in Openers(text), q \in DOMAIN text :
          q <= j /\ (IsExact(text, i) => q = p[i]) /\ i \in Nat /\ q \in Nat /\ s.span.lo = TagEnd(i)
          /\ s.span.hi = TagStart(q) /\ s.scope = text[i].kind
    BY <1>10
  <2>2. q = p[i] /\ p[o] = j + 1
    BY <1>4, <1>6, <1>16, <2>1 DEF IsExact
  <2>3. i < o /\ o < q
    BY <1>3, <1>6, <1>16, <2>1, TagEndsDiffer
  <2>4. p[o] < p[i]
    BY <2>2, <2>3, PairsAreNested
  <2> QED BY <2>1, <2>2, <2>4
<1>17. \A s, t \in R \cup {r} :
         s.scope \in X /\ t.scope \in X /\ s.span.lo < t.span.lo /\ t.span.lo < s.span.hi => s.depth < t.depth
  <2>1. r.span.lo \in Nat /\ ~(r.span.lo < r.span.lo)
    BY <1>7 DEF RegionSet
  <2> HIDE DEF X
  <2> QED BY <1>1, <1>15, <1>16, <2>1
<1>18. \A s \in R \cup {r}, l \in 1 .. k - 1 :
         s.scope \in X /\ IsExact(text, Below(at, k)[l]) /\ TagEnd(Below(at, k)[l]) < s.span.lo => l <= s.depth
  <2> TAKE s \in R \cup {r}, l \in 1 .. k - 1
  <2>1. l \in 1 .. m /\ l < k /\ Below(at, k)[l] = at[l]
    BY <1>9
  <2>2. s = r => l <= s.depth
    BY <1>5, <1>6, <2>1
  <2> QED BY <1>1, <2>1, <2>2
<1>19. R \cup {r} \subseteq RegionSet
  BY <1>1, <1>7
<1> QED BY <1>12, <1>13, <1>14, <1>17, <1>18, <1>19 DEF RegionsAre

EntrySet == [scope : ScopeKinds, start : Nat, depth : Nat]

\* What the pass over the tags holds after tag j.
StackIs(text, stack, m, at) ==
  /\ stack \in Seq(EntrySet) /\ Len(stack) = m
  /\ \A k \in 1 .. m : stack[k] = [scope |-> text[at[k]].kind, start |-> TagEnd(at[k]), depth |-> k - 1]
ScopesAfter(text, p, j, acc) ==
  /\ acc \in [stack : Seq(EntrySet), regions : Seq(RegionSet)]
  /\ \E m, at :
       /\ StackIs(text, acc.stack, m, at) /\ OnStack(text, p, j, m, at) /\ \E h : Covering(text, p, j, m, at, h)
       /\ RegionsAre(text, p, j, m, at, Elements(acc.regions))

\* The beginning of a sequence.
LEMMA BeginningOf ==
  ASSUME NEW T, NEW s \in Seq(T), NEW k \in 1 .. Len(s)
  PROVE  /\ SubSeq(s, 1, k - 1) \in Seq(T) /\ Len(SubSeq(s, 1, k - 1)) = k - 1
         /\ \A l \in 1 .. k - 1 : SubSeq(s, 1, k - 1)[l] = s[l]
<1>1. Len(s) \in Nat /\ k - 1 \in Nat /\ k - 1 <= Len(s)
  OBVIOUS
<1>2. PICK n \in Nat : n = k - 1
  BY <1>1
<1>3. SubSeq(s, 1, n) \in Seq(T) /\ Len(SubSeq(s, 1, n)) = n
  BY <1>1, <1>2
<1>4. \A l \in 1 .. n : SubSeq(s, 1, n)[l] = s[l]
  BY <1>1, <1>2
<1> QED BY <1>2, <1>3, <1>4

\* What is appended is the last element.
LEMMA Appended ==
  ASSUME NEW T, NEW s \in Seq(T), NEW e \in T
  PROVE  /\ Append(s, e) \in Seq(T) /\ Len(Append(s, e)) = Len(s) + 1 /\ Len(s) \in Nat
         /\ \A l \in 1 .. Len(s) : Append(s, e)[l] = s[l]
         /\ Append(s, e)[Len(s) + 1] = e
         /\ Elements(Append(s, e)) = Elements(s) \cup {e}
<1>1. /\ Append(s, e) \in Seq(T) /\ Len(Append(s, e)) = Len(s) + 1 /\ Len(s) \in Nat
      /\ \A l \in 1 .. Len(s) : Append(s, e)[l] = s[l]
      /\ Append(s, e)[Len(s) + 1] = e
  OBVIOUS
<1>2. DOMAIN Append(s, e) = 1 .. Len(s) + 1 /\ DOMAIN s = 1 .. Len(s)
  OBVIOUS
<1>3. 1 .. Len(s) + 1 = (1 .. Len(s)) \cup {Len(s) + 1}
  BY <1>1
<1> QED BY <1>1, <1>2, <1>3 DEF Elements

\* Before the first tag nothing is open and nothing is found.
LEMMA ScopesStart ==
  ASSUME NEW text, IsText(text), NEW p, IsPairing(text, p)
  PROVE  ScopesAfter(text, p, 0, [stack |-> <<>>, regions |-> <<>>])
<1> DEFINE at == [k \in 1 .. 0 |-> 0]
<1>1. \A i \in Openers(text) : i \in DOMAIN text /\ i \in Nat /\ p[i] \in Nat /\ i < p[i]
  BY PairsAreNested DEF Openers, Tags
<1>2. \A i \in DOMAIN text : i \in Nat /\ ~(i <= 0)
  BY DEF IsText
<1>3. OpenTags(text, p, 0) = {}
  BY <1>1, <1>2 DEF OpenTags
<1>4. \A i \in Openers(text) : ~(p[i] <= 0)
  BY <1>1
<1>5. OnStack(text, p, 0, 0, at)
  BY <1>3 DEF OnStack
<1>6. Covering(text, p, 0, 0, at, at)
  BY <1>3 DEF Covering
<1>7. RegionsAre(text, p, 0, 0, at, {})
  BY <1>4 DEF RegionsAre
<1>8. StackIs(text, <<>>, 0, at)
  BY DEF StackIs
<1>9. Elements(<<>>) = {}
  BY DEF Elements
<1>10. <<>> \in Seq(EntrySet) /\ <<>> \in Seq(RegionSet)
  OBVIOUS
<1> HIDE DEF at
<1> PICK acc : acc = [stack |-> <<>>, regions |-> <<>>]
  OBVIOUS
<1>11. acc.stack = <<>> /\ acc.regions = <<>> /\ acc \in [stack : Seq(EntrySet), regions : Seq(RegionSet)]
  BY <1>10
<1>12. \E h : Covering(text, p, 0, 0, at, h)
  BY <1>6
<1>13. ScopesAfter(text, p, 0, acc)
  BY <1>5, <1>7, <1>8, <1>9, <1>11, <1>12 DEF ScopesAfter
<1> QED BY <1>13

\* An opening tag.
LEMMA ScopesOpen ==
  ASSUME NEW text, IsText(text), NEW p, IsPairing(text, p), NEW j \in Nat, NEW t \in Openers(text), t = j + 1,
         NEW acc, ScopesAfter(text, p, j, acc)
  PROVE  ScopesAfter(text, p, t, OpenScope(acc, t, text[t].kind))
<1>1. acc \in [stack : Seq(EntrySet), regions : Seq(RegionSet)]
  BY DEF ScopesAfter
<1>2. PICK m, at :
        /\ StackIs(text, acc.stack, m, at) /\ OnStack(text, p, j, m, at) /\ \E h : Covering(text, p, j, m, at, h)
        /\ RegionsAre(text, p, j, m, at, Elements(acc.regions))
  BY DEF ScopesAfter
<1> DEFINE e == [scope |-> text[t].kind, start |-> TagEnd(t), depth |-> Len(acc.stack)]
           next == OpenScope(acc, t, text[t].kind)
<1>3. next = [acc EXCEPT !.stack = Append(acc.stack, e)]
  BY DEF OpenScope
<1>4. m \in Nat /\ m = Len(acc.stack) /\ acc.stack \in Seq(EntrySet)
      /\ \A k \in 1 .. m : acc.stack[k] = [scope |-> text[at[k]].kind, start |-> TagEnd(at[k]), depth |-> k - 1]
  BY <1>2 DEF StackIs, OnStack
<1>5. t \in Nat /\ text[t].kind \in ScopeKinds /\ TagEnd(t) \in Nat
  BY PairsAreNested, TagEndsDiffer
<1>6. e \in EntrySet
  BY <1>4, <1>5 DEF EntrySet
<1> PICK more : more = [k \in 1 .. m + 1 |-> IF k = m + 1 THEN t ELSE at[k]]
  OBVIOUS
<1>7. \A k \in 1 .. m + 1 : (k \in 1 .. m /\ k # m + 1 /\ more[k] = at[k]) \/ (k = m + 1 /\ more[k] = t)
  <2> TAKE k \in 1 .. m + 1
  <2>1. k = m + 1 \/ (k \in 1 .. m /\ k # m + 1)
    BY <1>4
  <2> QED BY <2>1
<1>8. OnStack(text, p, t, m + 1, more)
  BY <1>2, OpenOnStack
<1>9. \E h : Covering(text, p, t, m + 1, more, h)
  BY <1>2, OpenIsCovered
<1>10. RegionsAre(text, p, t, m + 1, more, Elements(acc.regions))
  <2>1. \A i \in Openers(text) : p[i] # t
    BY PairsAreNested
  <2>2. m + 1 \in Nat /\ \A k \in 1 .. m + 1 : (k \in 1 .. m /\ more[k] = at[k]) \/ more[k] = j + 1
    BY <1>4, <1>7
  <2>3. RegionsAre(text, p, j + 1, m + 1, more, Elements(acc.regions))
    BY <1>2, <2>1, <2>2, RegionsStay
  <2> QED BY <2>3
<1> HIDE DEF e, next
<1>11. /\ Append(acc.stack, e) \in Seq(EntrySet) /\ Len(Append(acc.stack, e)) = m + 1
       /\ \A k \in 1 .. m : Append(acc.stack, e)[k] = acc.stack[k]
       /\ Append(acc.stack, e)[m + 1] = e
  BY <1>4, <1>6, Appended
<1>12. /\ next \in [stack : Seq(EntrySet), regions : Seq(RegionSet)]
       /\ next.stack = Append(acc.stack, e) /\ next.regions = acc.regions
  BY <1>1, <1>3, <1>11
<1>13. \A k \in 1 .. m + 1 :
         Append(acc.stack, e)[k] = [scope |-> text[more[k]].kind, start |-> TagEnd(more[k]), depth |-> k - 1]
  <2> TAKE k \in 1 .. m + 1
  <2>1. CASE k \in 1 .. m /\ k # m + 1 /\ more[k] = at[k]
    BY <1>4, <1>11, <2>1
  <2>2. CASE k = m + 1 /\ more[k] = t
    <3>1. k - 1 = m
      BY <1>4, <2>2
    <3> QED BY <1>4, <1>11, <2>2, <3>1 DEF e
  <2> QED BY <1>7, <2>1, <2>2
<1>14. StackIs(text, next.stack, m + 1, more)
  BY <1>11, <1>12, <1>13 DEF StackIs
<1>15. \E n, new :
         /\ StackIs(text, next.stack, n, new) /\ OnStack(text, p, t, n, new) /\ \E h : Covering(text, p, t, n, new, h)
         /\ RegionsAre(text, p, t, n, new, Elements(next.regions))
  BY <1>8, <1>9, <1>10, <1>12, <1>14
<1> QED BY <1>12, <1>15 DEF ScopesAfter, next

\* The end tag of a scope, as the grammar knows it, finds a place on the stack: its own entry if it
\* is exact, the last entry otherwise.
LEMMA CloseFinds ==
  ASSUME NEW text, IsText(text), NEW p, IsPairing(text, p), NEW j \in Nat, NEW m, NEW at, OnStack(text, p, j, m, at),
         \E h : Covering(text, p, j, m, at, h),
         NEW i \in Openers(text), p[i] = j + 1
  PROVE  \E k \in 1 .. m :
           /\ text[at[k]].kind = text[i].kind /\ \A l \in 1 .. m : text[at[l]].kind = text[i].kind => l <= k
           /\ IsExact(text, at[k]) => p[at[k]] = j + 1
           /\ \A g \in Openers(text) : IsExact(text, g) /\ p[g] = j + 1 => g = at[k]
           /\ OnStack(text, p, j + 1, k - 1, Below(at, k))
           /\ \E h : Covering(text, p, j + 1, k - 1, Below(at, k), h)
<1>1. \A g \in Openers(text) : p[g] = j + 1 => g = i
  BY PairsAreNested
<1>2. CASE IsExact(text, i)
  <2>1. PICK k \in 1 .. m : at[k] = i /\ \A l \in 1 .. m : text[at[l]].kind = text[i].kind => l <= k
    BY <1>2, ExactIsLast
  <2>2. /\ OnStack(text, p, j + 1, k - 1, Below(at, k))
        /\ \E h : Covering(text, p, j + 1, k - 1, Below(at, k), h)
    BY <1>2, <2>1, CloseExact
  <2> QED BY <1>1, <2>1, <2>2
<1>3. CASE ~IsExact(text, i)
  <2>1. /\ m \in 1 .. m /\ ~IsExact(text, at[m])
        /\ OnStack(text, p, j + 1, m - 1, Below(at, m))
        /\ \E h : Covering(text, p, j + 1, m - 1, Below(at, m), h)
    BY <1>3, CloseLoose
  <2>2. \A g \in Openers(text) : ~IsExact(text, g) => text[g].kind = "block"
    BY PairsAreNested DEF IsExact, ExactKinds
  <2>3. text[at[m]].kind = "block" /\ text[i].kind = "block"
    BY <1>3, <2>1, <2>2 DEF OnStack
  <2>4. \A l \in 1 .. m : l <= m
    BY <2>1
  <2>5. \A g \in Openers(text) : IsExact(text, g) => p[g] # j + 1
    BY <1>1, <1>3
  <2> QED BY <2>1, <2>3, <2>4, <2>5
<1> QED BY <1>2, <1>3

\* An end tag that the grammar knows.
LEMMA ScopesClose ==
  ASSUME NEW text, IsText(text), NEW p, IsPairing(text, p), NEW j \in Nat, j + 1 \in DOMAIN text,
         text[j + 1].kind \in DOMAIN Closes,
         NEW acc, ScopesAfter(text, p, j, acc)
  PROVE  ScopesAfter(text, p, j + 1, CloseScope(acc, j + 1, Closes[text[j + 1].kind]))
<1> DEFINE kind == Closes[text[j + 1].kind]
           next == CloseScope(acc, j + 1, kind)
<1>1. acc \in [stack : Seq(EntrySet), regions : Seq(RegionSet)]
  BY DEF ScopesAfter
<1>2. PICK m, at :
        /\ StackIs(text, acc.stack, m, at) /\ OnStack(text, p, j, m, at) /\ \E h : Covering(text, p, j, m, at, h)
        /\ RegionsAre(text, p, j, m, at, Elements(acc.regions))
  BY DEF ScopesAfter
<1>3. m \in Nat /\ m = Len(acc.stack) /\ acc.stack \in Seq(EntrySet)
      /\ \A k \in 1 .. m : acc.stack[k] = [scope |-> text[at[k]].kind, start |-> TagEnd(at[k]), depth |-> k - 1]
  BY <1>2 DEF StackIs, OnStack
<1>4. ClosedKind(text[j + 1]) = kind /\ kind # None
  <2>1. \A d \in DOMAIN Closes : Closes[d] \in ScopeKinds
    BY DEF Closes, ScopeKinds
  <2>2. None \notin ScopeKinds
    BY DEF ScopeKinds, None
  <2> QED BY <2>1, <2>2 DEF ClosedKind
<1>5. PICK i \in Openers(text) : p[i] = j + 1
  BY <1>4 DEF IsPairing, Closers
<1>6. text[i].kind = kind
  BY <1>4, <1>5, PairsAreNested
<1>7. PICK k \in 1 .. m :
        /\ text[at[k]].kind = kind /\ \A l \in 1 .. m : text[at[l]].kind = kind => l <= k
        /\ IsExact(text, at[k]) => p[at[k]] = j + 1
        /\ \A g \in Openers(text) : IsExact(text, g) /\ p[g] = j + 1 => g = at[k]
        /\ OnStack(text, p, j + 1, k - 1, Below(at, k))
        /\ \E h : Covering(text, p, j + 1, k - 1, Below(at, k), h)
  BY <1>2, <1>5, <1>6, CloseFinds
<1> DEFINE matching == {l \in DOMAIN acc.stack : acc.stack[l].scope = kind}
           top == CHOOSE l \in matching : \A o \in matching : o <= l
<1>8. \A l \in 1 .. m : acc.stack[l].scope = text[at[l]].kind /\ acc.stack[l].start = TagEnd(at[l]) /\ acc.stack[l].depth = l - 1
  <2> TAKE l \in 1 .. m
  <2>1. acc.stack[l] = [scope |-> text[at[l]].kind, start |-> TagEnd(at[l]), depth |-> l - 1]
    BY <1>3
  <2> QED BY <2>1
<1>9. matching = {l \in 1 .. m : text[at[l]].kind = kind}
  BY <1>3, <1>8
<1>10. top = k /\ matching # {}
  <2> HIDE DEF kind
  <2>1. k \in matching /\ \A o \in matching : o <= k /\ o \in Nat
    BY <1>3, <1>7, <1>9
  <2> HIDE DEF matching
  <2>2. top \in matching /\ \A o \in matching : o <= top
    BY <2>1
  <2> HIDE DEF top
  <2> QED BY <2>1, <2>2
<1> PICK r : r = [scope |-> text[at[k]].kind, depth |-> k - 1, span |-> Span(TagEnd(at[k]), TagStart(j + 1))]
  OBVIOUS
<1>11. RegionsAre(text, p, j + 1, k - 1, Below(at, k), Elements(acc.regions) \cup {r})
  BY <1>2, <1>7, RegionsClose
<1>12. r \in RegionSet
  BY <1>11 DEF RegionsAre
<1>13. next = [stack |-> SubSeq(acc.stack, 1, k - 1), regions |-> Append(acc.regions, r)]
  <2>1. next = [stack |-> SubSeq(acc.stack, 1, top - 1),
                regions |-> Append(acc.regions,
                  [scope |-> acc.stack[top].scope, depth |-> acc.stack[top].depth,
                   span |-> Span(acc.stack[top].start, TagStart(j + 1))])]
    BY <1>10, Zenon DEF CloseScope
  <2> HIDE DEF next, top
  <2> QED BY <1>8, <1>10, <2>1
<1>14. /\ SubSeq(acc.stack, 1, k - 1) \in Seq(EntrySet) /\ Len(SubSeq(acc.stack, 1, k - 1)) = k - 1
       /\ \A l \in 1 .. k - 1 : SubSeq(acc.stack, 1, k - 1)[l] = acc.stack[l]
  BY <1>3, BeginningOf
<1>15. /\ Append(acc.regions, r) \in Seq(RegionSet)
       /\ Elements(Append(acc.regions, r)) = Elements(acc.regions) \cup {r}
  BY <1>1, <1>12, Appended
<1> HIDE DEF next, kind
<1>16. /\ next \in [stack : Seq(EntrySet), regions : Seq(RegionSet)]
       /\ next.stack = SubSeq(acc.stack, 1, k - 1) /\ next.regions = Append(acc.regions, r)
  BY <1>13, <1>14, <1>15
<1>17. StackIs(text, next.stack, k - 1, Below(at, k))
  <2>1. \A l \in 1 .. k - 1 : l \in 1 .. m /\ Below(at, k)[l] = at[l]
    BY <1>2, BelowOnStack
  <2> QED BY <1>3, <1>14, <1>16, <2>1 DEF StackIs
<1>18. \E n, new :
         /\ StackIs(text, next.stack, n, new) /\ OnStack(text, p, j + 1, n, new)
         /\ \E h : Covering(text, p, j + 1, n, new, h)
         /\ RegionsAre(text, p, j + 1, n, new, Elements(next.regions))
  BY <1>7, <1>11, <1>15, <1>16, <1>17
<1> QED BY <1>16, <1>18 DEF ScopesAfter, next, kind

\* Any other tag, a named endblock among them.
LEMMA ScopesStay ==
  ASSUME NEW text, IsText(text), NEW p, IsPairing(text, p), NEW j \in Nat, j + 1 \in DOMAIN text,
         j + 1 \notin Openers(text), text[j + 1].kind \notin DOMAIN Closes,
         NEW acc, ScopesAfter(text, p, j, acc)
  PROVE  ScopesAfter(text, p, j + 1, acc)
<1>1. acc \in [stack : Seq(EntrySet), regions : Seq(RegionSet)]
  BY DEF ScopesAfter
<1>2. PICK m, at :
        /\ StackIs(text, acc.stack, m, at) /\ OnStack(text, p, j, m, at) /\ \E h : Covering(text, p, j, m, at, h)
        /\ RegionsAre(text, p, j, m, at, Elements(acc.regions))
  BY DEF ScopesAfter
<1>3. \A i \in Openers(text) : p[i] = j + 1 => ~IsExact(text, i)
  <2> TAKE i \in Openers(text)
  <2> HAVE p[i] = j + 1
  <2>1. ClosedKind(text[j + 1]) = text[i].kind /\ text[i].kind \in ScopeKinds
    BY PairsAreNested
  <2>2. text[i].kind # None
    BY <2>1 DEF ScopeKinds, None
  <2>3. text[j + 1].kind = "named_endblock" /\ text[i].kind = "block"
    BY <2>1, <2>2 DEF ClosedKind
  <2>4. Tags(text, {"named_endblock"}) # {}
    BY <2>3 DEF Tags
  <2> QED BY <2>3, <2>4 DEF IsExact, ExactKinds
<1>4. OnStack(text, p, j + 1, m, at) /\ \E h : Covering(text, p, j + 1, m, at, h)
  <2>1. CASE \E i \in Openers(text) : p[i] = j + 1
    <3>1. PICK i \in Openers(text) : p[i] = j + 1
      BY <2>1
    <3>2. OpenTags(text, p, j + 1) = OpenTags(text, p, j) \ {i}
      BY <3>1, OpenAfterClose
    <3>3. \A g \in {i} : ~IsExact(text, g)
      BY <1>3, <3>1
    <3> QED BY <1>2, <3>2, <3>3, LooseStays
  <2>2. CASE ~\E i \in Openers(text) : p[i] = j + 1
    <3>1. j + 1 \notin Closers(text)
      BY <2>2 DEF IsPairing
    <3> PICK D : D = {}
      OBVIOUS
    <3>2. OpenTags(text, p, j + 1) = OpenTags(text, p, j) \ D
      BY <3>1, OpenAfterOther
    <3>3. \A g \in D : ~IsExact(text, g)
      OBVIOUS
    <3> QED BY <1>2, <3>2, <3>3, LooseStays
  <2> QED BY <2>1, <2>2
<1>5. RegionsAre(text, p, j + 1, m, at, Elements(acc.regions))
  <2>1. m \in Nat
    BY <1>2 DEF OnStack
  <2> QED BY <1>2, <1>3, <2>1, RegionsStay
<1> QED BY <1>1, <1>2, <1>4, <1>5 DEF ScopesAfter

\* A set of numbers below a bound that is not empty has a greatest one.
LEMMA GreatestExists ==
  ASSUME NEW n \in Nat, NEW S \in SUBSET (0 .. n), S # {}
  PROVE  \E i \in S : \A j \in S : j <= i
<1> DEFINE T == {x \in Nat : n - x \in S}
<1>1. PICK y \in S : TRUE
  OBVIOUS
<1>2. n - y \in T
  <2>1. n - y \in Nat /\ n - (n - y) = y
    OBVIOUS
  <2> QED BY <2>1
<1>3. PICK x \in T : \A z \in T : x <= z
  <2>1. T \in SUBSET Nat /\ T # {}
    BY <1>2
  <2> HIDE DEF T
  <2> QED BY <2>1, LeastExists
<1>4. n - x \in S /\ x \in Nat
  OBVIOUS
<1>5. ASSUME NEW j \in S PROVE j <= n - x
  <2>1. n - j \in Nat /\ n - (n - j) = j
    OBVIOUS
  <2>2. n - j \in T
    BY <2>1
  <2>3. x <= n - j
    BY <1>3, <2>2
  <2> QED BY <1>4, <2>1, <2>3
<1> QED BY <1>4, <1>5

\* Where scopes begin and end.
TagEnds == {TagEnd(i) : i \in Nat}
TagStarts == {TagStart(i) : i \in Nat}
OpenEntries == [scope : ScopeKinds, start : TagEnds, depth : Nat]
PlacedRegions == [scope : ScopeKinds, depth : Nat, span : [lo : TagEnds, hi : TagStarts]]
AccSet == [stack : Seq(OpenEntries), regions : Seq(PlacedRegions)]

\* The pass keeps its types, at an opening tag ...
LEMMA OpenScopeType ==
  ASSUME NEW i \in Nat, NEW kind \in ScopeKinds, NEW acc \in AccSet
  PROVE  OpenScope(acc, i, kind) \in AccSet
<1> DEFINE e == [scope |-> kind, start |-> TagEnd(i), depth |-> Len(acc.stack)]
<1>1. acc.stack \in Seq(OpenEntries) /\ Len(acc.stack) \in Nat /\ TagEnd(i) \in TagEnds
  <2>1. acc.stack \in Seq(OpenEntries)
    BY DEF AccSet
  <2>2. TagEnd(i) \in TagEnds
    BY DEF TagEnds
  <2> QED BY <2>1, <2>2
<1>2. e \in OpenEntries
  BY <1>1 DEF OpenEntries
<1>3. OpenScope(acc, i, kind) = [acc EXCEPT !.stack = Append(acc.stack, e)]
  BY DEF OpenScope
<1> HIDE DEF e
<1>4. Append(acc.stack, e) \in Seq(OpenEntries)
  BY <1>1, <1>2
<1> QED BY <1>3, <1>4 DEF AccSet

\* ... and at an end tag.
LEMMA CloseScopeType ==
  ASSUME NEW i \in Nat, NEW kind, NEW acc \in AccSet
  PROVE  CloseScope(acc, i, kind) \in AccSet
<1> DEFINE matching == {l \in DOMAIN acc.stack : acc.stack[l].scope = kind}
           top == CHOOSE l \in matching : \A o \in matching : o <= l
           entry == acc.stack[top]
           r == [scope |-> entry.scope, depth |-> entry.depth, span |-> Span(entry.start, TagStart(i))]
<1>1. PICK n \in Nat : n = Len(acc.stack) /\ acc.stack \in Seq(OpenEntries) /\ DOMAIN acc.stack = 1 .. n
                       /\ acc.regions \in Seq(PlacedRegions)
  BY DEF AccSet
<1>2. CloseScope(acc, i, kind) =
        IF matching = {} THEN acc
        ELSE [stack |-> SubSeq(acc.stack, 1, top - 1), regions |-> Append(acc.regions, r)]
  BY Zenon DEF CloseScope
<1>3. ASSUME matching # {} PROVE top \in 1 .. Len(acc.stack)
  <2>1. matching \in SUBSET (0 .. n) /\ matching \subseteq 1 .. n
    BY <1>1
  <2> HIDE DEF matching
  <2>2. \E l \in matching : \A o \in matching : o <= l
    BY <1>3, <2>1, GreatestExists
  <2>3. top \in matching
    BY <2>2
  <2> QED BY <1>1, <2>1, <2>3
<1> HIDE DEF matching
<1>4. ASSUME matching # {}
      PROVE  SubSeq(acc.stack, 1, top - 1) \in Seq(OpenEntries) /\ Append(acc.regions, r) \in Seq(PlacedRegions)
  <2>1. top \in 1 .. Len(acc.stack)
    BY <1>3, <1>4
  <2> HIDE DEF top
  <2>2. SubSeq(acc.stack, 1, top - 1) \in Seq(OpenEntries)
    BY <1>1, <2>1, BeginningOf
  <2>3. entry \in OpenEntries
    BY <1>1, <2>1
  <2> HIDE DEF entry
  <2>4. TagStart(i) \in TagStarts
    BY DEF TagStarts
  <2>5. r \in PlacedRegions
    BY <2>3, <2>4 DEF OpenEntries, PlacedRegions, Span
  <2> HIDE DEF r
  <2> QED BY <1>1, <2>2, <2>5
<1> HIDE DEF top, entry, r
<1> QED BY <1>2, <1>4 DEF AccSet

\* The pass over a text, tag by tag.
Passed(text, after) ==
  /\ after[0] = [stack |-> <<>>, regions |-> <<>>] /\ BuildScopeRegions(text) = after[Len(text)].regions
  /\ \A i \in 1 .. Len(text) :
       after[i] = IF text[i].kind \in ScopeKinds THEN OpenScope(after[i - 1], i, text[i].kind)
                  ELSE IF text[i].kind \in DOMAIN Closes THEN CloseScope(after[i - 1], i, Closes[text[i].kind])
                  ELSE after[i - 1]
  /\ \A i \in 0 .. Len(text) : after[i] \in AccSet

\* The pass is over every tag.
LEMMA ScopesByTag ==
  ASSUME NEW text, IsText(text)
  PROVE  \E after : Passed(text, after)
<1> DEFINE n == Len(text)
           base == [stack |-> <<>>, regions |-> <<>>]
           Next1(acc, i) == IF text[i].kind \in ScopeKinds THEN OpenScope(acc, i, text[i].kind)
                            ELSE IF text[i].kind \in DOMAIN Closes THEN CloseScope(acc, i, Closes[text[i].kind])
                            ELSE acc
           Pass(g, i) == IF i = 0 THEN base
                         ELSE IF text[i].kind \in ScopeKinds THEN OpenScope(g[i - 1], i, text[i].kind)
                         ELSE IF text[i].kind \in DOMAIN Closes THEN CloseScope(g[i - 1], i, Closes[text[i].kind])
                         ELSE g[i - 1]
           Rec(g) == g = [i \in 0 .. n |-> Pass(g, i)]
           after == CHOOSE g : Rec(g)
<1>1. n \in Nat /\ DOMAIN text = 1 .. n
  BY DEF IsText
<1>2. BuildScopeRegions(text) = after[n].regions
  BY Zenon DEF BuildScopeRegions
<1>3. base \in AccSet
  <2>1. <<>> \in Seq(EntrySet) /\ <<>> \in Seq(RegionSet)
    OBVIOUS
  <2> QED BY <2>1 DEF AccSet
<1>4. \A i \in 1 .. n : \A acc \in AccSet : Next1(acc, i) \in AccSet
  <2> TAKE i \in 1 .. n
  <2> TAKE acc \in AccSet
  <2>1. i \in Nat
    BY <1>1
  <2> QED BY <2>1, OpenScopeType, CloseScopeType
<1> HIDE DEF n, base
<1>5. \E g : Rec(g)
  <2> DEFINE step == [i \in 1 .. n |-> [acc \in AccSet |-> Next1(acc, i)]]
  <2>1. step \in [1 .. n -> [AccSet -> AccSet]]
    <3> HIDE DEF Next1
    <3> QED BY <1>4
  <2>2. PICK f \in [0 .. n -> AccSet] : Steps(f, n, base, step)
    <3>1. base \in AccSet /\ step \in [1 .. n -> [AccSet -> AccSet]] /\ n \in Nat
      BY <1>1, <1>3, <2>1
    <3> HIDE DEF step
    <3> QED BY <3>1, Recursion
  <2>3. ASSUME NEW i \in 0 .. n PROVE f[i] = Pass(f, i)
    <3>1. i # 0 => i \in 1 .. n /\ i - 1 \in 0 .. n
      BY <1>1
    <3>2. i # 0 => f[i - 1] \in AccSet
      BY <3>1
    <3>3. i = 0 => f[i] = base
      BY <2>2 DEF Steps
    <3>4. i # 0 => f[i] = Next1(f[i - 1], i)
      <4>1. i # 0 => f[i] = step[i][f[i - 1]]
        BY <2>2, <3>1 DEF Steps
      <4> HIDE DEF Next1
      <4> QED BY <3>1, <3>2, <4>1
    <3> QED BY <3>3, <3>4
  <2> HIDE DEF Pass
  <2>4. f = [i \in 0 .. n |-> Pass(f, i)]
    BY <2>3
  <2> QED BY <2>4
<1>6. Rec(after)
  <2> HIDE DEF Rec
  <2> QED BY <1>5
<1> HIDE DEF after
<1>7. ASSUME NEW i \in 0 .. n PROVE after[i] = Pass(after, i)
  <2> HIDE DEF Pass
  <2> QED BY <1>6
<1>8. after[0] = base /\ \A i \in 1 .. n : after[i] = Next1(after[i - 1], i)
  <2>1. 0 \in 0 .. n /\ \A i \in 1 .. n : i \in 0 .. n /\ i # 0
    BY <1>1
  <2> QED BY <1>7, <2>1
<1>9. ASSUME NEW i \in 0 .. n PROVE after[i] \in AccSet
  <2> HIDE DEF Next1
  <2>1. after[0] \in AccSet
    BY <1>3, <1>8
  <2>2. ASSUME NEW j \in 1 .. i, after[j - 1] \in AccSet PROVE after[j] \in AccSet
    <3>1. j \in 1 .. n
      BY <1>1
    <3> QED BY <1>4, <1>8, <2>2, <3>1
  <2>3. i \in Nat
    BY <1>1
  <2> QED BY <2>1, <2>2, <2>3, RecursionType
<1> QED BY <1>2, <1>8, <1>9 DEF Passed, base, n

\* The regions of a text are placed between tags.
LEMMA RegionsArePlaced ==
  ASSUME NEW text, IsText(text)
  PROVE  Elements(BuildScopeRegions(text)) \subseteq PlacedRegions
<1>1. PICK after : Passed(text, after)
  BY ScopesByTag
<1>2. Len(text) \in Nat
  BY DEF IsText
<1>3. Len(text) \in 0 .. Len(text)
  BY <1>2
<1>4. after[Len(text)] \in AccSet /\ BuildScopeRegions(text) = after[Len(text)].regions
  BY <1>1, <1>3 DEF Passed
<1>5. BuildScopeRegions(text) \in Seq(PlacedRegions)
  BY <1>4 DEF AccSet
<1> QED BY <1>5 DEF Elements

\* The whole pass over a well nested text.
LEMMA ScopesFound ==
  ASSUME NEW text, IsText(text), NEW p, IsPairing(text, p)
  PROVE  \E acc : ScopesAfter(text, p, Len(text), acc) /\ BuildScopeRegions(text) = acc.regions
<1> DEFINE n == Len(text)
           base == [stack |-> <<>>, regions |-> <<>>]
<1>1. n \in Nat /\ DOMAIN text = 1 .. n
  BY DEF IsText
<1>2. PICK after : Passed(text, after)
  BY ScopesByTag
<1>3. BuildScopeRegions(text) = after[n].regions
  BY <1>2 DEF Passed
<1>4. /\ after[0] = base
      /\ \A i \in 1 .. n :
           after[i] = IF text[i].kind \in ScopeKinds THEN OpenScope(after[i - 1], i, text[i].kind)
                      ELSE IF text[i].kind \in DOMAIN Closes THEN CloseScope(after[i - 1], i, Closes[text[i].kind])
                      ELSE after[i - 1]
  BY <1>2 DEF Passed
<1> HIDE DEF n, base
<1> DEFINE N == {j \in Nat : j <= n => ScopesAfter(text, p, j, after[j])}
<1>5. 0 \in N
  <2>2. after[0] = base
    BY <1>4
  <2>3. ScopesAfter(text, p, 0, base)
    BY ScopesStart DEF base
  <2> QED BY <2>2, <2>3
<1>6. ASSUME NEW j \in Nat, j \in N PROVE j + 1 \in N
  <2> SUFFICES ASSUME j + 1 <= n PROVE ScopesAfter(text, p, j + 1, after[j + 1])
    OBVIOUS
  <2>1. j + 1 \in 1 .. n /\ j + 1 # 0 /\ (j + 1) - 1 = j /\ j + 1 \in DOMAIN text /\ j <= n
    BY <1>1
  <2>2. ScopesAfter(text, p, j, after[j])
    BY <1>6, <2>1
  <2> PICK t : t = j + 1
    OBVIOUS
  <2>3. after[t] = IF text[t].kind \in ScopeKinds THEN OpenScope(after[j], t, text[t].kind)
                   ELSE IF text[t].kind \in DOMAIN Closes THEN CloseScope(after[j], t, Closes[text[t].kind])
                   ELSE after[j]
    BY <1>4, <2>1
  <2>4. CASE t \in Openers(text)
    <3>1. text[t].kind \in ScopeKinds
      BY <2>4 DEF Openers, Tags
    <3>2. ScopesAfter(text, p, t, OpenScope(after[j], t, text[t].kind))
      BY <2>2, <2>4, ScopesOpen
    <3> QED BY <2>3, <3>1, <3>2
  <2>5. CASE t \notin Openers(text) /\ text[t].kind \in DOMAIN Closes
    <3>1. text[t].kind \notin ScopeKinds
      BY <2>1, <2>5 DEF Openers, Tags
    <3>2. ScopesAfter(text, p, j + 1, CloseScope(after[j], j + 1, Closes[text[j + 1].kind]))
      BY <2>1, <2>2, <2>5, ScopesClose
    <3> QED BY <2>3, <2>5, <3>1, <3>2
  <2>6. CASE t \notin Openers(text) /\ text[t].kind \notin DOMAIN Closes
    <3>1. text[t].kind \notin ScopeKinds
      BY <2>1, <2>6 DEF Openers, Tags
    <3>2. ScopesAfter(text, p, j + 1, after[j])
      BY <2>1, <2>2, <2>6, ScopesStay
    <3> QED BY <2>3, <2>6, <3>1, <3>2
  <2> QED BY <2>4, <2>5, <2>6
<1>7. n \in N
  <2> HIDE DEF N
  <2>1. Nat \subseteq N
    BY <1>5, <1>6, Induction
  <2> QED BY <1>1, <2>1
<1>8. ScopesAfter(text, p, n, after[n])
  BY <1>1, <1>7
<1> QED BY <1>3, <1>8 DEF n

\* The regions of a well nested text.
LEMMA RegionsFound ==
  ASSUME NEW text, IsText(text), NEW p, IsPairing(text, p), NEW R, R = Elements(BuildScopeRegions(text))
  PROVE  /\ R \subseteq RegionSet
         /\ \A r \in R : \E i \in Openers(text), q \in DOMAIN text :
              IsRegion(text, r, i, q) /\ (IsExact(text, i) => q = p[i])
         /\ \A i \in Openers(text) : IsExact(text, i) => \E r \in R : r.span.lo = TagEnd(i)
         /\ \A r, s \in R : r.scope \in ExactKinds(text) /\ s.span.lo = r.span.lo => s = r
         /\ \A r, s \in R :
              /\ r.scope \in ExactKinds(text) /\ s.scope \in ExactKinds(text)
              /\ r.span.lo < s.span.lo /\ s.span.lo < r.span.hi
              => r.depth < s.depth
<1>1. PICK acc : ScopesAfter(text, p, Len(text), acc) /\ BuildScopeRegions(text) = acc.regions
  BY ScopesFound
<1>2. PICK m, at : RegionsAre(text, p, Len(text), m, at, R)
  BY <1>1 DEF ScopesAfter
<1>3. \A i \in Openers(text) : p[i] <= Len(text)
  <2> TAKE i \in Openers(text)
  <2>1. p[i] \in DOMAIN text
    BY PairsAreNested
  <2>2. DOMAIN text = 1 .. Len(text)
    BY DEF IsText
  <2> QED BY <2>1, <2>2
<1> QED BY <1>2, <1>3 DEF RegionsAre

\* What is collected per tag has what each tag yields.
LEMMA TextElements ==
  ASSUME NEW text, IsText(text), NEW S, NEW seqs, DOMAIN seqs = DOMAIN text,
         seqs = [i \in DOMAIN text |-> seqs[i]], \A i \in DOMAIN text : seqs[i] \in Seq(S)
  PROVE  /\ FlattenSeq(seqs) \in Seq(S)
         /\ Elements(FlattenSeq(seqs)) = UNION {Elements(seqs[i]) : i \in DOMAIN text}
<1>1. PICK n \in Nat : DOMAIN text = 1 .. n
  BY DEF IsText
<1>2. seqs \in Seq(Seq(S))
  BY <1>1
<1>3. ToSet(FlattenSeq(seqs)) = UNION {ToSet(seqs[i]) : i \in DOMAIN seqs}
  BY <1>2, FlattenSeqElements
<1>4. \A s : Elements(s) = ToSet(s)
  BY DEF Elements, ToSet
<1>5. UNION {ToSet(seqs[i]) : i \in DOMAIN seqs} = UNION {Elements(seqs[i]) : i \in DOMAIN text}
  BY <1>4
<1> QED BY <1>2, <1>3, <1>4, <1>5, FlattenText

\* One list of elements, and two one after the other.
LEMMA FewElements ==
  /\ \A x, S : x \in S => <<x>> \in Seq(S) /\ Elements(<<x>>) = {x}
  /\ \A x, y, S : x \in S /\ y \in S => <<x>> \o <<y>> \in Seq(S) /\ Elements(<<x>> \o <<y>>) = {x, y}
  /\ \A S : <<>> \in Seq(S) /\ Elements(<<>>) = {}
<1>1. ASSUME NEW x, NEW S, x \in S PROVE <<x>> \in Seq(S) /\ Elements(<<x>>) = {x}
  BY <1>1 DEF Elements
<1>2. ASSUME NEW x, NEW y, NEW S, x \in S, y \in S
      PROVE <<x>> \o <<y>> \in Seq(S) /\ Elements(<<x>> \o <<y>>) = {x, y}
  <2>1. <<x>> \in Seq(S) /\ <<y>> \in Seq(S) /\ Elements(<<x>>) = {x} /\ Elements(<<y>>) = {y}
    BY <1>1, <1>2
  <2>2. <<x>> \o <<y>> \in Seq(S) /\ ToSet(<<x>> \o <<y>>) = ToSet(<<x>>) \cup ToSet(<<y>>)
    BY <2>1, ConcatElements
  <2>3. \A s : Elements(s) = ToSet(s)
    BY DEF Elements, ToSet
  <2> QED BY <2>1, <2>2, <2>3
<1>3. ASSUME NEW S PROVE <<>> \in Seq(S) /\ Elements(<<>>) = {}
  BY DEF Elements
<1> QED BY <1>1, <1>2, <1>3

ReferenceKinds == {"print"} \cup DOMAIN Qualified \cup CallKinds

\* The references of a tag.
ReferencesOf(text, i) ==
  IF text[i].kind \in CallKinds THEN {Reference(text, i, CalleeToken(text[i]), "function")}
  ELSE {Reference(text, i, 1, "identifier")}
       \cup (IF text[i].kind \in DOMAIN Qualified
             THEN {Reference(text, i, IF text[i].kind = "get" THEN 2 ELSE 1, Qualified[text[i].kind])} ELSE {})

\* The references of a text.
LEMMA ReferencesOfTags ==
  ASSUME NEW text, IsText(text)
  PROVE  /\ \E S : References(text) \in Seq(S)
         /\ Elements(References(text)) = UNION {ReferencesOf(text, i) : i \in Tags(text, ReferenceKinds)}
<1> DEFINE T(i) == Reference(text, i, CalleeToken(text[i]), "function")
           I(i) == Reference(text, i, 1, "identifier")
           Q(i) == Reference(text, i, IF text[i].kind = "get" THEN 2 ELSE 1, Qualified[text[i].kind])
           S == UNION {{T(i), I(i), Q(i)} : i \in DOMAIN text}
           second(i) == IF text[i].kind \in DOMAIN Qualified THEN <<Q(i)>> ELSE <<>>
           found(i) == IF text[i].kind \in CallKinds THEN <<T(i)>> ELSE <<I(i)>> \o second(i)
           seqs == [i \in DOMAIN text |-> IF text[i].kind \in ReferenceKinds THEN found(i) ELSE <<>>]
<1>1. References(text) = FlattenSeq(seqs)
  BY DEF References, Each, ReferenceKinds
<1>2. ASSUME NEW i \in DOMAIN text
      PROVE  found(i) \in Seq(S) /\ Elements(found(i)) = ReferencesOf(text, i)
  <2>1. T(i) \in S /\ I(i) \in S /\ Q(i) \in S
    OBVIOUS
  <2>2. ReferencesOf(text, i) = IF text[i].kind \in CallKinds THEN {T(i)}
                                ELSE {I(i)} \cup (IF text[i].kind \in DOMAIN Qualified THEN {Q(i)} ELSE {})
    BY DEF ReferencesOf
  <2> HIDE DEF S, T, I, Q
  <2>3. CASE text[i].kind \in CallKinds
    <3>1. <<T(i)>> \in Seq(S) /\ Elements(<<T(i)>>) = {T(i)}
      BY <2>1, FewElements
    <3> QED BY <2>2, <2>3, <3>1
  <2>4. CASE text[i].kind \notin CallKinds /\ text[i].kind \in DOMAIN Qualified
    <3>1. <<I(i)>> \o <<Q(i)>> \in Seq(S) /\ Elements(<<I(i)>> \o <<Q(i)>>) = {I(i), Q(i)}
      BY <2>1, FewElements
    <3>2. found(i) = <<I(i)>> \o <<Q(i)>>
      BY <2>4
    <3>3. ReferencesOf(text, i) = {I(i), Q(i)}
      BY <2>2, <2>4
    <3> QED BY <3>1, <3>2, <3>3
  <2>5. CASE text[i].kind \notin CallKinds /\ text[i].kind \notin DOMAIN Qualified
    <3>1. <<I(i)>> \in Seq(S) /\ Elements(<<I(i)>>) = {I(i)} /\ <<I(i)>> \o <<>> = <<I(i)>>
      <4>1. <<I(i)>> \in Seq(S) /\ Elements(<<I(i)>>) = {I(i)}
        BY <2>1, FewElements
      <4> QED BY <4>1
    <3>2. found(i) = <<I(i)>> \o <<>>
      BY <2>5
    <3>3. ReferencesOf(text, i) = {I(i)}
      BY <2>2, <2>5
    <3> QED BY <3>1, <3>2, <3>3
  <2> QED BY <2>3, <2>4, <2>5
<1> HIDE DEF S, found
<1>3. \A i \in DOMAIN text : seqs[i] \in Seq(S)
  BY <1>2, FewElements
<1>4. DOMAIN seqs = DOMAIN text /\ seqs = [i \in DOMAIN text |-> seqs[i]]
  OBVIOUS
<1>5. \A i \in DOMAIN text : Elements(seqs[i]) = IF i \in Tags(text, ReferenceKinds) THEN ReferencesOf(text, i) ELSE {}
  <2> TAKE i \in DOMAIN text
  <2>1. i \in Tags(text, ReferenceKinds) <=> text[i].kind \in ReferenceKinds
    BY DEF Tags
  <2>2. seqs[i] = IF text[i].kind \in ReferenceKinds THEN found(i) ELSE <<>>
    OBVIOUS
  <2>3. Elements(<<>>) = {}
    BY DEF Elements
  <2> HIDE DEF seqs
  <2> QED BY <1>2, <2>1, <2>2, <2>3
<1>6. FlattenSeq(seqs) \in Seq(S) /\ Elements(FlattenSeq(seqs)) = UNION {Elements(seqs[i]) : i \in DOMAIN text}
  <2> HIDE DEF seqs
  <2> QED BY <1>3, <1>4, TextElements
<1>7. UNION {Elements(seqs[i]) : i \in DOMAIN text} = UNION {ReferencesOf(text, i) : i \in Tags(text, ReferenceKinds)}
  <2> HIDE DEF seqs
  <2>1. Tags(text, ReferenceKinds) \subseteq DOMAIN text
    BY DEF Tags
  <2> QED BY <1>5, <2>1
<1> QED BY <1>1, <1>6, <1>7

\* Where a reference is: at one of the first six positions of its tag.
LEMMA ReferenceIs ==
  ASSUME NEW text, IsText(text), NEW r \in Elements(References(text))
  PROVE  \E i \in Tags(text, ReferenceKinds), k \in 1 .. 6 :
           /\ r \in ReferencesOf(text, i) /\ r = [name |-> Token(text[i], k), kind |-> r.kind, span |-> Name(i, k)]
           /\ r.name = Token(text[i], k) /\ r.span = Name(i, k)
           /\ r.kind = "function" => text[i].kind \in CallKinds /\ k = CalleeToken(text[i])
           /\ r.kind = "identifier" => text[i].kind \notin CallKinds /\ k = 1
<1>1. PICK i \in Tags(text, ReferenceKinds) : r \in ReferencesOf(text, i)
  BY ReferencesOfTags
<1>2. Len(text[i].names) \in Nat /\ Len(text[i].names) <= 5
  BY NamesFit DEF Tags
<1>3. CalleeToken(text[i]) \in 1 .. 6
  <2>1. CalleeToken(text[i]) \in {1, 2, Len(text[i].names) + 1}
    BY DEF CalleeToken
  <2> QED BY <1>2, <2>1
<1>4. CASE text[i].kind \in CallKinds
  <2>1. r = [name |-> Token(text[i], CalleeToken(text[i])), kind |-> "function", span |-> Name(i, CalleeToken(text[i]))]
    BY <1>1, <1>4 DEF ReferencesOf, Reference
  <2> PICK k : k = CalleeToken(text[i])
    OBVIOUS
  <2>2. /\ r = [name |-> Token(text[i], k), kind |-> r.kind, span |-> Name(i, k)]
        /\ r.name = Token(text[i], k) /\ r.span = Name(i, k) /\ r.kind = "function"
    BY <2>1
  <2> QED BY <1>1, <1>3, <1>4, <2>2
<1>5. CASE text[i].kind \notin CallKinds
  <2>1. \/ r = Reference(text, i, 1, "identifier")
        \/ /\ text[i].kind \in DOMAIN Qualified
           /\ r = Reference(text, i, IF text[i].kind = "get" THEN 2 ELSE 1, Qualified[text[i].kind])
    BY <1>1, <1>5 DEF ReferencesOf
  <2>2. \A kind \in DOMAIN Qualified : Qualified[kind] \in {"attribute", "filter", "test"}
    BY DEF Qualified
  <2>3. PICK k \in 1 .. 6, as \in {"identifier", "attribute", "filter", "test"} :
          /\ r = [name |-> Token(text[i], k), kind |-> as, span |-> Name(i, k)]
          /\ as = "identifier" => k = 1
    <3>1. CASE r = Reference(text, i, 1, "identifier")
      BY <3>1 DEF Reference
    <3>2. CASE /\ text[i].kind \in DOMAIN Qualified
               /\ r = Reference(text, i, IF text[i].kind = "get" THEN 2 ELSE 1, Qualified[text[i].kind])
      <4> PICK k \in 1 .. 6 : k = IF text[i].kind = "get" THEN 2 ELSE 1
        OBVIOUS
      <4> PICK as : as = Qualified[text[i].kind]
        OBVIOUS
      <4>1. r = [name |-> Token(text[i], k), kind |-> as, span |-> Name(i, k)]
        BY <3>2 DEF Reference
      <4>2. as \in {"attribute", "filter", "test"}
        BY <2>2, <3>2
      <4> QED BY <4>1, <4>2
    <3> QED BY <2>1, <3>1, <3>2
  <2>4. r.name = Token(text[i], k) /\ r.span = Name(i, k) /\ r.kind = as
    BY <2>3
  <2> QED BY <1>1, <1>5, <2>3, <2>4
<1> QED BY <1>4, <1>5

BindingKinds == {"set", "set_block", "for", "with", "trans", "call"}

\* The scope and the range of what a tag binds.
ScopeAt(text, regions, i) ==
  IF text[i].kind \in {"set", "set_block"} THEN ScopeForByte(regions, TagStart(i)) ELSE text[i].kind
RangeAt(text, regions, i) ==
  IF text[i].kind \in {"set", "set_block"} THEN SetRange(text, regions, i)
  ELSE IF text[i].kind \in {"for", "with"} THEN BodyRange(text, regions, i) ELSE NoSpan
VariableOf(text, regions, i, k) ==
  [name |-> text[i].names[k], scope |-> ScopeAt(text, regions, i), span |-> Name(i, k),
   validRange |-> RangeAt(text, regions, i)]
BoundBy(text, regions, chosen) ==
  [i \in DOMAIN text |-> IF i \in chosen THEN [k \in DOMAIN text[i].names |-> VariableOf(text, regions, i, k)] ELSE <<>>]
VariablesBy(text, regions, chosen) ==
  UNION {{VariableOf(text, regions, i, k) : k \in DOMAIN text[i].names} : i \in chosen}

\* What some tags bind.
LEMMA BoundByTags ==
  ASSUME NEW text, IsText(text), NEW regions, NEW chosen, chosen \subseteq DOMAIN text,
         NEW S, VariablesBy(text, regions, chosen) \subseteq S
  PROVE  /\ FlattenSeq(BoundBy(text, regions, chosen)) \in Seq(S)
         /\ Elements(FlattenSeq(BoundBy(text, regions, chosen))) = VariablesBy(text, regions, chosen)
<1> DEFINE seqs == BoundBy(text, regions, chosen)
           V(i) == {VariableOf(text, regions, i, k) : k \in DOMAIN text[i].names}
<1>1. ASSUME NEW i \in DOMAIN text
      PROVE  seqs[i] \in Seq(S) /\ Elements(seqs[i]) = IF i \in chosen THEN V(i) ELSE {}
  <2>1. CASE i \in chosen
    <3>1. PICK n \in Nat : DOMAIN text[i].names = 1 .. n
      BY NamesFit
    <3> PICK v : v = [k \in 1 .. n |-> VariableOf(text, regions, i, k)]
      OBVIOUS
    <3>2. seqs[i] = v
      BY <2>1, <3>1 DEF BoundBy
    <3>3. V(i) \subseteq S
      BY <2>1 DEF VariablesBy
    <3>4. \A k \in 1 .. n : VariableOf(text, regions, i, k) \in V(i)
      BY <3>1
    <3>5. v \in Seq(S)
      BY <3>3, <3>4
    <3>6. Elements(v) = V(i)
      BY <3>1 DEF Elements
    <3> HIDE DEF V, seqs
    <3> QED BY <2>1, <3>2, <3>5, <3>6
  <2>2. CASE i \notin chosen
    <3>1. seqs[i] = <<>>
      BY <2>2 DEF BoundBy
    <3> HIDE DEF V, seqs
    <3> QED BY <2>2, <3>1, FewElements
  <2> QED BY <2>1, <2>2
<1>2. DOMAIN seqs = DOMAIN text /\ seqs = [i \in DOMAIN text |-> seqs[i]]
  BY DEF BoundBy
<1> HIDE DEF seqs
<1>3. FlattenSeq(seqs) \in Seq(S) /\ Elements(FlattenSeq(seqs)) = UNION {Elements(seqs[i]) : i \in DOMAIN text}
  BY <1>1, <1>2, TextElements
<1>4. VariablesBy(text, regions, chosen) = UNION {V(i) : i \in chosen}
  BY DEF VariablesBy
<1>5. UNION {Elements(seqs[i]) : i \in DOMAIN text} = UNION {V(i) : i \in chosen}
  <2> HIDE DEF V
  <2> QED BY <1>1
<1> QED BY <1>3, <1>4, <1>5 DEF seqs

\* What the tags of a kind bind that yields one list.
LEMMA BindingsAre ==
  ASSUME NEW text, IsText(text), NEW regions
  PROVE  /\ SetBlockVariables(text, regions) = FlattenSeq(BoundBy(text, regions, Tags(text, {"set_block"})))
         /\ WithVariables(text, regions) = FlattenSeq(BoundBy(text, regions, Tags(text, {"with"})))
         /\ TransVariables(text) = FlattenSeq(BoundBy(text, regions, Tags(text, {"trans"})))
         /\ CallerArguments(text) = FlattenSeq(BoundBy(text, regions, Tags(text, {"call"})))
<1> DEFINE B(i, scope, range) == [k \in DOMAIN text[i].names |->
             [name |-> text[i].names[k], scope |-> scope, span |-> Name(i, k), validRange |-> range]]
<1>1. SetBlockVariables(text, regions) =
        FlattenSeq([i \in DOMAIN text |->
          IF text[i].kind \in {"set_block"} THEN B(i, ScopeForByte(regions, TagStart(i)), SetRange(text, regions, i)) ELSE <<>>])
  BY DEF SetBlockVariables, Bindings, Each
<1>2. WithVariables(text, regions) =
        FlattenSeq([i \in DOMAIN text |->
          IF text[i].kind \in {"with"} THEN B(i, "with", BodyRange(text, regions, i)) ELSE <<>>])
  BY DEF WithVariables, Bindings, Each
<1>3. TransVariables(text) =
        FlattenSeq([i \in DOMAIN text |-> IF text[i].kind \in {"trans"} THEN B(i, "trans", NoSpan) ELSE <<>>])
  BY DEF TransVariables, Bindings, Each
<1>4. CallerArguments(text) =
        FlattenSeq([i \in DOMAIN text |-> IF text[i].kind \in {"call"} THEN B(i, "call", NoSpan) ELSE <<>>])
  BY DEF CallerArguments, Bindings, Each
<1>5. \A i \in DOMAIN text :
        BoundBy(text, regions, Tags(text, {"set_block"}))[i]
          = IF text[i].kind \in {"set_block"} THEN B(i, ScopeForByte(regions, TagStart(i)), SetRange(text, regions, i)) ELSE <<>>
  BY DEF BoundBy, VariableOf, ScopeAt, RangeAt, Tags
<1>6. \A i \in DOMAIN text :
        BoundBy(text, regions, Tags(text, {"with"}))[i]
          = IF text[i].kind \in {"with"} THEN B(i, "with", BodyRange(text, regions, i)) ELSE <<>>
  BY DEF BoundBy, VariableOf, ScopeAt, RangeAt, Tags
<1>7. \A i \in DOMAIN text :
        BoundBy(text, regions, Tags(text, {"trans"}))[i]
          = IF text[i].kind \in {"trans"} THEN B(i, "trans", NoSpan) ELSE <<>>
  BY DEF BoundBy, VariableOf, ScopeAt, RangeAt, Tags
<1>8. \A i \in DOMAIN text :
        BoundBy(text, regions, Tags(text, {"call"}))[i]
          = IF text[i].kind \in {"call"} THEN B(i, "call", NoSpan) ELSE <<>>
  BY DEF BoundBy, VariableOf, ScopeAt, RangeAt, Tags
<1>9. \A chosen : BoundBy(text, regions, chosen) = [i \in DOMAIN text |-> BoundBy(text, regions, chosen)[i]]
  BY DEF BoundBy
<1> HIDE DEF B
<1>10. SetBlockVariables(text, regions) = FlattenSeq(BoundBy(text, regions, Tags(text, {"set_block"})))
  <2>1. BoundBy(text, regions, Tags(text, {"set_block"})) = [i \in DOMAIN text |->
          IF text[i].kind \in {"set_block"} THEN B(i, ScopeForByte(regions, TagStart(i)), SetRange(text, regions, i)) ELSE <<>>]
    BY <1>5, <1>9
  <2> QED BY <1>1, <2>1
<1>11. WithVariables(text, regions) = FlattenSeq(BoundBy(text, regions, Tags(text, {"with"})))
  <2>1. BoundBy(text, regions, Tags(text, {"with"})) = [i \in DOMAIN text |->
          IF text[i].kind \in {"with"} THEN B(i, "with", BodyRange(text, regions, i)) ELSE <<>>]
    BY <1>6, <1>9
  <2> QED BY <1>2, <2>1
<1>12. TransVariables(text) = FlattenSeq(BoundBy(text, regions, Tags(text, {"trans"})))
  <2>1. BoundBy(text, regions, Tags(text, {"trans"})) =
          [i \in DOMAIN text |-> IF text[i].kind \in {"trans"} THEN B(i, "trans", NoSpan) ELSE <<>>]
    BY <1>7, <1>9
  <2> QED BY <1>3, <2>1
<1>13. CallerArguments(text) = FlattenSeq(BoundBy(text, regions, Tags(text, {"call"})))
  <2>1. BoundBy(text, regions, Tags(text, {"call"})) =
          [i \in DOMAIN text |-> IF text[i].kind \in {"call"} THEN B(i, "call", NoSpan) ELSE <<>>]
    BY <1>8, <1>9
  <2> QED BY <1>4, <2>1
<1> QED BY <1>10, <1>11, <1>12, <1>13

\* What the tags of a kind bind that yields those that bind several names first.
LEMMA SeveralAre ==
  ASSUME NEW text, IsText(text), NEW regions
  PROVE  /\ SetVariables(text, regions) =
              FlattenSeq(BoundBy(text, regions, Unpacking(text, "set")))
              \o FlattenSeq(BoundBy(text, regions, Tags(text, {"set"}) \ Unpacking(text, "set")))
         /\ ForVariables(text, regions) =
              FlattenSeq(BoundBy(text, regions, Unpacking(text, "for")))
              \o FlattenSeq(BoundBy(text, regions, Tags(text, {"for"}) \ Unpacking(text, "for")))
<1> DEFINE O(chosen) == OnlyTags(text, chosen)
           B(chosen, i, scope, range) == [k \in DOMAIN O(chosen)[i].names |->
             [name |-> O(chosen)[i].names[k], scope |-> scope, span |-> Name(i, k), validRange |-> range]]
           SetSeqs(chosen) == [i \in DOMAIN O(chosen) |->
             IF O(chosen)[i].kind \in {"set"}
             THEN B(chosen, i, ScopeForByte(regions, TagStart(i)), SetRange(text, regions, i)) ELSE <<>>]
           ForSeqs(chosen) == [i \in DOMAIN O(chosen) |->
             IF O(chosen)[i].kind \in {"for"} THEN B(chosen, i, "for", BodyRange(text, regions, i)) ELSE <<>>]
<1>1. SetVariables(text, regions) =
        FlattenSeq(SetSeqs(Unpacking(text, "set"))) \o FlattenSeq(SetSeqs(Tags(text, {"set"}) \ Unpacking(text, "set")))
  BY DEF SetVariables, SeveralThenOne, Bindings, Each
<1>2. ForVariables(text, regions) =
        FlattenSeq(ForSeqs(Unpacking(text, "for"))) \o FlattenSeq(ForSeqs(Tags(text, {"for"}) \ Unpacking(text, "for")))
  BY DEF ForVariables, SeveralThenOne, Bindings, Each
<1>3. \A chosen : DOMAIN O(chosen) = DOMAIN text
        /\ \A i \in DOMAIN text : O(chosen)[i] = IF i \in chosen THEN text[i] ELSE Tag("other", <<>>)
  BY DEF OnlyTags
<1>4. Tag("other", <<>>).kind = "other"
  BY DEF Tag
<1> HIDE DEF O
<1>5. ASSUME NEW chosen, chosen \subseteq Tags(text, {"set"}) PROVE SetSeqs(chosen) = BoundBy(text, regions, chosen)
  <2>1. ASSUME NEW i \in DOMAIN text PROVE SetSeqs(chosen)[i] = BoundBy(text, regions, chosen)[i]
    <3>1. CASE i \in chosen
      <4>1. O(chosen)[i] = text[i] /\ text[i].kind = "set"
        BY <1>3, <1>5, <3>1 DEF Tags
      <4>2. SetSeqs(chosen)[i] = B(chosen, i, ScopeForByte(regions, TagStart(i)), SetRange(text, regions, i))
        BY <1>3, <4>1
      <4>3. B(chosen, i, ScopeForByte(regions, TagStart(i)), SetRange(text, regions, i))
              = [k \in DOMAIN text[i].names |-> VariableOf(text, regions, i, k)]
        BY <4>1 DEF VariableOf, ScopeAt, RangeAt
      <4>4. BoundBy(text, regions, chosen)[i] = [k \in DOMAIN text[i].names |-> VariableOf(text, regions, i, k)]
        BY <3>1 DEF BoundBy
      <4> QED BY <4>2, <4>3, <4>4
    <3>2. CASE i \notin chosen
      <4>1. O(chosen)[i].kind = "other"
        BY <1>3, <1>4, <3>2
      <4>2. SetSeqs(chosen)[i] = <<>>
        BY <1>3, <4>1
      <4>3. BoundBy(text, regions, chosen)[i] = <<>>
        BY <3>2 DEF BoundBy
      <4> QED BY <4>2, <4>3
    <3> QED BY <3>1, <3>2
  <2>2. /\ SetSeqs(chosen) = [i \in DOMAIN text |-> SetSeqs(chosen)[i]]
        /\ BoundBy(text, regions, chosen) = [i \in DOMAIN text |-> BoundBy(text, regions, chosen)[i]]
    BY <1>3 DEF BoundBy
  <2> HIDE DEF SetSeqs
  <2> QED BY <2>1, <2>2
<1>6. ASSUME NEW chosen, chosen \subseteq Tags(text, {"for"}) PROVE ForSeqs(chosen) = BoundBy(text, regions, chosen)
  <2>1. ASSUME NEW i \in DOMAIN text PROVE ForSeqs(chosen)[i] = BoundBy(text, regions, chosen)[i]
    <3>1. CASE i \in chosen
      <4>1. O(chosen)[i] = text[i] /\ text[i].kind = "for"
        BY <1>3, <1>6, <3>1 DEF Tags
      <4>2. ForSeqs(chosen)[i] = B(chosen, i, "for", BodyRange(text, regions, i))
        BY <1>3, <4>1
      <4>3. B(chosen, i, "for", BodyRange(text, regions, i))
              = [k \in DOMAIN text[i].names |-> VariableOf(text, regions, i, k)]
        BY <4>1 DEF VariableOf, ScopeAt, RangeAt
      <4>4. BoundBy(text, regions, chosen)[i] = [k \in DOMAIN text[i].names |-> VariableOf(text, regions, i, k)]
        BY <3>1 DEF BoundBy
      <4> QED BY <4>2, <4>3, <4>4
    <3>2. CASE i \notin chosen
      <4>1. O(chosen)[i].kind = "other"
        BY <1>3, <1>4, <3>2
      <4>2. ForSeqs(chosen)[i] = <<>>
        BY <1>3, <4>1
      <4>3. BoundBy(text, regions, chosen)[i] = <<>>
        BY <3>2 DEF BoundBy
      <4> QED BY <4>2, <4>3
    <3> QED BY <3>1, <3>2
  <2>2. /\ ForSeqs(chosen) = [i \in DOMAIN text |-> ForSeqs(chosen)[i]]
        /\ BoundBy(text, regions, chosen) = [i \in DOMAIN text |-> BoundBy(text, regions, chosen)[i]]
    BY <1>3 DEF BoundBy
  <2> HIDE DEF ForSeqs
  <2> QED BY <2>1, <2>2
<1>7. /\ Unpacking(text, "set") \subseteq Tags(text, {"set"})
      /\ Unpacking(text, "for") \subseteq Tags(text, {"for"})
  BY DEF Unpacking
<1> HIDE DEF SetSeqs, ForSeqs
<1> QED BY <1>1, <1>2, <1>5, <1>6, <1>7

\* The variables of a text.
LEMMA VariablesOfTags ==
  ASSUME NEW text, IsText(text), NEW regions
  PROVE  LET S == VariablesBy(text, regions, Tags(text, BindingKinds))
         IN  Variables(text, regions) \in Seq(S) /\ Elements(Variables(text, regions)) = S
<1> DEFINE V(chosen) == VariablesBy(text, regions, chosen)
           F(chosen) == FlattenSeq(BoundBy(text, regions, chosen))
           T(kind) == Tags(text, {kind})
           S == V(Tags(text, BindingKinds))
<1>1. ASSUME NEW chosen, chosen \subseteq Tags(text, BindingKinds)
      PROVE  F(chosen) \in Seq(S) /\ Elements(F(chosen)) = V(chosen)
  <2>1. V(chosen) \subseteq S /\ chosen \subseteq DOMAIN text
    BY <1>1 DEF VariablesBy, Tags
  <2> QED BY <2>1, BoundByTags
<1>2. /\ \A kind \in BindingKinds : T(kind) \subseteq Tags(text, BindingKinds)
      /\ Tags(text, BindingKinds) = UNION {T(kind) : kind \in BindingKinds}
      /\ \A kind : Unpacking(text, kind) \subseteq T(kind)
  BY DEF Tags, Unpacking
<1>3. \A A, B : V(A \cup B) = V(A) \cup V(B)
  BY DEF VariablesBy
<1>4. \A s : Elements(s) = ToSet(s)
  BY DEF Elements, ToSet
<1>5. ASSUME NEW kind \in {"set", "for"}
      PROVE  /\ F(Unpacking(text, kind)) \o F(T(kind) \ Unpacking(text, kind)) \in Seq(S)
             /\ Elements(F(Unpacking(text, kind)) \o F(T(kind) \ Unpacking(text, kind))) = V(T(kind))
  <2> DEFINE A == Unpacking(text, kind)
             B == T(kind) \ A
  <2>1. A \subseteq Tags(text, BindingKinds) /\ B \subseteq Tags(text, BindingKinds) /\ A \cup B = T(kind)
    BY <1>2 DEF BindingKinds
  <2> HIDE DEF A, B, F, V, T, S
  <2>2. F(A) \in Seq(S) /\ F(B) \in Seq(S) /\ Elements(F(A)) = V(A) /\ Elements(F(B)) = V(B)
    BY <1>1, <2>1
  <2>3. F(A) \o F(B) \in Seq(S) /\ ToSet(F(A) \o F(B)) = ToSet(F(A)) \cup ToSet(F(B))
    BY <2>2, ConcatElements
  <2>4. F(A) \o F(B) \in Seq(S) /\ Elements(F(A) \o F(B)) = V(T(kind))
    <3>1. V(T(kind)) = V(A) \cup V(B)
      BY <1>3, <2>1
    <3>2. Elements(F(A) \o F(B)) = ToSet(F(A) \o F(B)) /\ V(A) = ToSet(F(A)) /\ V(B) = ToSet(F(B))
      BY <1>4, <2>2
    <3> QED BY <2>3, <3>1, <3>2
  <2> QED BY <2>4 DEF A, B
<1> DEFINE a == SetVariables(text, regions)
           b == SetBlockVariables(text, regions)
           c == ForVariables(text, regions)
           d == WithVariables(text, regions)
           e == TransVariables(text)
           f == CallerArguments(text)
<1>6. /\ a \in Seq(S) /\ Elements(a) = V(T("set"))
      /\ c \in Seq(S) /\ Elements(c) = V(T("for"))
  BY <1>5, SeveralAre
<1>7. /\ b \in Seq(S) /\ Elements(b) = V(T("set_block"))
      /\ d \in Seq(S) /\ Elements(d) = V(T("with"))
      /\ e \in Seq(S) /\ Elements(e) = V(T("trans"))
      /\ f \in Seq(S) /\ Elements(f) = V(T("call"))
  <2>1. /\ b = F(T("set_block")) /\ d = F(T("with")) /\ e = F(T("trans")) /\ f = F(T("call"))
    BY BindingsAre
  <2>2. \A kind \in BindingKinds : F(T(kind)) \in Seq(S) /\ Elements(F(T(kind))) = V(T(kind))
    <3> HIDE DEF F, V, T, S
    <3> QED BY <1>1, <1>2
  <2> HIDE DEF F, V, T, S, b, d, e, f
  <2> QED BY <2>1, <2>2 DEF BindingKinds
<1>8. Variables(text, regions) = FlattenSeq(<<a, b, c, d, e, f>>)
  BY DEF Variables
<1> HIDE DEF a, b, c, d, e, f, F
<1> PICK seqs : seqs = <<a, b, c, d, e, f>>
  OBVIOUS
<1>9. /\ seqs \in Seq(Seq(S)) /\ DOMAIN seqs = 1 .. 6
      /\ seqs[1] = a /\ seqs[2] = b /\ seqs[3] = c /\ seqs[4] = d /\ seqs[5] = e /\ seqs[6] = f
  <2> HIDE DEF S
  <2> QED BY <1>6, <1>7
<1>10. FlattenSeq(seqs) \in Seq(S)
  BY <1>9, FlattenSeqType
<1>11. ToSet(FlattenSeq(seqs)) = UNION {ToSet(seqs[i]) : i \in DOMAIN seqs}
  <2> HIDE DEF S
  <2> QED BY <1>9, FlattenSeqElements
<1>12. UNION {ToSet(seqs[i]) : i \in DOMAIN seqs} = S
  <2>1. 1 .. 6 = {1, 2, 3, 4, 5, 6}
    OBVIOUS
  <2>2. UNION {ToSet(seqs[i]) : i \in DOMAIN seqs} = ToSet(a) \cup ToSet(b) \cup ToSet(c) \cup ToSet(d) \cup ToSet(e) \cup ToSet(f)
    <3> HIDE DEF S
    <3> QED BY <1>9, <2>1
  <2>3. S = V(T("set")) \cup V(T("set_block")) \cup V(T("for")) \cup V(T("with")) \cup V(T("trans")) \cup V(T("call"))
    <3>1. Tags(text, BindingKinds) = T("set") \cup T("set_block") \cup T("for") \cup T("with") \cup T("trans") \cup T("call")
      BY DEF Tags, BindingKinds
    <3>2. S = V(T("set") \cup T("set_block") \cup T("for") \cup T("with") \cup T("trans") \cup T("call"))
      BY <3>1
    <3> HIDE DEF V, T, S
    <3>3. V(T("set") \cup T("set_block")) = V(T("set")) \cup V(T("set_block"))
      BY <1>3
    <3>4. V(T("set") \cup T("set_block") \cup T("for")) = V(T("set") \cup T("set_block")) \cup V(T("for"))
      BY <1>3
    <3>5. V(T("set") \cup T("set_block") \cup T("for") \cup T("with"))
            = V(T("set") \cup T("set_block") \cup T("for")) \cup V(T("with"))
      BY <1>3
    <3>6. V(T("set") \cup T("set_block") \cup T("for") \cup T("with") \cup T("trans"))
            = V(T("set") \cup T("set_block") \cup T("for") \cup T("with")) \cup V(T("trans"))
      BY <1>3
    <3>7. V(T("set") \cup T("set_block") \cup T("for") \cup T("with") \cup T("trans") \cup T("call"))
            = V(T("set") \cup T("set_block") \cup T("for") \cup T("with") \cup T("trans")) \cup V(T("call"))
      BY <1>3
    <3> QED BY <3>2, <3>3, <3>4, <3>5, <3>6, <3>7
  <2> HIDE DEF S, V, T
  <2> QED BY <1>4, <1>6, <1>7, <2>2, <2>3
<1>13. Variables(text, regions) \in Seq(S) /\ Elements(Variables(text, regions)) = S
  BY <1>4, <1>8, <1>10, <1>11, <1>12
<1> QED BY <1>13

\* The only element of a set of one.
LEMMA OnlyIs == \A x : Only({x}) = x
BY DEF Only

\* The region of an exact scope.
LEMMA OwnRegion ==
  ASSUME NEW text, IsText(text), NEW p, IsPairing(text, p), NEW i \in Openers(text), IsExact(text, i),
         NEW R, R = Elements(BuildScopeRegions(text))
  PROVE  \E r \in R :
           /\ r.scope = text[i].kind /\ r.span = Span(TagEnd(i), TagStart(p[i]))
           /\ r.span.lo = TagEnd(i) /\ r.span.hi = TagStart(p[i])
           /\ \A s \in R : s.span.lo = TagEnd(i) => s = r
<1>1. PICK r \in R : r.span.lo = TagEnd(i)
  BY RegionsFound
<1>2. PICK h \in Openers(text), q \in DOMAIN text : IsRegion(text, r, h, q) /\ (IsExact(text, h) => q = p[h])
  BY RegionsFound
<1>3. r.span = Span(TagEnd(h), TagStart(q)) /\ r.span.lo = TagEnd(h) /\ r.span.hi = TagStart(q) /\ r.scope = text[h].kind
  BY <1>2 DEF IsRegion, Span
<1>4. h = i
  <2>1. h \in Nat /\ i \in Nat
    BY PairsAreNested
  <2> QED BY <1>1, <1>3, <2>1, TagEndsDiffer
<1>5. r.scope \in ExactKinds(text)
  BY <1>3, <1>4 DEF IsExact
<1>6. \A s \in R : s.span.lo = r.span.lo => s = r
  BY <1>5, RegionsFound
<1> QED BY <1>1, <1>2, <1>3, <1>4, <1>6

\* The body of a loop or with is its own.
LEMMA BodyIsOwn ==
  ASSUME NEW text, IsText(text), NEW p, IsPairing(text, p), NEW i \in Openers(text), text[i].kind \in {"for", "with"}
  PROVE  BodyRange(text, BuildScopeRegions(text), i) = Span(TagEnd(i), TagStart(p[i]))
<1> PICK R : R = Elements(BuildScopeRegions(text))
  OBVIOUS
<1> DEFINE own == {r \in R : r.scope = text[i].kind /\ r.span.lo = TagEnd(i)}
<1>1. IsExact(text, i)
  BY DEF IsExact, ExactKinds, ScopeKinds
<1>2. PICK r \in R :
           /\ r.scope = text[i].kind /\ r.span = Span(TagEnd(i), TagStart(p[i])) /\ r.span.lo = TagEnd(i)
           /\ \A s \in R : s.span.lo = TagEnd(i) => s = r
  BY <1>1, OwnRegion
<1>3. own = {r}
  BY <1>2
<1>4. Only(own).span = Span(TagEnd(i), TagStart(p[i]))
  BY <1>2, <1>3, OnlyIs
<1>5. BodyRange(text, BuildScopeRegions(text), i) = IF own = {} THEN Span(TagEnd(i), SourceEnd(text)) ELSE Only(own).span
  BY DEF BodyRange
<1> QED BY <1>3, <1>4, <1>5

\* The tag of an identifier.
LEMMA TagOfName ==
  ASSUME NEW i \in Nat, NEW k \in 1 .. 7
  PROVE  /\ TagOf(Name(i, k).lo) = i /\ Name(i, k).lo = 8 * i + k /\ Name(i, k).hi = 8 * i + k + 1
<1>1. Name(i, k).lo = 8 * i + k /\ Name(i, k).hi = 8 * i + k + 1
  BY DEF Name, Span, TagStart, Width
<1>2. (8 * i + k) \div 8 = i
  OBVIOUS
<1> QED BY <1>1, <1>2 DEF TagOf, Width

\* A variable of a template and its tag.
LEMMA VariableIs ==
  ASSUME NEW text, IsText(text), NEW regions, NEW v \in Elements(Variables(text, regions))
  PROVE  \E i \in Tags(text, BindingKinds) : \E k \in DOMAIN text[i].names :
           /\ v = VariableOf(text, regions, i, k) /\ v.name = text[i].names[k] /\ v.span = Name(i, k)
           /\ v.validRange = RangeAt(text, regions, i) /\ TagOf(v.span.lo) = i /\ i \in Nat /\ k \in 1 .. 5
<1>1. PICK i \in Tags(text, BindingKinds) : \E k \in DOMAIN text[i].names : v = VariableOf(text, regions, i, k)
  <2> PICK S : S = VariablesBy(text, regions, Tags(text, BindingKinds))
    OBVIOUS
  <2>1. v \in S
    BY VariablesOfTags
  <2> QED BY <2>1 DEF VariablesBy
<1>2. PICK k \in DOMAIN text[i].names : v = VariableOf(text, regions, i, k)
  BY <1>1
<1>3. v.name = text[i].names[k] /\ v.span = Name(i, k) /\ v.validRange = RangeAt(text, regions, i)
  BY <1>2 DEF VariableOf
<1>4. i \in DOMAIN text /\ i \in Nat
  BY DEF Tags, IsText
<1>5. k \in 1 .. 5
  <2>1. text[i].names \in Seq(STRING) /\ Len(text[i].names) \in Nat /\ Len(text[i].names) <= 5
    BY <1>4, NamesFit
  <2> QED BY <2>1
<1>6. k \in 1 .. 7
  BY <1>5
<1>7. TagOf(v.span.lo) = i
  BY <1>3, <1>4, <1>6, TagOfName
<1> QED BY <1>2, <1>3, <1>4, <1>5, <1>7

\* What the index has of a template.
LEMMA IndexIs ==
  ASSUME IInv, NEW k \in Templates
  PROVE  /\ IsText(texts[k]) /\ index[k] = Extract(texts[k])
         /\ index[k].variables = Variables(texts[k], BuildScopeRegions(texts[k]))
         /\ index[k].references = References(texts[k])
         /\ index[k].macros = Macros(texts[k])
         /\ index[k].blocks = Blocks(texts[k], BuildScopeRegions(texts[k]))
<1>1. IsText(texts[k]) /\ index[k] = Extract(texts[k])
  BY DEF IInv, IsProject
<1> QED BY <1>1 DEF Extract

\* Loops keep their body.
LEMMA ProjectKeepsLoops == IInv => LoopsKeepTheirBody
<1> SUFFICES ASSUME IInv, NEW k \in Templates, WellNested(texts[k]), Readable(texts[k]),
                    NEW v \in Elements(index[k].variables),
                    NEW i, i = TagOf(v.span.lo), texts[k][i].kind \in {"for", "with"}
             PROVE  v.validRange = Span(TagEnd(i), TagStart(Partner(texts[k], i)))
  BY DEF LoopsKeepTheirBody
<1> PICK text : text = texts[k]
  OBVIOUS
<1>1. IsText(text) /\ v \in Elements(Variables(text, BuildScopeRegions(text)))
  BY IndexIs
<1>2. PICK p : IsPairing(text, p)
  BY <1>1, PairsOf
<1>3. i \in Tags(text, BindingKinds) /\ v.validRange = RangeAt(text, BuildScopeRegions(text), i)
  BY <1>1, VariableIs
<1>4. i \in Openers(text)
  BY <1>3 DEF Openers, Tags, ScopeKinds
<1>5. v.validRange = BodyRange(text, BuildScopeRegions(text), i)
  BY <1>3 DEF RangeAt
<1>6. v.validRange = Span(TagEnd(i), TagStart(p[i]))
  BY <1>1, <1>2, <1>4, <1>5, BodyIsOwn
<1>7. p[i] = Partner(text, i)
  BY <1>2, <1>4 DEF IsPairing
<1> QED BY <1>6, <1>7

\* In a text without error nodes every scope is exact.
LEMMA AllAreExact ==
  ASSUME NEW text, Intact(text), NEW i \in Openers(text)
  PROVE  IsExact(text, i)
<1>1. Tags(text, {"named_endblock"}) = {}
  BY DEF Intact, Tags, ErrorKinds
<1> QED BY <1>1 DEF IsExact, ExactKinds, Openers, Tags

\* Where a tag stands there is an innermost scope around it, or none.
LEMMA InnermostAround ==
  ASSUME NEW text, IsText(text), NEW p, IsPairing(text, p), NEW i \in DOMAIN text
  PROVE  /\ Around(text, i) = {h \in Openers(text) : h < i /\ i < p[h]}
         /\ Around(text, i) # {} => \E o \in Around(text, i) : \A h \in Around(text, i) : h <= o /\ p[o] <= p[h]
<1>1. PICK n \in Nat : DOMAIN text = 1 .. n
  BY DEF IsText
<1>2. Around(text, i) = {h \in Openers(text) : h < i /\ i < p[h]}
  BY DEF Around, IsPairing
<1>3. \A h \in Openers(text) : h \in Nat /\ p[h] \in Nat /\ h \in DOMAIN text
  BY PairsAreNested DEF Openers, Tags
<1>4. Around(text, i) \in SUBSET (0 .. n)
  BY <1>1, <1>2, <1>3
<1>5. ASSUME Around(text, i) # {}
      PROVE  \E o \in Around(text, i) : \A h \in Around(text, i) : h <= o /\ p[o] <= p[h]
  <2>1. PICK o \in Around(text, i) : \A h \in Around(text, i) : h <= o
    BY <1>4, <1>5, GreatestExists
  <2>2. ASSUME NEW h \in Around(text, i) PROVE p[o] <= p[h]
    <3>1. h \in Openers(text) /\ o \in Openers(text) /\ h < i /\ i < p[h] /\ o < i /\ i < p[o] /\ h <= o
      BY <1>2, <2>1
    <3>2. h < o => p[o] < p[h]
      <4>1. o < p[h]
        BY <1>1, <1>3, <3>1
      <4> QED BY <3>1, <4>1, PairsAreNested
    <3> QED BY <1>3, <3>1, <3>2
  <2> QED BY <2>1, <2>2
<1> QED BY <1>2, <1>5

\* The enclosing region of a tag that opens nothing is that of the innermost scope around it.
LEMMA EnclosingIs ==
  ASSUME NEW text, IsText(text), Intact(text), NEW p, IsPairing(text, p), NEW i \in DOMAIN text, i \notin Openers(text)
  PROVE  /\ Around(text, i) = {} => EnclosingRegion(BuildScopeRegions(text), TagEnd(i)) = {}
         /\ \A o \in Around(text, i) : (\A h \in Around(text, i) : h <= o) =>
              \E r : EnclosingRegion(BuildScopeRegions(text), TagEnd(i)) = {r} /\ r.span.hi = TagStart(p[o])
<1> PICK R : R = Elements(BuildScopeRegions(text))
  OBVIOUS
<1> DEFINE around == {r \in R : ByteIn(TagEnd(i), r.span)}
<1>1. EnclosingRegion(BuildScopeRegions(text), TagEnd(i)) = {r \in around : \A q \in around : q.depth <= r.depth}
  BY DEF EnclosingRegion
<1>2. Around(text, i) = {h \in Openers(text) : h < i /\ i < p[h]}
  BY InnermostAround
<1>3. i \in Nat /\ \A h \in Openers(text) : h \in Nat /\ p[h] \in Nat /\ IsExact(text, h)
  BY PairsAreNested, AllAreExact DEF IsText
<1>4. ASSUME NEW r \in R
      PROVE  \E h \in Openers(text) :
               r.span.lo = TagEnd(h) /\ r.span.hi = TagStart(p[h]) /\ r.scope \in ExactKinds(text) /\ r.depth \in Nat
  <2>1. PICK h \in Openers(text), q \in DOMAIN text : IsRegion(text, r, h, q) /\ (IsExact(text, h) => q = p[h])
    BY RegionsFound
  <2>2. r.span.lo = TagEnd(h) /\ r.span.hi = TagStart(p[h]) /\ r.scope = text[h].kind
    BY <1>3, <2>1 DEF IsRegion, Span
  <2>3. r.depth \in Nat
    BY RegionsFound DEF RegionSet
  <2> QED BY <1>3, <2>2, <2>3 DEF IsExact
<1>5. ASSUME NEW r \in R, NEW h \in Openers(text), r.span.lo = TagEnd(h), r.span.hi = TagStart(p[h])
      PROVE  ByteIn(TagEnd(i), r.span) <=> h \in Around(text, i)
  <2>1. h # i
    OBVIOUS
  <2>2. TagEnd(h) <= TagEnd(i) <=> h < i
    BY <1>3, <2>1 DEF TagEnd, Width
  <2>3. TagEnd(i) < TagStart(p[h]) <=> i < p[h]
    BY <1>3, TagEndsDiffer
  <2> QED BY <1>2, <1>5, <2>2, <2>3 DEF ByteIn
<1>6. ASSUME Around(text, i) = {} PROVE around = {}
  BY <1>4, <1>5, <1>6
<1>7. ASSUME NEW o \in Around(text, i), \A h \in Around(text, i) : h <= o
      PROVE  \E r : EnclosingRegion(BuildScopeRegions(text), TagEnd(i)) = {r} /\ r.span.hi = TagStart(p[o])
  <2>1. o \in Openers(text) /\ o < i /\ i < p[o]
    BY <1>2
  <2>2. PICK r \in R :
           /\ r.span.lo = TagEnd(o) /\ r.span.hi = TagStart(p[o])
           /\ \A s \in R : s.span.lo = TagEnd(o) => s = r
    BY <1>3, <2>1, OwnRegion
  <2>3. r \in around
    BY <1>5, <1>7, <2>1, <2>2
  <2>4. ASSUME NEW s \in around, s # r PROVE s.depth < r.depth
    <3>1. PICK h \in Openers(text) : s.span.lo = TagEnd(h) /\ s.span.hi = TagStart(p[h]) /\ s.scope \in ExactKinds(text)
      BY <1>4
    <3>2. h \in Around(text, i) /\ h <= o /\ h # o
      BY <1>5, <1>7, <2>2, <2>4, <3>1
    <3>3. h < o /\ o < p[h]
      BY <1>2, <1>3, <2>1, <3>2
    <3>4. s.span.lo < r.span.lo /\ r.span.lo < s.span.hi
      BY <1>3, <2>1, <2>2, <3>1, <3>3, TagEndsDiffer
    <3>5. r.scope \in ExactKinds(text)
      BY <1>4
    <3>6. \A a, b \in R :
            /\ a.scope \in ExactKinds(text) /\ b.scope \in ExactKinds(text)
            /\ a.span.lo < b.span.lo /\ b.span.lo < a.span.hi
            => a.depth < b.depth
      BY RegionsFound
    <3> QED BY <3>1, <3>4, <3>5, <3>6
  <2>5. \A s \in around : s.depth \in Nat
    BY <1>4
  <2>6. {s \in around : \A q \in around : q.depth <= s.depth} = {r}
    <3> HIDE DEF around
    <3>1. \A q \in around : q.depth <= r.depth
      BY <2>3, <2>4, <2>5
    <3>2. \A s \in around : s # r => ~(r.depth <= s.depth)
      BY <2>3, <2>4, <2>5
    <3> QED BY <2>3, <3>1, <3>2
  <2> QED BY <1>1, <2>2, <2>6
<1> HIDE DEF around
<1> QED BY <1>1, <1>6, <1>7

LiveKinds == {"set", "set_block", "for", "with"}

\* q is where what tag i binds ends: at the end of its own body, or of the innermost scope around it.
EndsAt(text, p, i, q) ==
  /\ q \in Nat /\ q <= Len(text) + 1 /\ i < q
  /\ IF text[i].kind \in {"for", "with"} THEN q = p[i]
     ELSE IF Around(text, i) = {} THEN q = Len(text) + 1
     ELSE \E o \in Around(text, i) : q = p[o] /\ \A h \in Around(text, i) : h <= o /\ p[o] <= p[h]

\* A binding has a range up to there.
LEMMA RangeEnds ==
  ASSUME NEW text, IsText(text), Intact(text), NEW p, IsPairing(text, p), NEW i \in Tags(text, LiveKinds)
  PROVE  \E q : EndsAt(text, p, i, q) /\ RangeAt(text, BuildScopeRegions(text), i) = Span(TagEnd(i), TagStart(q))
<1>1. PICK n \in Nat : DOMAIN text = 1 .. n /\ Len(text) = n
  BY DEF IsText
<1>2. i \in 1 .. n /\ text[i].kind \in LiveKinds
  BY <1>1 DEF Tags
<1>3. \A h \in Openers(text) : p[h] \in 1 .. n /\ h < p[h]
  BY <1>1, PairsAreNested
<1>4. CASE text[i].kind \in {"for", "with"}
  <2>1. i \in Openers(text)
    BY <1>1, <1>2, <1>4 DEF Openers, Tags, ScopeKinds
  <2>2. RangeAt(text, BuildScopeRegions(text), i) = Span(TagEnd(i), TagStart(p[i]))
    <3>1. RangeAt(text, BuildScopeRegions(text), i) = BodyRange(text, BuildScopeRegions(text), i)
      BY <1>4 DEF RangeAt
    <3> QED BY <1>4, <2>1, <3>1, BodyIsOwn
  <2>3. EndsAt(text, p, i, p[i])
    <3>1. p[i] \in Nat /\ p[i] <= n + 1 /\ i < p[i]
      BY <1>1, <1>3, <2>1
    <3> QED BY <1>1, <1>4, <3>1 DEF EndsAt
  <2> QED BY <2>2, <2>3
<1>5. CASE text[i].kind \in {"set", "set_block"}
  <2>1. i \notin Openers(text)
    BY <1>5 DEF Openers, Tags, ScopeKinds
  <2> DEFINE around == EnclosingRegion(BuildScopeRegions(text), TagEnd(i))
  <2>2. RangeAt(text, BuildScopeRegions(text), i)
          = Span(TagEnd(i), IF around = {} THEN SourceEnd(text) ELSE Only(around).span.hi)
    BY <1>5 DEF RangeAt, SetRange
  <2>3. text[i].kind \notin {"for", "with"}
    BY <1>5
  <2>4. CASE Around(text, i) = {}
    <3>1. around = {}
      BY <1>1, <1>2, <2>1, <2>4, EnclosingIs
    <3>2. SourceEnd(text) = TagStart(n + 1)
      BY <1>1 DEF SourceEnd, TagStart
    <3>3. EndsAt(text, p, i, n + 1)
      <4>1. n + 1 \in Nat /\ i < n + 1
        BY <1>1, <1>2
      <4> QED BY <1>1, <2>3, <2>4, <4>1 DEF EndsAt
    <3> HIDE DEF around
    <3> QED BY <2>2, <3>1, <3>2, <3>3
  <2>5. CASE Around(text, i) # {}
    <3>1. PICK o \in Around(text, i) : \A h \in Around(text, i) : h <= o /\ p[o] <= p[h]
      BY <1>1, <1>2, <2>5, InnermostAround
    <3>2. PICK r : around = {r} /\ r.span.hi = TagStart(p[o])
      BY <1>1, <1>2, <2>1, <3>1, EnclosingIs
    <3>3. Only(around) = r /\ around # {}
      BY <3>2, OnlyIs
    <3>4. o \in Openers(text) /\ i < p[o]
      BY <1>1, <1>2, InnermostAround
    <3>5. EndsAt(text, p, i, p[o])
      <4>1. p[o] \in Nat /\ p[o] <= n + 1
        BY <1>1, <1>3, <3>4
      <4> QED BY <1>1, <2>3, <2>5, <3>1, <3>4, <4>1 DEF EndsAt
    <3> HIDE DEF around
    <3> QED BY <2>2, <3>2, <3>3, <3>5
  <2> QED BY <2>4, <2>5
<1> QED BY <1>2, <1>4, <1>5 DEF LiveKinds

\* It is live up to there.
LEMMA LiveIs ==
  ASSUME NEW text, IsText(text), NEW p, IsPairing(text, p), NEW i \in Tags(text, LiveKinds),
         NEW q, EndsAt(text, p, i, q), NEW use \in DOMAIN text
  PROVE  LiveAt(text, i, use) <=> i < use /\ use < q
<1>1. PICK n \in Nat : DOMAIN text = 1 .. n /\ Len(text) = n
  BY DEF IsText
<1>2. use \in 1 .. n /\ i \in DOMAIN text /\ text[i].kind \in LiveKinds
  BY <1>1 DEF Tags
<1>3. \A h \in Openers(text) : p[h] = Partner(text, h) /\ p[h] \in Nat
  BY PairsAreNested DEF IsPairing
<1>4. CASE text[i].kind \in {"for", "with"}
  <2>1. i \in Openers(text)
    BY <1>2, <1>4 DEF Openers, Tags, ScopeKinds
  <2>2. q = p[i]
    BY <1>4 DEF EndsAt
  <2> QED BY <1>3, <1>4, <2>1, <2>2 DEF LiveAt
<1>5. CASE text[i].kind \notin {"for", "with"} /\ Around(text, i) = {}
  <2>1. q = n + 1
    BY <1>1, <1>5 DEF EndsAt
  <2>2. use < q
    BY <1>1, <1>2, <2>1
  <2> QED BY <1>5, <2>2 DEF LiveAt
<1>6. CASE text[i].kind \notin {"for", "with"} /\ Around(text, i) # {}
  <2>1. PICK o \in Around(text, i) : q = p[o] /\ \A h \in Around(text, i) : p[o] <= p[h]
    BY <1>6 DEF EndsAt
  <2>2. Around(text, i) \subseteq Openers(text)
    BY DEF Around
  <2>3. (\A h \in Around(text, i) : use < Partner(text, h)) <=> use < q
    BY <1>1, <1>2, <1>3, <2>1, <2>2
  <2> QED BY <1>6, <2>3 DEF LiveAt
<1> QED BY <1>4, <1>5, <1>6

\* What is bound later, while a binding is live, ends no later.
LEMMA LaterEndsSooner ==
  ASSUME NEW text, IsText(text), NEW p, IsPairing(text, p), NEW i \in Tags(text, LiveKinds), NEW h \in Tags(text, LiveKinds),
         NEW q, EndsAt(text, p, i, q), NEW e, EndsAt(text, p, h, e), i < h, h < q
  PROVE  e <= q
<1>1. PICK n \in Nat : DOMAIN text = 1 .. n /\ Len(text) = n
  BY DEF IsText
<1>2. i \in 1 .. n /\ h \in 1 .. n /\ text[i].kind \in LiveKinds /\ text[h].kind \in LiveKinds
  BY <1>1 DEF Tags
<1>3. q \in Nat /\ e \in Nat /\ e <= n + 1
  BY <1>1 DEF EndsAt
<1>4. ASSUME NEW o \in Openers(text), q = p[o], o < h PROVE e <= q
  <2>1. o \in Nat /\ p[o] \in Nat
    BY PairsAreNested
  <2>2. CASE text[h].kind \in {"for", "with"}
    <3>1. h \in Openers(text) /\ e = p[h]
      BY <1>1, <1>2, <2>2 DEF EndsAt, Openers, Tags, ScopeKinds
    <3>2. p[h] < p[o]
      BY <1>4, <3>1, PairsAreNested
    <3> QED BY <1>3, <1>4, <3>1, <3>2
  <2>3. CASE text[h].kind \notin {"for", "with"}
    <3>1. o \in Around(text, h)
      BY <1>1, <1>2, <1>4, InnermostAround
    <3>2. \E g \in Around(text, h) : e = p[g] /\ \A a \in Around(text, h) : p[g] <= p[a]
      BY <2>3, <3>1 DEF EndsAt
    <3> QED BY <1>4, <3>1, <3>2
  <2> QED BY <2>2, <2>3
<1>5. CASE text[i].kind \in {"for", "with"}
  <2>1. i \in Openers(text) /\ q = p[i]
    BY <1>1, <1>2, <1>5 DEF EndsAt, Openers, Tags, ScopeKinds
  <2> QED BY <1>4, <2>1
<1>6. CASE text[i].kind \notin {"for", "with"} /\ Around(text, i) = {}
  <2>1. q = n + 1
    BY <1>1, <1>6 DEF EndsAt
  <2> QED BY <1>3, <2>1
<1>7. CASE text[i].kind \notin {"for", "with"} /\ Around(text, i) # {}
  <2>1. PICK o \in Around(text, i) : q = p[o]
    BY <1>7 DEF EndsAt
  <2>2. o \in Openers(text) /\ o < i
    BY DEF Around
  <2>3. o < h
    <3>1. o \in Nat
      BY <2>2, PairsAreNested
    <3> QED BY <1>2, <2>2, <3>1
  <2> QED BY <1>4, <2>1, <2>2, <2>3
<1> QED BY <1>5, <1>6, <1>7

\* The first of some places of a list is one of them.
LEMMA SomeIs ==
  ASSUME NEW S, NEW list \in Seq(S), NEW hits, hits \subseteq DOMAIN list, hits # {},
         NEW X, X = {list[i] : i \in {j \in hits : \A h \in hits : j <= h}}
  PROVE  \E i \in hits : X = {list[i]} /\ list[i] \in Elements(list) /\ \A h \in hits : i <= h
<1>1. hits \in SUBSET Nat
  OBVIOUS
<1>2. PICK i \in hits : \A h \in hits : i <= h
  BY <1>1, LeastExists
<1>3. \A j \in hits : (\A h \in hits : j <= h) => j = i
  BY <1>1, <1>2
<1>4. X = {list[i]}
  BY <1>2, <1>3
<1> QED BY <1>2, <1>4 DEF Elements

\* The smallest of some ranges.
LEMMA SmallestExists ==
  ASSUME NEW binders, NEW S, binders \in Seq(S), NEW C, C # {}, C \subseteq Elements(binders),
         \A v \in C : Length(v.validRange) \in Nat
  PROVE  \E v \in C : \A w \in C : Length(v.validRange) <= Length(w.validRange)
<1> DEFINE L == {Length(v.validRange) : v \in C}
<1>1. L \in SUBSET Nat /\ L # {}
  OBVIOUS
<1>2. PICK l \in L : \A m \in L : l <= m
  <2> HIDE DEF L
  <2> QED BY <1>1, LeastExists
<1> QED BY <1>2

\* The innermost binding of a use is one of the smallest of those that cover it.
LEMMA InnermostIs ==
  ASSUME NEW facts, NEW S, facts.variables \in Seq(S), NEW ref, NEW C,
         C = {v \in Elements(facts.variables) : v.name = ref.name /\ Covers(v.validRange, ref.span)},
         \A v \in C : Length(v.validRange) \in Nat
  PROVE  /\ C = {} => InnermostBinding(facts, ref) = {}
         /\ C # {} => \E v \in C : /\ InnermostBinding(facts, ref) = {v}
                                   /\ \A w \in C : Length(v.validRange) <= Length(w.validRange)
<1> DEFINE binders == facts.variables
           P(v) == v.name = ref.name /\ Covers(v.validRange, ref.span)
           hits == {i \in DOMAIN binders : P(binders[i]) /\ \A y \in Elements(binders) : P(y) => Length(binders[i].validRange) <= Length(y.validRange)}
<1>1. InnermostBinding(facts, ref) = {binders[i] : i \in {j \in hits : \A h \in hits : j <= h}}
  BY Zenon DEF InnermostBinding, SmallestFirst, Some
<1>2. hits = {i \in DOMAIN binders : binders[i] \in C /\ \A w \in C : Length(binders[i].validRange) <= Length(w.validRange)}
  BY DEF Elements
<1> HIDE DEF hits
<1>3. CASE C = {}
  <2>1. hits = {}
    BY <1>2, <1>3
  <2> QED BY <1>1, <1>3, <2>1
<1>4. CASE C # {}
  <2>1. PICK v \in C : \A w \in C : Length(v.validRange) <= Length(w.validRange)
    BY <1>4, SmallestExists
  <2>2. PICK i \in DOMAIN binders : binders[i] = v
    BY DEF Elements
  <2>3. hits # {} /\ hits \subseteq DOMAIN binders
    BY <1>2, <2>1, <2>2
  <2>4. PICK list : list = binders
    OBVIOUS
  <2>5. list \in Seq(S) /\ hits \subseteq DOMAIN list
    BY <2>3, <2>4
  <2>6. PICK H : H = hits
    OBVIOUS
  <2>7. PICK X : X = {list[q] : q \in {j \in H : \A h \in H : j <= h}}
    OBVIOUS
  <2>9. \E j \in H : X = {list[j]} /\ list[j] \in Elements(list) /\ \A h \in H : j <= h
    <3> HIDE DEF binders
    <3>1. H # {} /\ H \subseteq DOMAIN list
      BY <2>3, <2>5, <2>6
    <3> QED BY Zenon, <2>5, <2>7, <3>1, SomeIs
  <2>10. PICK j \in hits : X = {list[j]}
    BY <2>6, <2>9
  <2>8. InnermostBinding(facts, ref) = {binders[j]}
    BY <1>1, <2>4, <2>6, <2>7, <2>10
  <2> QED BY <1>2, <1>4, <2>10, <2>8
<1> QED BY <1>3, <1>4

\* The length of what a binding covers is a number.
LEMMA RangesAreSpans ==
  ASSUME NEW text, IsText(text), Intact(text), NEW p, IsPairing(text, p),
         NEW v \in Elements(Variables(text, BuildScopeRegions(text)))
  PROVE  /\ Length(v.validRange) \in Nat
         /\ \E i \in Tags(text, BindingKinds) :
              /\ TagOf(v.span.lo) = i /\ v.name \in Elements(text[i].names)
              /\ \/ i \in Tags(text, LiveKinds)
                    /\ \E q : EndsAt(text, p, i, q) /\ v.validRange = Span(TagEnd(i), TagStart(q))
                 \/ i \notin Tags(text, LiveKinds) /\ v.validRange = NoSpan
<1>1. PICK i \in Tags(text, BindingKinds) : \E k \in DOMAIN text[i].names :
        /\ v.name = text[i].names[k] /\ v.validRange = RangeAt(text, BuildScopeRegions(text), i) /\ TagOf(v.span.lo) = i
        /\ i \in Nat
  BY VariableIs
<1>2. v.name \in Elements(text[i].names)
  BY <1>1 DEF Elements
<1>3. CASE i \in Tags(text, LiveKinds)
  <2>1. PICK q : EndsAt(text, p, i, q) /\ v.validRange = Span(TagEnd(i), TagStart(q))
    BY <1>1, <1>3, RangeEnds
  <2>2. Length(v.validRange) \in Nat
    <3>1. q \in Nat
      BY <2>1 DEF EndsAt
    <3>2. TagEnd(i) \in Nat /\ TagStart(q) \in Nat
      BY <1>1, <3>1 DEF TagEnd, TagStart, Width
    <3> QED BY <2>1, <3>2 DEF Length, Span
  <2> QED BY <1>1, <1>2, <1>3, <2>1, <2>2
<1>4. CASE i \notin Tags(text, LiveKinds)
  <2>1. text[i].kind \notin LiveKinds
    BY <1>4 DEF Tags
  <2>2. v.validRange = NoSpan
    BY <1>1, <2>1 DEF RangeAt, LiveKinds
  <2>3. Length(v.validRange) = 0
    BY <2>2 DEF NoSpan, Length, Span
  <2> QED BY <1>1, <1>2, <1>4, <2>2, <2>3
<1> QED BY <1>3, <1>4

\* A binding covers a use when it is live there.
LEMMA CoversIfLive ==
  ASSUME NEW text, IsText(text), NEW p, IsPairing(text, p), NEW i \in Tags(text, LiveKinds),
         NEW q, EndsAt(text, p, i, q), NEW use \in DOMAIN text, NEW k \in 1 .. 6
  PROVE  Covers(Span(TagEnd(i), TagStart(q)), Name(use, k)) <=> LiveAt(text, i, use)
<1>1. i \in Nat /\ use \in Nat /\ q \in Nat /\ i < q
  BY DEF Tags, IsText, EndsAt
<1>2. LiveAt(text, i, use) <=> i < use /\ use < q
  BY LiveIs
<1>3. Name(use, k).lo = 8 * use + k /\ Name(use, k).hi = 8 * use + k + 1
  BY <1>1, TagOfName, k \in 1 .. 7
<1>4. TagEnd(i) = 8 * i + 7 /\ TagStart(q) = 8 * q
  BY DEF TagEnd, TagStart, Width
<1>5. 8 * i + 7 < 8 * q /\ (8 * i + 7 <= 8 * use + k <=> i < use) /\ (8 * use + k + 1 <= 8 * q <=> use < q)
  BY <1>1
<1> HIDE DEF Covers
<1>6. Covers(Span(TagEnd(i), TagStart(q)), Name(use, k)) <=>
        TagEnd(i) < TagStart(q) /\ TagEnd(i) <= Name(use, k).lo /\ Name(use, k).hi <= TagStart(q)
  BY DEF Covers, NonEmpty, Span
<1> QED BY <1>2, <1>3, <1>4, <1>5, <1>6

\* The tags that bind a name which is live at a use.
LiveTags(text, use, name) == {i \in Tags(text, LiveKinds) : name \in Elements(text[i].names) /\ LiveAt(text, i, use)}

\* What binds a use is bound by a tag that is live there, up to where that ends.
LEMMA CandidateIsLive ==
  ASSUME NEW text, IsText(text), Intact(text), NEW p, IsPairing(text, p), NEW use \in DOMAIN text, NEW k \in 1 .. 6,
         NEW v \in Elements(Variables(text, BuildScopeRegions(text))), Covers(v.validRange, Name(use, k))
  PROVE  /\ TagOf(v.span.lo) \in LiveTags(text, use, v.name)
         /\ \E q : EndsAt(text, p, TagOf(v.span.lo), q) /\ v.validRange = Span(TagEnd(TagOf(v.span.lo)), TagStart(q))
<1>1. PICK i \in Tags(text, BindingKinds) :
              /\ TagOf(v.span.lo) = i /\ v.name \in Elements(text[i].names)
              /\ \/ i \in Tags(text, LiveKinds)
                    /\ \E q : EndsAt(text, p, i, q) /\ v.validRange = Span(TagEnd(i), TagStart(q))
                 \/ i \notin Tags(text, LiveKinds) /\ v.validRange = NoSpan
  BY RangesAreSpans
<1>2. v.validRange # NoSpan
  BY DEF Covers, NonEmpty, NoSpan, Span
<1>3. PICK q : i \in Tags(text, LiveKinds) /\ EndsAt(text, p, i, q) /\ v.validRange = Span(TagEnd(i), TagStart(q))
  BY <1>1, <1>2
<1>4. LiveAt(text, i, use)
  BY <1>3, CoversIfLive
<1> QED BY <1>1, <1>3, <1>4 DEF LiveTags

\* What a live tag binds covers the use.
LEMMA LiveIsCandidate ==
  ASSUME NEW text, IsText(text), Intact(text), NEW p, IsPairing(text, p), NEW use \in DOMAIN text, NEW k \in 1 .. 6,
         NEW name, NEW i \in LiveTags(text, use, name)
  PROVE  \E v \in Elements(Variables(text, BuildScopeRegions(text))) :
           v.name = name /\ Covers(v.validRange, Name(use, k)) /\ TagOf(v.span.lo) = i
<1>1. i \in Tags(text, LiveKinds) /\ LiveAt(text, i, use) /\ i \in Tags(text, BindingKinds)
  BY DEF LiveTags, Tags, LiveKinds, BindingKinds
<1>2. PICK l \in DOMAIN text[i].names : text[i].names[l] = name
  BY DEF LiveTags, Elements
<1> PICK regions : regions = BuildScopeRegions(text)
  OBVIOUS
<1>3. PICK v : v = VariableOf(text, regions, i, l)
  OBVIOUS
<1>4. v.name = name /\ v.span = Name(i, l) /\ v.validRange = RangeAt(text, regions, i)
  BY <1>2, <1>3 DEF VariableOf
<1>5. v \in Elements(Variables(text, regions))
  <2> PICK S : S = VariablesBy(text, regions, Tags(text, BindingKinds))
    OBVIOUS
  <2>1. v \in S
    BY <1>1, <1>2, <1>3 DEF VariablesBy
  <2> QED BY <2>1, VariablesOfTags
<1>6. PICK q : EndsAt(text, p, i, q) /\ v.validRange = Span(TagEnd(i), TagStart(q))
  BY <1>1, <1>4, RangeEnds
<1>7. Covers(v.validRange, Name(use, k))
  BY <1>1, <1>6, CoversIfLive
<1>8. TagOf(v.span.lo) = i
  <2>1. i \in DOMAIN text /\ i \in Nat
    BY <1>1 DEF Tags, IsText
  <2>2. l \in 1 .. 7
    <3>1. text[i].names \in Seq(STRING) /\ Len(text[i].names) \in Nat /\ Len(text[i].names) <= 5
      BY <2>1, NamesFit
    <3>2. l \in 1 .. Len(text[i].names)
      BY <3>1
    <3> QED BY <3>1, <3>2
  <2> QED BY <1>4, <2>1, <2>2, TagOfName
<1> QED BY <1>4, <1>5, <1>7, <1>8

\* What binds a use is bound by the latest of the tags that are live there.
IsLatestBinding(text, facts, r, use) ==
  /\ LiveTags(text, use, r.name) = {} => InnermostBinding(facts, r) = {}
  /\ LiveTags(text, use, r.name) # {} =>
       \E v \in Elements(facts.variables) :
         /\ InnermostBinding(facts, r) = {v} /\ v.name = r.name /\ Covers(v.validRange, r.span)
         /\ TagOf(v.span.lo) \in LiveTags(text, use, r.name)
         /\ \A j \in LiveTags(text, use, r.name) : j <= TagOf(v.span.lo)

\* An identifier is bound by the latest tag that is live there.
LEMMA BindingIsLatest ==
  ASSUME NEW text, IsText(text), Intact(text), NEW use \in DOMAIN text, NEW k \in 1 .. 6,
         NEW facts, facts.variables = Variables(text, BuildScopeRegions(text)), NEW r, r.span = Name(use, k)
  PROVE  IsLatestBinding(text, facts, r, use)
<1> DEFINE M == LiveTags(text, use, r.name)
<1>1. PICK p : IsPairing(text, p)
  BY PairsOf DEF Intact
<1>2. PICK binders : binders = Variables(text, BuildScopeRegions(text))
  OBVIOUS
<1>3. PICK S : binders \in Seq(S) /\ Elements(binders) = S
  <2> PICK S : S = VariablesBy(text, BuildScopeRegions(text), Tags(text, BindingKinds))
    OBVIOUS
  <2>1. binders \in Seq(S) /\ Elements(binders) = S
    BY <1>2, VariablesOfTags
  <2> QED BY <2>1
<1>4. PICK C : C = {v \in Elements(facts.variables) : v.name = r.name /\ Covers(v.validRange, r.span)}
  OBVIOUS
<1>5. \A v \in C : Length(v.validRange) \in Nat
  BY <1>1, <1>4, RangesAreSpans
<1>6. /\ C = {} => InnermostBinding(facts, r) = {}
      /\ C # {} => \E v \in C : /\ InnermostBinding(facts, r) = {v}
                                /\ \A w \in C : Length(v.validRange) <= Length(w.validRange)
  BY <1>2, <1>3, <1>4, <1>5, InnermostIs
<1>7. \A v \in C : /\ TagOf(v.span.lo) \in M
                   /\ \E q : EndsAt(text, p, TagOf(v.span.lo), q)
                             /\ v.validRange = Span(TagEnd(TagOf(v.span.lo)), TagStart(q))
  <2> TAKE v \in C
  <2> HIDE DEF M
  <2>1. v \in Elements(Variables(text, BuildScopeRegions(text))) /\ v.name = r.name /\ Covers(v.validRange, Name(use, k))
    BY <1>4
  <2>2. /\ TagOf(v.span.lo) \in LiveTags(text, use, v.name)
        /\ \E q : EndsAt(text, p, TagOf(v.span.lo), q) /\ v.validRange = Span(TagEnd(TagOf(v.span.lo)), TagStart(q))
    BY <1>1, <2>1, CandidateIsLive
  <2> QED BY <2>1, <2>2 DEF M
<1>8. \A i \in M : \E v \in C : TagOf(v.span.lo) = i
  <2> TAKE i \in M
  <2>1. \E v \in Elements(Variables(text, BuildScopeRegions(text))) :
          v.name = r.name /\ Covers(v.validRange, Name(use, k)) /\ TagOf(v.span.lo) = i
    BY <1>1, LiveIsCandidate
  <2> QED BY <1>4, <2>1
<1>9. ASSUME C = {} PROVE M = {} /\ InnermostBinding(facts, r) = {}
  <2>1. M = {}
    BY <1>8, <1>9
  <2> HIDE DEF M
  <2> QED BY <1>6, <1>9, <2>1
<1>10. ASSUME C # {}
       PROVE  /\ M # {}
              /\ \E v \in Elements(facts.variables) :
                   /\ InnermostBinding(facts, r) = {v} /\ v.name = r.name /\ Covers(v.validRange, r.span)
                   /\ TagOf(v.span.lo) \in M /\ \A j \in M : j <= TagOf(v.span.lo)
  <2>1. PICK v \in C : InnermostBinding(facts, r) = {v} /\ \A w \in C : Length(v.validRange) <= Length(w.validRange)
    BY <1>6, <1>10
  <2>2. PICK i : i = TagOf(v.span.lo)
    OBVIOUS
  <2>3. PICK q : EndsAt(text, p, i, q) /\ v.validRange = Span(TagEnd(i), TagStart(q))
    BY <1>7, <2>2
  <2>4. i \in M /\ i \in Tags(text, LiveKinds) /\ LiveAt(text, i, use)
    <3>1. i \in M
      BY <1>7, <2>2
    <3> QED BY <3>1 DEF LiveTags
  <2>5. ASSUME NEW j \in M, ~(j <= i) PROVE FALSE
    <3>1. j \in Tags(text, LiveKinds) /\ LiveAt(text, j, use)
      BY DEF LiveTags
    <3>2. PICK w \in C : TagOf(w.span.lo) = j
      BY <1>8
    <3>3. PICK e : EndsAt(text, p, j, e) /\ w.validRange = Span(TagEnd(j), TagStart(e))
      BY <1>7, <3>2
    <3>4. i \in Nat /\ j \in Nat /\ use \in Nat
      BY <2>4, <3>1 DEF Tags, IsText
    <3>5. q \in Nat /\ e \in Nat /\ j < e /\ i < q
      BY <2>3, <3>3 DEF EndsAt
    <3>6. i < j
      BY <2>5, <3>4
    <3>7. use < q /\ j < use
      BY <1>1, <2>3, <2>4, <3>1, <3>3, LiveIs
    <3>8. j < q
      BY <3>4, <3>5, <3>7
    <3>9. e <= q
      BY <1>1, <2>3, <2>4, <3>1, <3>3, <3>6, <3>8, LaterEndsSooner
    <3>10. TagEnd(i) = 8 * i + 7 /\ TagStart(q) = 8 * q /\ TagEnd(j) = 8 * j + 7 /\ TagStart(e) = 8 * e
      BY DEF TagEnd, TagStart, Width
    <3>11. Length(v.validRange) = 8 * q - (8 * i + 7) /\ Length(w.validRange) = 8 * e - (8 * j + 7)
      <4>1. 8 * i + 7 < 8 * q /\ 8 * j + 7 < 8 * e
        BY <3>4, <3>5
      <4>2. v.validRange.lo = 8 * i + 7 /\ v.validRange.hi = 8 * q /\ w.validRange.lo = 8 * j + 7 /\ w.validRange.hi = 8 * e
        BY <2>3, <3>3, <3>10 DEF Span
      <4> QED BY <4>1, <4>2 DEF Length
    <3>12. 8 * e - (8 * j + 7) < 8 * q - (8 * i + 7)
      BY <3>4, <3>5, <3>6, <3>9
    <3>13. Length(v.validRange) <= Length(w.validRange)
      BY <2>1
    <3> QED BY <3>4, <3>5, <3>11, <3>12, <3>13
  <2>6. v \in Elements(facts.variables) /\ v.name = r.name /\ Covers(v.validRange, r.span)
    BY <1>4
  <2> HIDE DEF M
  <2>7. M # {}
    BY <2>4
  <2> QED BY <2>1, <2>2, <2>4, <2>5, <2>6, <2>7
<1> HIDE DEF M
<1>11. /\ M = {} => InnermostBinding(facts, r) = {}
       /\ M # {} =>
            \E v \in Elements(facts.variables) :
              /\ InnermostBinding(facts, r) = {v} /\ v.name = r.name /\ Covers(v.validRange, r.span)
              /\ TagOf(v.span.lo) \in M /\ \A j \in M : j <= TagOf(v.span.lo)
  BY <1>9, <1>10
<1> QED BY <1>11 DEF M, IsLatestBinding

\* Bindings are lexical.
LEMMA ProjectBindsLexically == IInv => BindingsAreLexical
<1> SUFFICES ASSUME IInv, NEW k \in Templates, Intact(texts[k]), NEW r \in Refs(index[k], {"identifier"})
             PROVE  {TagOf(v.span.lo) : v \in InnermostBinding(index[k], r)}
                      = MeantBy(texts[k], TagOf(r.span.lo), r.name)
  BY DEF BindingsAreLexical
<1> PICK text : text = texts[k]
  OBVIOUS
<1>1. IsText(text) /\ index[k].variables = Variables(text, BuildScopeRegions(text)) /\ index[k].references = References(text)
  BY IndexIs
<1>2. PICK use \in Tags(text, ReferenceKinds), t \in 1 .. 6 : r.span = Name(use, t)
  BY <1>1, ReferenceIs DEF Refs
<1>3. use \in DOMAIN text /\ use \in Nat /\ t \in 1 .. 7
  BY <1>1, <1>2 DEF Tags, IsText
<1>4. TagOf(r.span.lo) = use
  BY <1>2, <1>3, TagOfName
<1> DEFINE M == LiveTags(text, use, r.name)
<1>5. MeantBy(text, use, r.name) = Latest(M)
  BY DEF MeantBy, LiveTags, LiveKinds
<1>6. /\ M = {} => InnermostBinding(index[k], r) = {}
      /\ M # {} => \E v \in Elements(index[k].variables) :
                     /\ InnermostBinding(index[k], r) = {v}
                     /\ TagOf(v.span.lo) \in M /\ \A j \in M : j <= TagOf(v.span.lo)
  <2> PICK facts : facts = index[k]
    OBVIOUS
  <2>1. Intact(text) /\ facts.variables = Variables(text, BuildScopeRegions(text)) /\ r.span = Name(use, t)
    BY <1>1, <1>2
  <2>2. IsLatestBinding(text, facts, r, use)
    BY <1>1, <1>3, <2>1, BindingIsLatest
  <2> QED BY <2>2 DEF IsLatestBinding
<1>7. M \in SUBSET Nat
  BY <1>1 DEF LiveTags, Tags, IsText
<1> HIDE DEF M
<1>8. CASE M = {}
  BY <1>4, <1>5, <1>6, <1>8 DEF Latest
<1>9. CASE M # {}
  <2>1. PICK v : /\ InnermostBinding(index[k], r) = {v}
                 /\ TagOf(v.span.lo) \in M /\ \A j \in M : j <= TagOf(v.span.lo)
    BY <1>6, <1>9
  <2>2. Latest(M) = {TagOf(v.span.lo)}
    <3> PICK i : i = TagOf(v.span.lo)
      OBVIOUS
    <3>1. i \in M /\ \A j \in M : j <= i
      BY <2>1
    <3>2. \A j \in M : i <= j => j = i
      BY <1>7, <3>1
    <3> QED BY <3>1, <3>2 DEF Latest
  <2> QED BY <1>4, <1>5, <2>1, <2>2
<1> QED BY <1>8, <1>9

\* A list has one element of each of some tags, in their order: the b-th is that of at[b].
Lists(s, m, at, A, F) ==
  /\ m \in Nat /\ at \in [1 .. m -> A] /\ s = [b \in 1 .. m |-> F[at[b]]]
  /\ \A b, c \in 1 .. m : b < c => at[b] < at[c]
  /\ \A i \in A : \E b \in 1 .. m : at[b] = i

\* What yields one element per tag lists them.
LEMMA OnePerTag ==
  ASSUME NEW text, IsText(text), NEW A \in SUBSET DOMAIN text, NEW F, NEW seqs,
         seqs = [i \in DOMAIN text |-> IF i \in A THEN <<F[i]>> ELSE <<>>]
  PROVE  \E m, at : Lists(FlattenSeq(seqs), m, at, A, F)
<1>1. PICK n \in Nat : DOMAIN text = 1 .. n
  BY DEF IsText
<1>2. PICK S : S = {F[i] : i \in DOMAIN text}
  OBVIOUS
<1>3. \A i \in 1 .. n : seqs[i] = IF i \in A THEN <<F[i]>> ELSE <<>>
  BY <1>1
<1>4. \A i \in 1 .. n : seqs[i] \in Seq(S)
  <2> TAKE i \in 1 .. n
  <2>1. F[i] \in S
    BY <1>1, <1>2
  <2>2. <<F[i]>> \in Seq(S) /\ <<>> \in Seq(S)
    BY <2>1, FewElements
  <2> QED BY <1>3, <2>2
<1>5. seqs \in Seq(Seq(S)) /\ Len(seqs) = n
  BY <1>1, <1>4
<1> PICK s : s = FlattenSeq(seqs)
  OBVIOUS
<1>6. s \in Seq(S)
  BY <1>5, FlattenSeqType
<1> DEFINE m == Len(s)
<1>7. m \in Nat /\ s \in [1 .. m -> S]
  BY <1>6, LenProperties
<1>8. PICK row, col : Strung(s, seqs, n, row, col)
  BY <1>5, FlattenSeqPlaces
<1>9. /\ row \in [1 .. m -> 1 .. n] /\ col \in [1 .. m -> Nat]
      /\ \A k \in 1 .. m : col[k] \in 1 .. Len(seqs[row[k]]) /\ s[k] = seqs[row[k]][col[k]]
      /\ \A i \in 1 .. n : \A j \in 1 .. Len(seqs[i]) : \E k \in 1 .. m : row[k] = i /\ col[k] = j
      /\ \A k, l \in 1 .. m : k < l => row[k] < row[l] \/ (row[k] = row[l] /\ col[k] < col[l])
  BY <1>8, Zenon DEF Strung
<1> HIDE DEF m
<1>10. \A i \in 1 .. n : /\ i \in A => Len(seqs[i]) = 1 /\ seqs[i][1] = F[i]
                         /\ i \notin A => Len(seqs[i]) = 0
  <2> TAKE i \in 1 .. n
  <2>1. Len(<<F[i]>>) = 1 /\ <<F[i]>>[1] = F[i] /\ Len(<<>>) = 0
    OBVIOUS
  <2> QED BY <1>3, <2>1
<1>11. \A k \in 1 .. m : row[k] \in A /\ col[k] = 1 /\ s[k] = F[row[k]]
  <2> TAKE k \in 1 .. m
  <2>1. row[k] \in 1 .. n /\ col[k] \in 1 .. Len(seqs[row[k]]) /\ s[k] = seqs[row[k]][col[k]]
    BY <1>9
  <2>2. row[k] \in A
    BY <1>10, <2>1
  <2>3. Len(seqs[row[k]]) = 1 /\ seqs[row[k]][1] = F[row[k]]
    BY <1>10, <2>1, <2>2
  <2> QED BY <2>1, <2>2, <2>3
<1>12. \A k, l \in 1 .. m : k < l => row[k] < row[l]
  BY <1>9, <1>11
<1>13. \A i \in A : \E k \in 1 .. m : row[k] = i
  <2> TAKE i \in A
  <2>1. i \in 1 .. n /\ Len(seqs[i]) = 1
    BY <1>1, <1>10
  <2>2. 1 \in 1 .. Len(seqs[i])
    BY <2>1
  <2> QED BY <1>9, <2>1, <2>2
<1>14. s = [b \in 1 .. m |-> s[b]]
  BY <1>7
<1>15. row \in [1 .. m -> A]
  BY <1>9, <1>11
<1>16. s = [b \in 1 .. m |-> F[row[b]]]
  BY <1>11, <1>14
<1>17. Lists(s, m, row, A, F)
  BY <1>7, <1>12, <1>13, <1>15, <1>16 DEF Lists
<1> QED BY <1>17

\* Between a macro tag and its partner more macros are opened than closed, and with it as many.
LEMMA MacrosBalance ==
  ASSUME NEW text, IsText(text), NEW p, IsPairing(text, p), NEW i \in Tags(text, {"macro"}),
         NEW j \in Nat, i < j, j <= p[i]
  PROVE  MacroDepth(text, i, j) = 0 <=> j = p[i]
<1> DEFINE M == Tags(text, {"macro"})
           E == Tags(text, {"endmacro"})
           closed == {h \in M : i <= h /\ p[h] <= j}
<1>1. PICK n \in Nat : DOMAIN text = 1 .. n /\ Len(text) = n
  BY DEF IsText
<1>2. M \subseteq Openers(text) /\ i \in Openers(text)
  BY DEF Openers, Tags, ScopeKinds
<1>3. \A h \in M : h \in Nat /\ p[h] \in Nat /\ h < p[h] /\ p[h] \in 1 .. n /\ ClosedKind(text[p[h]]) = "macro"
  <2> TAKE h \in M
  <2>1. h \in Openers(text) /\ text[h].kind = "macro"
    BY <1>2 DEF Tags
  <2> HIDE DEF M
  <2> QED BY <1>1, <2>1, PairsAreNested
<1>4. i \in Nat /\ p[i] \in Nat
  BY <1>3
<1>5. \A h \in 1 .. n : ClosedKind(text[h]) = "macro" <=> h \in E
  <2> TAKE h \in 1 .. n
  <2>1. ClosedKind(text[h]) = "macro" <=> text[h].kind = "endmacro"
    BY DEF ClosedKind, Closes, None
  <2> QED BY <1>1, <2>1 DEF Tags
<1>6. E \subseteq 1 .. n
  BY <1>1 DEF Tags
<1>7. ASSUME NEW e \in E, i <= e, e <= j PROVE \E h \in closed : p[h] = e
  <2>1. ClosedKind(text[e]) = "macro" /\ e \in 1 .. n
    BY <1>5, <1>6
  <2>2. e \in Closers(text)
    BY <1>1, <2>1 DEF Closers, None
  <2>3. PICK h \in Openers(text) : p[h] = e
    BY <2>2 DEF IsPairing
  <2>4. text[h].kind = "macro" /\ h \in Nat /\ h < p[h]
    BY <2>1, <2>3, PairsAreNested
  <2>5. h \in M
    BY <2>4 DEF Openers, Tags
  <2>6. i <= h
    <3>1. h < i => FALSE
      <4>1. h < i /\ i < p[h] => p[i] < p[h]
        BY <1>2, <2>3, PairsAreNested
      <4>2. i # e
        <5>1. p[h] \notin Openers(text)
          BY <2>3, PairsAreNested
        <5> QED BY <1>2, <2>3, <5>1
      <4>3. p[h] \in Nat /\ p[i] \in Nat /\ p[h] = e
        BY <1>3, <2>3, <2>5
      <4> QED BY <1>4, <1>7, <4>1, <4>2, <4>3
    <3> QED BY <1>4, <2>4, <3>1
  <2> QED BY <1>7, <2>3, <2>5, <2>6
<1>8. ASSUME NEW h \in closed PROVE p[h] \in E /\ i <= p[h] /\ p[h] <= j
  <2>1. p[h] \in 1 .. n /\ ClosedKind(text[p[h]]) = "macro" /\ h < p[h] /\ h \in Nat /\ p[h] \in Nat
    BY <1>3
  <2>2. p[h] \in E
    BY <1>5, <2>1
  <2>3. i <= h /\ p[h] <= j
    OBVIOUS
  <2> QED BY <1>3, <2>1, <2>2, <2>3
<1>9. Part(E, i, j) = {p[h] : h \in closed}
  <2> HIDE DEF E, closed
  <2>1. Part(E, i, j) = {e \in E : i <= e /\ e <= j}
    <3>1. \A e : e \in Part(E, i, j) <=> e \in E /\ e \in i .. j
      BY DEF Part
    <3>2. \A e \in E : e \in i .. j <=> i <= e /\ e <= j
      BY <1>4, <1>6
    <3> HIDE DEF M
    <3> QED BY <3>1, <3>2
  <2> QED BY <1>7, <1>8, <2>1
<1>10. \A h \in closed : h \in Part(M, i, j)
  <2> TAKE h \in closed
  <2>1. h \in M /\ i <= h /\ h \in Nat /\ h < p[h] /\ p[h] <= j /\ p[h] \in Nat
    BY <1>3
  <2>2. h <= j
    BY <2>1
  <2> QED BY <1>4, <2>1, <2>2 DEF Part
<1>11. IsFiniteSet(Part(M, i, j)) /\ Cardinality(Part(M, i, j)) \in Nat
  <2> HIDE DEF M
  <2> QED BY <1>3, PartIsFinite DEF CountIn, M
<1>12. IsFiniteSet(closed) /\ Cardinality(Part(E, i, j)) = Cardinality(closed) /\ Cardinality(closed) \in Nat
  <2>1. IsFiniteSet(closed)
    <3> HIDE DEF M, closed
    <3> QED BY <1>10, <1>11, FS_Subset
  <2>2. \A g, h \in closed : p[g] = p[h] => g = h
    <3> TAKE g, h \in closed
    <3>1. g \in Openers(text) /\ h \in Openers(text)
      BY <1>2
    <3> HIDE DEF closed
    <3> QED BY <3>1, PairsAreNested
  <2> HIDE DEF M, E, closed
  <2>3. Cardinality(Part(E, i, j)) = Cardinality(closed)
    BY <1>9, <2>1, <2>2, ImageCardinality
  <2> QED BY <2>1, <2>3, FS_CardinalityType
<1>13. MacroDepth(text, i, j) = Cardinality(Part(M, i, j)) - Cardinality(Part(E, i, j))
  BY DEF MacroDepth, Part
<1>14. ASSUME j = p[i] PROVE closed = Part(M, i, j)
  <2>1. ASSUME NEW h \in Part(M, i, j) PROVE h \in closed
    <3>1. h \in M /\ i <= h /\ h <= j /\ h \in Nat
      BY <1>3 DEF Part
    <3>2. h \in Openers(text) /\ p[i] \notin Openers(text)
      BY <1>2, <3>1, PairsAreNested
    <3>3. h < p[i]
      BY <1>3, <1>14, <3>1, <3>2
    <3>4. h = i \/ p[h] < p[i]
      <4>1. i < h => p[h] < p[i]
        BY <1>2, <3>2, <3>3, PairsAreNested
      <4> QED BY <1>3, <3>1, <4>1
    <3>5. p[h] <= j
      BY <1>3, <1>14, <3>1, <3>4
    <3> QED BY <3>1, <3>5
  <2> QED BY <1>10, <2>1
<1>15. ASSUME j # p[i] PROVE Cardinality(closed) < Cardinality(Part(M, i, j))
  <2>1. i \notin closed
    BY <1>3, <1>15
  <2>2. i \in Part(M, i, j)
    BY <1>3 DEF Part
  <2> HIDE DEF M, closed
  <2>3. closed # Part(M, i, j)
    BY <2>1, <2>2
  <2> PICK X : X = Part(M, i, j)
    OBVIOUS
  <2>4. IsFiniteSet(X) /\ closed \in SUBSET X /\ closed # X
    BY <1>10, <1>11, <2>3
  <2>5. Cardinality(closed) <= Cardinality(X) /\ Cardinality(X) # Cardinality(closed)
    BY <2>4, FS_Subset
  <2> QED BY <1>11, <1>12, <2>5
<1> HIDE DEF M, E, closed
<1>16. CASE j = p[i]
  BY <1>11, <1>12, <1>13, <1>14, <1>16
<1>17. CASE j # p[i]
  BY <1>11, <1>12, <1>13, <1>15, <1>17
<1> QED BY <1>16, <1>17

\* The body of a macro, found by counting, ends at its partner.
LEMMA MacroBodyIsOwn ==
  ASSUME NEW text, IsText(text), NEW p, IsPairing(text, p), NEW i \in Tags(text, {"macro"})
  PROVE  MacroBody(text, i) = Span(TagEnd(i), TagStart(p[i]))
<1> DEFINE ends == {j \in i + 1 .. Len(text) : MacroDepth(text, i, j) = 0}
<1>1. PICK n \in Nat : DOMAIN text = 1 .. n /\ Len(text) = n
  BY DEF IsText
<1>2. i \in Openers(text)
  BY DEF Openers, Tags, ScopeKinds
<1>3. i \in Nat /\ p[i] \in 1 .. n /\ i < p[i] /\ p[i] \in Nat
  BY <1>1, <1>2, PairsAreNested
<1>4. p[i] \in ends
  <2>1. MacroDepth(text, i, p[i]) = 0
    <3> PICK j : j = p[i]
      OBVIOUS
    <3>1. MacroDepth(text, i, j) = 0
      BY <1>3, MacrosBalance
    <3> QED BY <3>1
  <2> QED BY <1>1, <1>3, <2>1
<1>5. \A e \in ends : e \in Nat /\ p[i] <= e
  <2> TAKE e \in ends
  <2>1. e \in Nat /\ i < e /\ MacroDepth(text, i, e) = 0
    BY <1>1, <1>3
  <2>2. e <= p[i] => e = p[i]
    BY <2>1, MacrosBalance
  <2> QED BY <1>3, <2>1, <2>2
<1>6. MacroBody(text, i) = Span(TagEnd(i), IF ends = {} THEN SourceEnd(text)
                                           ELSE TagStart(CHOOSE j \in ends : \A e \in ends : j <= e))
  BY DEF MacroBody
<1> HIDE DEF ends
<1>7. (CHOOSE j \in ends : \A e \in ends : j <= e) = p[i]
  <2>1. \A j \in ends : (\A e \in ends : j <= e) <=> j = p[i]
    BY <1>3, <1>4, <1>5
  <2> QED BY <1>4, <2>1
<1> QED BY <1>4, <1>6, <1>7

\* Blocks are closed tag by tag.
Closing(text, regions, n, closed) ==
  /\ closed[0] = DeclaredBlocks(text, regions) /\ closed[n] = Blocks(text, regions)
  /\ \A i \in 1 .. n : closed[i] = IF text[i].kind = "named_endblock" THEN CloseByName(text, closed[i - 1], i)
                                   ELSE closed[i - 1]

\* Folding over the tags is closing them one by one.
LEMMA BlocksByTag ==
  ASSUME NEW text, IsText(text), NEW regions
  PROVE  \E closed : Closing(text, regions, Len(text), closed)
<1> DEFINE B == BlockSet(text, regions)
           n == Len(text)
           base == DeclaredBlocks(text, regions)
           Close(g, i) == IF i = 0 THEN base
                          ELSE IF text[i].kind = "named_endblock" THEN CloseByName(text, g[i - 1], i)
                          ELSE g[i - 1]
           Rec(g) == g = [i \in 0 .. n |-> Close(g, i)]
           closed == CHOOSE g : Rec(g)
<1>1. n \in Nat /\ DOMAIN text = 1 .. n
  BY DEF IsText
<1>2. base \in Seq(B)
  BY DeclaredBlocksType
<1>3. \A i \in 1 .. n : \A s \in Seq(B) :
        text[i].kind = "named_endblock" => CloseByName(text, s, i) \in Seq(B)
  BY <1>1, CloseByNameType DEF Tags
<1>4. Blocks(text, regions) = closed[n]
  BY DEF Blocks
<1> HIDE DEF B, n, base
<1>5. \E g : Rec(g)
  <2> DEFINE step == [i \in 1 .. n |-> [s \in Seq(B) |->
                       IF text[i].kind = "named_endblock" THEN CloseByName(text, s, i) ELSE s]]
  <2>1. step \in [1 .. n -> [Seq(B) -> Seq(B)]]
    BY <1>3
  <2>2. PICK f \in [0 .. n -> Seq(B)] : Steps(f, n, base, step)
    <3> DEFINE T == Seq(B)
    <3>1. base \in T /\ step \in [1 .. n -> [T -> T]] /\ n \in Nat
      BY <1>1, <1>2, <2>1
    <3> HIDE DEF step, T
    <3>2. \E f \in [0 .. n -> T] : Steps(f, n, base, step)
      BY <3>1, Recursion
    <3> QED BY <3>2 DEF T
  <2>3. ASSUME NEW i \in 0 .. n PROVE f[i] = Close(f, i)
    <3>1. i # 0 => i \in 1 .. n /\ i - 1 \in 0 .. n
      BY <1>1
    <3>2. i # 0 => f[i - 1] \in Seq(B)
      BY <3>1
    <3> QED BY <2>2, <3>1, <3>2 DEF Steps
  <2> HIDE DEF Close
  <2>4. f = [i \in 0 .. n |-> Close(f, i)]
    BY <2>3
  <2> QED BY <2>4
<1>6. Rec(closed)
  <2> HIDE DEF Rec
  <2> QED BY <1>5
<1> HIDE DEF closed
<1>7. \A i \in 0 .. n : closed[i] = Close(closed, i)
  BY <1>6
<1>8. closed[0] = base
  <2>1. 0 \in 0 .. n
    BY <1>1
  <2> QED BY <1>7, <2>1
<1>9. \A i \in 1 .. n : closed[i] = IF text[i].kind = "named_endblock" THEN CloseByName(text, closed[i - 1], i)
                                    ELSE closed[i - 1]
  <2> TAKE i \in 1 .. n
  <2>1. i \in 0 .. n /\ i # 0
    BY <1>1
  <2> QED BY <1>7, <2>1
<1>10. Closing(text, regions, n, closed)
  BY <1>4, <1>8, <1>9 DEF Closing, base
<1> QED BY <1>10 DEF n

\* The declared blocks are listed in order.
LEMMA DeclaredAreListed ==
  ASSUME NEW text, IsText(text), NEW regions
  PROVE  \E m, at : Lists(DeclaredBlocks(text, regions), m, at, Tags(text, {"block"}),
                          [i \in DOMAIN text |-> DeclaredBlock(text, regions, i)])
<1> PICK A : A = Tags(text, {"block"})
  OBVIOUS
<1> PICK F : F = [i \in DOMAIN text |-> DeclaredBlock(text, regions, i)]
  OBVIOUS
<1> PICK seqs : seqs = [i \in DOMAIN text |-> IF i \in A THEN <<F[i]>> ELSE <<>>]
  OBVIOUS
<1>1. A \in SUBSET DOMAIN text /\ \A i \in DOMAIN text : i \in A <=> text[i].kind \in {"block"}
  BY DEF Tags
<1>2. seqs = [i \in DOMAIN text |-> IF text[i].kind \in {"block"} THEN <<DeclaredBlock(text, regions, i)>> ELSE <<>>]
  BY <1>1
<1>3. DeclaredBlocks(text, regions) = FlattenSeq(seqs)
  BY <1>2 DEF DeclaredBlocks, Each
<1>4. \E m, at : Lists(FlattenSeq(seqs), m, at, A, F)
  BY <1>1, OnePerTag
<1> QED BY <1>3, <1>4

\* A block fact of a text is the block tag it stands for and the body it has there.
OwnBody(text, p, i) == Span(TagEnd(i), TagStart(p[i]))
BlocksAre(text, p, blocks) ==
  /\ \A d \in Elements(blocks) : \E i \in Tags(text, {"block"}) :
       d.span = Statement(i) /\ d.name = text[i].names[1] /\ d.body = OwnBody(text, p, i)
  /\ \A i \in Tags(text, {"block"}) : \E d \in Elements(blocks) : d.span = Statement(i)

\* Without error nodes every block has its own region.
LEMMA PlainBlocks ==
  ASSUME NEW text, IsText(text), NEW p, IsPairing(text, p), Tags(text, ErrorKinds) = {}
  PROVE  BlocksAre(text, p, Blocks(text, BuildScopeRegions(text)))
<1> PICK regions : regions = BuildScopeRegions(text)
  OBVIOUS
<1> PICK R : R = Elements(regions)
  OBVIOUS
<1>1. PICK n \in Nat : n = Len(text) /\ DOMAIN text = 1 .. n
  BY DEF IsText
<1>2. PICK closed : Closing(text, regions, n, closed)
  BY <1>1, BlocksByTag
<1>3. \A i \in 1 .. n : text[i].kind # "named_endblock"
  BY <1>1 DEF Tags, ErrorKinds
<1>4. closed[0] = DeclaredBlocks(text, regions) /\ closed[n] = Blocks(text, regions)
      /\ \A i \in 1 .. n : closed[i] = closed[i - 1]
  BY <1>2, <1>3 DEF Closing
<1>5. closed[n] = closed[0]
  <2> PICK T : T = {closed[0]}
    OBVIOUS
  <2>1. closed[n] \in T
    BY <1>4, RecursionType
  <2> QED BY <2>1
<1>6. PICK m, at : Lists(DeclaredBlocks(text, regions), m, at, Tags(text, {"block"}),
                         [i \in DOMAIN text |-> DeclaredBlock(text, regions, i)])
  BY DeclaredAreListed
<1>7. PICK blocks : blocks = Blocks(text, regions)
  OBVIOUS
<1>8. /\ m \in Nat /\ at \in [1 .. m -> Tags(text, {"block"})]
      /\ blocks = [b \in 1 .. m |-> [i \in DOMAIN text |-> DeclaredBlock(text, regions, i)][at[b]]]
      /\ \A i \in Tags(text, {"block"}) : \E b \in 1 .. m : at[b] = i
  BY <1>4, <1>5, <1>6, <1>7 DEF Lists
<1>9. \A b \in 1 .. m : blocks[b] = DeclaredBlock(text, regions, at[b]) /\ at[b] \in Tags(text, {"block"})
  <2> TAKE b \in 1 .. m
  <2>1. at[b] \in Tags(text, {"block"}) /\ at[b] \in DOMAIN text
    BY <1>8 DEF Tags
  <2> QED BY <1>8, <2>1
<1>10. ASSUME NEW i \in Tags(text, {"block"})
       PROVE  /\ DeclaredBlock(text, regions, i).span = Statement(i)
              /\ DeclaredBlock(text, regions, i).name = text[i].names[1]
              /\ DeclaredBlock(text, regions, i).body = OwnBody(text, p, i)
  <2> DEFINE own == {r \in R : r.scope = "block" /\ r.span.lo = TagEnd(i)}
  <2>1. i \in Openers(text) /\ text[i].kind = "block"
    BY DEF Openers, Tags, ScopeKinds
  <2>2. IsExact(text, i)
    <3>1. Tags(text, {"named_endblock"}) = {}
      BY <1>1, <1>3 DEF Tags
    <3> QED BY <2>1, <3>1 DEF IsExact, ExactKinds, ScopeKinds
  <2>3. PICK r \in R :
           /\ r.scope = text[i].kind /\ r.span = Span(TagEnd(i), TagStart(p[i])) /\ r.span.lo = TagEnd(i)
           /\ \A s \in R : s.span.lo = TagEnd(i) => s = r
    BY <2>1, <2>2, OwnRegion
  <2>4. own = {r}
    BY <2>1, <2>3
  <2>5. Only(own) = r
    BY <2>4, OnlyIs
  <2>6. DeclaredBlock(text, regions, i).body = IF own = {} THEN NoSpan ELSE Only(own).span
    BY DEF DeclaredBlock
  <2> HIDE DEF own
  <2>7. DeclaredBlock(text, regions, i).body = OwnBody(text, p, i)
    BY <2>3, <2>4, <2>5, <2>6 DEF OwnBody
  <2> QED BY <2>7 DEF DeclaredBlock
<1>11. DOMAIN blocks = 1 .. m
  BY <1>8
<1>12. BlocksAre(text, p, blocks)
  <2>1. ASSUME NEW d \in Elements(blocks)
        PROVE  \E i \in Tags(text, {"block"}) : d.span = Statement(i) /\ d.name = text[i].names[1] /\ d.body = OwnBody(text, p, i)
    <3>1. PICK b \in 1 .. m : d = blocks[b]
      BY <1>11 DEF Elements
    <3> QED BY <1>9, <1>10, <3>1
  <2>2. ASSUME NEW i \in Tags(text, {"block"}) PROVE \E d \in Elements(blocks) : d.span = Statement(i)
    <3>1. PICK b \in 1 .. m : at[b] = i
      BY <1>8
    <3>2. blocks[b] \in Elements(blocks)
      BY <1>11 DEF Elements
    <3> QED BY <1>9, <1>10, <3>1, <3>2
  <2> QED BY <2>1, <2>2 DEF BlocksAre
<1> QED BY <1>7, <1>12

\* What a block keeps when it is closed.
LEMMA ClosedBlockKeeps ==
  ASSUME NEW N, NEW S, NEW B, NEW E, NEW body, NEW end,
         NEW b \in [name : N, scoped : BOOLEAN, required : BOOLEAN, body : B, span : S, endName : E]
  PROVE  /\ [b EXCEPT !.body = body, !.endName = end].body = body
         /\ [b EXCEPT !.body = body, !.endName = end].span = b.span
         /\ [b EXCEPT !.body = body, !.endName = end].name = b.name
OBVIOUS

\* The blocks after tag j: those that end up to there have their own body, the others none yet.
BlocksAfter(text, regions, p, m, at, j, s) ==
  /\ s \in Seq(BlockSet(text, regions)) /\ DOMAIN s = 1 .. m
  /\ \A b \in 1 .. m :
       /\ s[b].span = Statement(at[b]) /\ s[b].name = text[at[b]].names[1]
       /\ s[b].body = IF p[at[b]] <= j THEN OwnBody(text, p, at[b]) ELSE NoSpan

\* Where the tag of a statement is.
LEMMA StatementIs ==
  ASSUME NEW i \in Nat
  PROVE  Statement(i).lo = 8 * i /\ TagOf(Statement(i).lo) = i
<1>1. Statement(i).lo = 8 * i
  BY DEF Statement, Span, TagStart, Width
<1>2. (8 * i) \div 8 = i
  OBVIOUS
<1> QED BY <1>1, <1>2 DEF TagOf, Width

\* A body is not the empty span.
LEMMA OwnBodyIsSome ==
  ASSUME NEW text, NEW p, NEW i \in Nat
  PROVE  OwnBody(text, p, i) # NoSpan
<1>1. OwnBody(text, p, i).lo = 8 * i + 7
  BY DEF OwnBody, Span, TagEnd, Width
<1>2. NoSpan.lo = 0
  BY DEF NoSpan, Span
<1>3. 8 * i + 7 # 0
  OBVIOUS
<1> QED BY <1>1, <1>2, <1>3

\* A named endblock closes the block it ends.
LEMMA CloseOwnBlock ==
  ASSUME NEW text, IsText(text), NEW regions, NEW p, IsPairing(text, p), Tags(text, {"endblock"}) = {},
         NEW m \in Nat, NEW at \in [1 .. m -> Tags(text, {"block"})], \A b, c \in 1 .. m : b < c => at[b] < at[c],
         \A i \in Tags(text, {"block"}) : \E b \in 1 .. m : at[b] = i,
         NEW j \in Nat, NEW t \in Tags(text, {"named_endblock"}), t = j + 1,
         NEW s, BlocksAfter(text, regions, p, m, at, j, s)
  PROVE  BlocksAfter(text, regions, p, m, at, t, CloseByName(text, s, t))
<1> DEFINE waiting == {b \in DOMAIN s :
                         /\ s[b].name = text[t].names[1]
                         /\ s[b].body = NoSpan
                         /\ TagEnd(TagOf(s[b].span.lo)) < TagStart(t)}
           nearest == CHOOSE b \in waiting : \A w \in waiting : w <= b
           body == Span(TagEnd(TagOf(s[nearest].span.lo)), TagStart(t))
           changed == [s[nearest] EXCEPT !.body = body, !.endName = Name(t, 1)]
<1>1. CloseByName(text, s, t) = IF waiting = {} THEN s ELSE [s EXCEPT ![nearest] = changed]
  BY Zenon DEF CloseByName
<1>2. /\ s \in Seq(BlockSet(text, regions)) /\ DOMAIN s = 1 .. m
      /\ \A b \in 1 .. m :
           /\ s[b].span = Statement(at[b]) /\ s[b].name = text[at[b]].names[1]
           /\ s[b].body = IF p[at[b]] <= j THEN OwnBody(text, p, at[b]) ELSE NoSpan
  BY DEF BlocksAfter
<1>3. \A b \in 1 .. m : /\ at[b] \in Openers(text) /\ at[b] \in Nat /\ p[at[b]] \in Nat /\ at[b] < p[at[b]]
                        /\ text[at[b]].kind = "block"
  <2> TAKE b \in 1 .. m
  <2>1. at[b] \in Openers(text) /\ text[at[b]].kind = "block"
    BY DEF Openers, Tags, ScopeKinds
  <2> QED BY <2>1, PairsAreNested
<1>4. t \in DOMAIN text /\ text[t].kind = "named_endblock" /\ t \in Nat
  BY DEF Tags
<1>5. PICK i \in Openers(text) : p[i] = t
  <2>1. ClosedKind(text[t]) = "block"
    BY <1>4 DEF ClosedKind, Closes
  <2>2. t \in Closers(text)
    BY <1>4, <2>1 DEF Closers, None
  <2> QED BY <2>2 DEF IsPairing
<1>6. text[i].kind = "block" /\ text[t].names[1] = text[i].names[1]
  <2>1. EndsItsOwn(text, i, t)
    BY <1>5 DEF IsPairing
  <2>2. ClosedKind(text[t]) = "block"
    BY <1>4 DEF ClosedKind, Closes
  <2> QED BY <1>4, <2>1, <2>2 DEF EndsItsOwn
<1>7. PICK o \in 1 .. m : at[o] = i
  BY <1>6 DEF Openers, Tags
<1>8. \A b \in 1 .. m : p[at[b]] = t <=> b = o
  <2> TAKE b \in 1 .. m
  <2>1. p[at[b]] = t => at[b] = i
    BY <1>3, <1>5, PairsAreNested
  <2>2. at[b] = at[o] => b = o
    <3>1. b \in Nat /\ o \in Nat /\ at[b] \in Nat /\ at[o] \in Nat
      BY <1>3
    <3>2. b < o \/ o < b \/ b = o
      BY <3>1
    <3> QED BY <3>1, <3>2
  <2> QED BY <1>5, <1>7, <2>1, <2>2
<1>9. \A b \in 1 .. m : TagEnd(TagOf(s[b].span.lo)) < TagStart(t) <=> at[b] < t
  <2> TAKE b \in 1 .. m
  <2>1. TagOf(s[b].span.lo) = at[b]
    BY <1>2, <1>3, StatementIs
  <2>2. TagEnd(at[b]) < TagStart(t) <=> at[b] < t
    <3> PICK a : a = at[b]
      OBVIOUS
    <3>1. a \in Nat /\ t \in Nat
      BY <1>3, <1>4
    <3>2. TagEnd(a) < TagStart(t) <=> a < t
      BY <3>1 DEF TagEnd, TagStart, Width
    <3> QED BY <3>2
  <2> QED BY <2>1, <2>2
<1>10. o \in waiting
  <2>1. ~(p[at[o]] <= j) /\ at[o] < t
    BY <1>3, <1>5, <1>7
  <2>2. s[o].body = NoSpan /\ s[o].name = text[t].names[1]
    BY <1>2, <1>6, <1>7, <2>1
  <2> QED BY <1>2, <1>9, <2>1, <2>2
<1>11. \A b \in waiting : b \in Nat /\ b <= o
  <2> TAKE b \in waiting
  <2>1. b \in 1 .. m /\ s[b].body = NoSpan /\ at[b] < t
    BY <1>2, <1>9
  <2>2. ~(p[at[b]] <= j)
    <3>1. OwnBody(text, p, at[b]) # NoSpan
      BY <1>3, <2>1, OwnBodyIsSome
    <3> QED BY <1>2, <2>1, <3>1
  <2>3. at[b] <= at[o]
    <3>1. at[o] < at[b] => p[at[b]] < t
      <4>1. at[o] < at[b] /\ at[b] < p[at[o]] => p[at[b]] < p[at[o]]
        BY <1>3, <2>1, PairsAreNested
      <4> QED BY <1>5, <1>7, <2>1, <4>1
    <3>2. p[at[b]] \in Nat /\ at[b] \in Nat /\ at[o] \in Nat
      BY <1>3, <2>1
    <3> QED BY <2>2, <3>1, <3>2
  <2>4. o < b => at[o] < at[b]
    BY <2>1
  <2>5. at[b] \in Nat /\ at[o] \in Nat /\ b \in Nat /\ o \in Nat
    BY <1>3, <2>1
  <2> QED BY <2>3, <2>4, <2>5
<1>12. nearest = o
  <2> HIDE DEF waiting
  <2>1. \A b \in waiting : (\A w \in waiting : w <= b) => b = o
    BY <1>10, <1>11
  <2> QED BY <1>10, <1>11, <2>1
<1>13. body = OwnBody(text, p, i)
  <2>1. TagOf(s[o].span.lo) = i
    BY <1>2, <1>3, <1>7, StatementIs
  <2> HIDE DEF nearest
  <2> QED BY <1>5, <1>12, <2>1 DEF OwnBody
<1>14. s[o] \in BlockSet(text, regions)
  BY <1>2, ElementType
<1>15. changed.body = OwnBody(text, p, i) /\ changed.span = s[o].span /\ changed.name = s[o].name
  <2> PICK x : x = body
    OBVIOUS
  <2> PICK b : b = s[o]
    OBVIOUS
  <2>1. changed = [b EXCEPT !.body = x, !.endName = Name(t, 1)]
    <3> HIDE DEF nearest, body
    <3> QED BY <1>12
  <2>2. b \in BlockSet(text, regions)
    BY <1>14
  <2>3. /\ [b EXCEPT !.body = x, !.endName = Name(t, 1)].body = x
        /\ [b EXCEPT !.body = x, !.endName = Name(t, 1)].span = b.span
        /\ [b EXCEPT !.body = x, !.endName = Name(t, 1)].name = b.name
    BY <2>2, ClosedBlockKeeps, Zenon DEF BlockSet
  <2> HIDE DEF changed, body
  <2> QED BY <1>13, <2>1, <2>3
<1> PICK new : new = CloseByName(text, s, t)
  OBVIOUS
<1>16. new = [s EXCEPT ![o] = changed]
  <2> HIDE DEF waiting, nearest, changed
  <2> QED BY <1>1, <1>10, <1>12
<1>17. new \in Seq(BlockSet(text, regions))
  BY <1>2, CloseByNameType
<1> HIDE DEF changed
<1>18. DOMAIN new = 1 .. m /\ new[o] = changed /\ \A b \in 1 .. m : b # o => new[b] = s[b]
  BY <1>2, <1>16
<1>19. ASSUME NEW b \in 1 .. m
       PROVE  /\ new[b].span = Statement(at[b]) /\ new[b].name = text[at[b]].names[1]
              /\ new[b].body = IF p[at[b]] <= t THEN OwnBody(text, p, at[b]) ELSE NoSpan
  <2>1. CASE b = o
    <3>1. p[at[b]] <= t
      BY <1>4, <1>5, <1>7, <2>1
    <3> QED BY <1>2, <1>7, <1>15, <1>18, <2>1, <3>1
  <2>2. CASE b # o
    <3>1. p[at[b]] # t
      BY <1>8, <2>2
    <3>2. p[at[b]] <= t <=> p[at[b]] <= j
      BY <1>3, <3>1
    <3> QED BY <1>2, <1>18, <2>2, <3>2
  <2> QED BY <2>1, <2>2
<1> QED BY <1>17, <1>18, <1>19 DEF BlocksAfter

\* Where all blocks are closed by name, every block gets its own body.
LEMMA NamedBlocks ==
  ASSUME NEW text, IsText(text), NEW p, IsPairing(text, p), Tags(text, {"endblock"}) = {}
  PROVE  BlocksAre(text, p, Blocks(text, BuildScopeRegions(text)))
<1> PICK regions : regions = BuildScopeRegions(text)
  OBVIOUS
<1> PICK R : R = Elements(regions)
  OBVIOUS
<1>1. PICK n \in Nat : n = Len(text) /\ DOMAIN text = 1 .. n
  BY DEF IsText
<1>2. PICK closed : Closing(text, regions, n, closed)
  BY <1>1, BlocksByTag
<1>3. PICK m, at : Lists(DeclaredBlocks(text, regions), m, at, Tags(text, {"block"}),
                         [i \in DOMAIN text |-> DeclaredBlock(text, regions, i)])
  BY DeclaredAreListed
<1>4. PICK s : s = DeclaredBlocks(text, regions)
  OBVIOUS
<1>5. /\ m \in Nat /\ at \in [1 .. m -> Tags(text, {"block"})]
      /\ s = [b \in 1 .. m |-> [i \in DOMAIN text |-> DeclaredBlock(text, regions, i)][at[b]]]
      /\ \A b, c \in 1 .. m : b < c => at[b] < at[c]
      /\ \A i \in Tags(text, {"block"}) : \E b \in 1 .. m : at[b] = i
  BY <1>3, <1>4 DEF Lists
<1>6. \A b \in 1 .. m : s[b] = DeclaredBlock(text, regions, at[b])
  <2> TAKE b \in 1 .. m
  <2>1. at[b] \in DOMAIN text
    BY <1>5 DEF Tags
  <2> QED BY <1>5, <2>1
<1>7. \A r \in R : r.scope # "block"
  <2> SUFFICES ASSUME NEW r \in R, r.scope = "block" PROVE FALSE
    OBVIOUS
  <2>1. PICK i \in Openers(text), q \in DOMAIN text : IsRegion(text, r, i, q)
    BY RegionsFound
  <2>2. text[q].kind \in DOMAIN Closes /\ Closes[text[q].kind] = "block"
    BY <2>1 DEF IsRegion
  <2>3. text[q].kind = "endblock"
    BY <2>2 DEF Closes
  <2> QED BY <2>3 DEF Tags
<1>8. \A b \in 1 .. m : /\ s[b].span = Statement(at[b]) /\ s[b].name = text[at[b]].names[1] /\ s[b].body = NoSpan
  <2> TAKE b \in 1 .. m
  <2> PICK i : i = at[b]
    OBVIOUS
  <2> DEFINE own == {r \in R : r.scope = "block" /\ r.span.lo = TagEnd(i)}
  <2>1. own = {}
    BY <1>7
  <2>2. DeclaredBlock(text, regions, i).body = IF own = {} THEN NoSpan ELSE Only(own).span
    BY DEF DeclaredBlock
  <2>3. DeclaredBlock(text, regions, i).span = Statement(i) /\ DeclaredBlock(text, regions, i).name = text[i].names[1]
    BY DEF DeclaredBlock
  <2> HIDE DEF own
  <2> QED BY <1>6, <2>1, <2>2, <2>3
<1>9. \A b \in 1 .. m : at[b] \in Openers(text) /\ p[at[b]] \in 1 .. n /\ at[b] \in Nat
  <2> TAKE b \in 1 .. m
  <2>1. at[b] \in Openers(text)
    BY <1>5 DEF Openers, Tags, ScopeKinds
  <2> QED BY <1>1, <2>1, PairsAreNested
<1>10. BlocksAfter(text, regions, p, m, at, 0, closed[0])
  <2>1. s \in Seq(BlockSet(text, regions)) /\ DOMAIN s = 1 .. m /\ closed[0] = s
    <3>1. s \in Seq(BlockSet(text, regions))
      BY <1>4, DeclaredBlocksType
    <3>2. closed[0] = s
      BY <1>2, <1>4 DEF Closing
    <3>3. DOMAIN s = 1 .. m
      BY <1>5
    <3> QED BY <3>1, <3>2, <3>3
  <2>2. \A b \in 1 .. m : ~(p[at[b]] <= 0)
    BY <1>9
  <2> QED BY <1>8, <2>1, <2>2 DEF BlocksAfter
<1> DEFINE N == {j \in Nat : j <= n => BlocksAfter(text, regions, p, m, at, j, closed[j])}
<1>11. 0 \in N
  BY <1>10
<1>12. ASSUME NEW j \in Nat, j \in N PROVE j + 1 \in N
  <2> SUFFICES ASSUME j + 1 <= n PROVE BlocksAfter(text, regions, p, m, at, j + 1, closed[j + 1])
    OBVIOUS
  <2> PICK t : t = j + 1
    OBVIOUS
  <2>1. t \in 1 .. n /\ j = t - 1
    OBVIOUS
  <2>2. BlocksAfter(text, regions, p, m, at, j, closed[j])
    BY <1>12
  <2>3. closed[t] = IF text[t].kind = "named_endblock" THEN CloseByName(text, closed[j], t) ELSE closed[j]
    BY <1>2, <2>1 DEF Closing
  <2>4. CASE text[t].kind = "named_endblock"
    <3>1. t \in Tags(text, {"named_endblock"})
      BY <1>1, <2>1, <2>4 DEF Tags
    <3> PICK old : old = closed[j]
      OBVIOUS
    <3>2. BlocksAfter(text, regions, p, m, at, t, CloseByName(text, old, t))
      BY <1>5, <2>2, <3>1, CloseOwnBlock
    <3> QED BY <2>3, <2>4, <3>2
  <2>5. CASE text[t].kind # "named_endblock"
    <3>1. \A b \in 1 .. m : p[at[b]] # t
      <4> TAKE b \in 1 .. m
      <4>1. at[b] \in Openers(text) /\ text[at[b]].kind = "block"
        BY <1>5, <1>9 DEF Tags
      <4>2. ClosedKind(text[p[at[b]]]) = "block" /\ p[at[b]] \in DOMAIN text
        BY <4>1, PairsAreNested
      <4>3. text[p[at[b]]].kind \in {"endblock", "named_endblock"}
        BY <4>2 DEF ClosedKind, Closes, None
      <4>4. text[p[at[b]]].kind = "named_endblock"
        BY <4>2, <4>3 DEF Tags
      <4> QED BY <2>5, <4>4
    <3>2. \A b \in 1 .. m : p[at[b]] <= t <=> p[at[b]] <= j
      BY <1>9, <3>1
    <3> QED BY <2>2, <2>3, <2>5, <3>2 DEF BlocksAfter
  <2> QED BY <2>4, <2>5
<1>13. n \in N
  <2> HIDE DEF N
  <2> QED BY <1>11, <1>12, Induction
<1>14. PICK blocks : blocks = Blocks(text, regions)
  OBVIOUS
<1>15. BlocksAfter(text, regions, p, m, at, n, blocks)
  BY <1>2, <1>13, <1>14 DEF Closing
<1>16. /\ DOMAIN blocks = 1 .. m
       /\ \A b \in 1 .. m :
            blocks[b].span = Statement(at[b]) /\ blocks[b].name = text[at[b]].names[1] /\ blocks[b].body = OwnBody(text, p, at[b])
  <2>1. \A b \in 1 .. m : p[at[b]] <= n
    BY <1>9
  <2> QED BY <1>15, <2>1 DEF BlocksAfter
<1>17. BlocksAre(text, p, blocks)
  <2>1. \A d \in Elements(blocks) : \E b \in 1 .. m : d = blocks[b]
    BY <1>16 DEF Elements
  <2>2. \A b \in 1 .. m : blocks[b] \in Elements(blocks) /\ at[b] \in Tags(text, {"block"})
    BY <1>5, <1>16 DEF Elements
  <2>3. ASSUME NEW i \in Tags(text, {"block"}) PROVE \E d \in Elements(blocks) : d.span = Statement(i)
    <3>1. PICK b \in 1 .. m : at[b] = i
      BY <1>5
    <3> QED BY <1>16, <2>2, <3>1
  <2>4. ASSUME NEW d \in Elements(blocks)
        PROVE  \E i \in Tags(text, {"block"}) : d.span = Statement(i) /\ d.name = text[i].names[1] /\ d.body = OwnBody(text, p, i)
    <3>1. PICK b \in 1 .. m : d = blocks[b]
      BY <2>1
    <3> QED BY <1>16, <2>2, <3>1
  <2> QED BY <2>3, <2>4 DEF BlocksAre
<1> QED BY <1>14, <1>17

\* Definitions of a kind are those of its tags, with their own bodies.
DefinitionsAre(text, p, A, definitions) ==
  /\ \A d \in Elements(definitions) : \E i \in A : d.span = Statement(i) /\ d.body = OwnBody(text, p, i)
  /\ \A i \in A : \E d \in Elements(definitions) : d.span = Statement(i)

\* The macros of a text are its macro tags.
LEMMA MacrosAre ==
  ASSUME NEW text, IsText(text), NEW p, IsPairing(text, p)
  PROVE  DefinitionsAre(text, p, Tags(text, {"macro"}), Macros(text))
<1> PICK A : A = Tags(text, {"macro"})
  OBVIOUS
<1> PICK F : F = [i \in DOMAIN text |-> Macro(text, i)]
  OBVIOUS
<1> PICK seqs : seqs = [i \in DOMAIN text |-> IF i \in A THEN <<F[i]>> ELSE <<>>]
  OBVIOUS
<1>1. A \in SUBSET DOMAIN text /\ \A i \in DOMAIN text : i \in A <=> text[i].kind \in {"macro"}
  BY DEF Tags
<1>2. seqs = [i \in DOMAIN text |-> IF text[i].kind \in {"macro"} THEN <<Macro(text, i)>> ELSE <<>>]
  BY <1>1
<1>3. Macros(text) = FlattenSeq(seqs)
  BY <1>2 DEF Macros, Each
<1>4. PICK m, at : Lists(FlattenSeq(seqs), m, at, A, F)
  BY <1>1, OnePerTag
<1>5. PICK s : s = Macros(text)
  OBVIOUS
<1>6. /\ m \in Nat /\ at \in [1 .. m -> A] /\ s = [b \in 1 .. m |-> F[at[b]]]
      /\ \A i \in A : \E b \in 1 .. m : at[b] = i
  BY <1>3, <1>4, <1>5 DEF Lists
<1>7. \A b \in 1 .. m : at[b] \in A /\ s[b] = Macro(text, at[b])
  BY <1>1, <1>6
<1>8. \A i \in A : Macro(text, i).span = Statement(i) /\ Macro(text, i).body = OwnBody(text, p, i)
  <2> TAKE i \in A
  <2>1. MacroBody(text, i) = OwnBody(text, p, i)
    BY MacroBodyIsOwn DEF OwnBody
  <2> QED BY <2>1 DEF Macro
<1>9. DOMAIN s = 1 .. m
  BY <1>6
<1>10. \A d \in Elements(s) : \E b \in 1 .. m : d = s[b]
  BY <1>9 DEF Elements
<1>11. \A i \in A : \E d \in Elements(s) : d.span = Statement(i)
  <2> TAKE i \in A
  <2>1. PICK b \in 1 .. m : at[b] = i
    BY <1>6
  <2>2. s[b] \in Elements(s)
    BY <1>9 DEF Elements
  <2> QED BY <1>7, <1>8, <2>1, <2>2
<1>12. \A d \in Elements(s) : \E i \in A : d.span = Statement(i) /\ d.body = OwnBody(text, p, i)
  <2> TAKE d \in Elements(s)
  <2>1. PICK b \in 1 .. m : d = s[b]
    BY <1>10
  <2> QED BY <1>7, <1>8, <2>1
<1> QED BY <1>5, <1>11, <1>12 DEF DefinitionsAre

\* A body covers a use when its tag is around it, and of two around a use the later is the smaller.
LEMMA BodiesNest ==
  ASSUME NEW text, IsText(text), NEW p, IsPairing(text, p), NEW use \in DOMAIN text, NEW k \in 1 .. 6
  PROVE  /\ \A i \in Openers(text) : /\ Covers(OwnBody(text, p, i), Name(use, k)) <=> i \in Around(text, use)
                                     /\ Length(OwnBody(text, p, i)) \in Nat
         /\ \A i, h \in Openers(text) : i \in Around(text, use) /\ h \in Around(text, use) /\ i < h
              => Length(OwnBody(text, p, h)) < Length(OwnBody(text, p, i))
<1>1. use \in Nat
  BY DEF IsText
<1>2. Name(use, k).lo = 8 * use + k /\ Name(use, k).hi = 8 * use + k + 1
  BY <1>1, TagOfName, k \in 1 .. 7
<1>3. \A i \in Openers(text) : i \in Nat /\ p[i] \in Nat /\ i < p[i]
  BY PairsAreNested
<1>4. Around(text, use) = {h \in Openers(text) : h < use /\ use < p[h]}
  BY InnermostAround
<1>5. \A i \in Openers(text) : OwnBody(text, p, i).lo = 8 * i + 7 /\ OwnBody(text, p, i).hi = 8 * p[i]
  BY DEF OwnBody, Span, TagEnd, TagStart, Width
<1>6. \A i \in Openers(text) : 8 * i + 7 < 8 * p[i]
  BY <1>3
<1>7. \A i \in Openers(text) : Length(OwnBody(text, p, i)) = 8 * p[i] - (8 * i + 7)
  BY <1>5, <1>6 DEF Length
<1>8. ASSUME NEW i \in Openers(text) PROVE Covers(OwnBody(text, p, i), Name(use, k)) <=> i \in Around(text, use)
  <2>1. (8 * i + 7 <= 8 * use + k <=> i < use) /\ (8 * use + k + 1 <= 8 * p[i] <=> use < p[i])
    BY <1>1, <1>3
  <2>2. Covers(OwnBody(text, p, i), Name(use, k)) <=> 8 * i + 7 <= 8 * use + k /\ 8 * use + k + 1 <= 8 * p[i]
    BY <1>2, <1>5, <1>6 DEF Covers, NonEmpty
  <2> QED BY <1>4, <2>1, <2>2
<1>9. ASSUME NEW i \in Openers(text), NEW h \in Openers(text), i \in Around(text, use), h \in Around(text, use), i < h
      PROVE  Length(OwnBody(text, p, h)) < Length(OwnBody(text, p, i))
  <2>1. h < use /\ use < p[i]
    BY <1>4, <1>9
  <2>2. h < p[i]
    BY <1>1, <1>3, <2>1
  <2>3. p[h] < p[i]
    BY <1>9, <2>2, PairsAreNested
  <2>4. 8 * p[h] - (8 * h + 7) < 8 * p[i] - (8 * i + 7)
    BY <1>3, <1>9, <2>3
  <2> QED BY <1>7, <2>4
<1>10. \A i \in Openers(text) : Length(OwnBody(text, p, i)) \in Nat
  <2> TAKE i \in Openers(text)
  <2>1. 8 * p[i] - (8 * i + 7) \in Nat
    BY <1>3, <1>6
  <2> QED BY <1>7, <2>1
<1> QED BY <1>8, <1>9, <1>10

\* The first of some places of a list.
FirstOf(list, hits) == {list[i] : i \in {j \in hits : \A h \in hits : j <= h}}
IsFirst(list, hits, X) == \E i \in hits : X = {list[i]} /\ list[i] \in Elements(list) /\ \A h \in hits : i <= h

\* It is one of them.
LEMMA FirstOfHits ==
  ASSUME NEW S, NEW list \in Seq(S), NEW hits, hits \subseteq DOMAIN list, hits # {}
  PROVE  IsFirst(list, hits, FirstOf(list, hits))
<1> PICK X : X = {list[i] : i \in {j \in hits : \A h \in hits : j <= h}}
  OBVIOUS
<1>1. \E i \in hits : X = {list[i]} /\ list[i] \in Elements(list) /\ \A h \in hits : i <= h
  BY SomeIs
<1> QED BY <1>1 DEF IsFirst, FirstOf

\* The smallest of some definitions around a span.
Smallest(definitions, span) ==
  Some(definitions, LAMBDA d :
    d \in {e \in Elements(definitions) : Covers(e.body, span)}
    /\ \A e \in {c \in Elements(definitions) : Covers(c.body, span)} : Length(d.body) <= Length(e.body))

\* What is found at a use is the definition of the latest tag around it, when there is one.
LatestAround(text, p, use, A, found) ==
  LET M == Around(text, use) \cap A
  IN  /\ M = {} => found = {}
      /\ M # {} => \E d, i : /\ found = {d} /\ i \in M /\ \A h \in M : h <= i
                             /\ d.span = Statement(i) /\ d.body = OwnBody(text, p, i)

\* The smallest definition around a use is that of the latest tag around it.
LEMMA SmallestIsLatest ==
  ASSUME NEW text, IsText(text), NEW p, IsPairing(text, p), NEW use \in DOMAIN text, NEW k \in 1 .. 6,
         NEW A, A \subseteq Openers(text), NEW S, NEW definitions \in Seq(S), DefinitionsAre(text, p, A, definitions)
  PROVE  LatestAround(text, p, use, A, Smallest(definitions, Name(use, k)))
<1> DEFINE M == Around(text, use) \cap A
           C == {e \in Elements(definitions) : Covers(e.body, Name(use, k))}
           hits == {b \in DOMAIN definitions : definitions[b] \in C /\ \A e \in C : Length(definitions[b].body) <= Length(e.body)}
<1>1. Smallest(definitions, Name(use, k)) = {definitions[b] : b \in {j \in hits : \A h \in hits : j <= h}}
  BY Zenon DEF Smallest, Some
<1>2. \A i \in A : /\ Covers(OwnBody(text, p, i), Name(use, k)) <=> i \in Around(text, use)
                   /\ Length(OwnBody(text, p, i)) \in Nat
  BY BodiesNest
<1>3. \A d \in C : \E i \in M : d.span = Statement(i) /\ d.body = OwnBody(text, p, i)
  <2> TAKE d \in C
  <2>1. PICK i \in A : d.span = Statement(i) /\ d.body = OwnBody(text, p, i)
    BY DEF DefinitionsAre
  <2> QED BY <1>2, <2>1
<1>4. \A i \in Openers(text) : i \in Nat
  BY PairsAreNested
<1>5. \A i \in M : \E d \in C : d.span = Statement(i) /\ d.body = OwnBody(text, p, i)
  <2> TAKE i \in M
  <2>1. PICK d \in Elements(definitions) : d.span = Statement(i)
    BY DEF DefinitionsAre
  <2>2. PICK h \in A : d.span = Statement(h) /\ d.body = OwnBody(text, p, h)
    BY DEF DefinitionsAre
  <2>3. i \in Nat /\ h \in Nat
    BY <1>4
  <2>4. TagOf(Statement(i).lo) = i /\ TagOf(Statement(h).lo) = h
    BY <2>3, StatementIs
  <2>5. h = i
    BY <2>1, <2>2, <2>4
  <2> QED BY <1>2, <2>2, <2>5
<1> HIDE DEF C, M
<1>6. ASSUME M = {} PROVE Smallest(definitions, Name(use, k)) = {}
  <2>1. C = {}
    BY <1>3, <1>6
  <2>2. hits = {}
    BY <2>1
  <2> HIDE DEF hits
  <2> QED BY <1>1, <2>2
<1>7. ASSUME M # {}
      PROVE  \E d, i : /\ Smallest(definitions, Name(use, k)) = {d} /\ i \in M /\ \A h \in M : h <= i
                       /\ d.span = Statement(i) /\ d.body = OwnBody(text, p, i)
  <2>1. PICK o \in M : \A h \in M : h <= o
    <3>1. PICK n \in Nat : DOMAIN text = 1 .. n
      BY DEF IsText
    <3>2. M \in SUBSET (0 .. n)
      BY <3>1 DEF M, Openers, Tags
    <3> QED BY <1>7, <3>1, <3>2, GreatestExists
  <2>2. PICK w \in C : w.span = Statement(o) /\ w.body = OwnBody(text, p, o)
    BY <1>5
  <2>3. \A i \in M : i # o => Length(OwnBody(text, p, o)) < Length(OwnBody(text, p, i))
    <3> TAKE i \in M
    <3>1. i \in Openers(text) /\ o \in Openers(text) /\ i \in Around(text, use) /\ o \in Around(text, use) /\ i \in Nat /\ o \in Nat
      BY <1>4 DEF M
    <3>2. i # o => i < o
      BY <2>1, <3>1
    <3> QED BY <3>1, <3>2, BodiesNest
  <2>4. \A i \in M : Length(OwnBody(text, p, i)) \in Nat
    BY <1>2 DEF M
  <2>5. \A e \in C : Length(w.body) <= Length(e.body)
    <3> TAKE e \in C
    <3>1. PICK i \in M : e.body = OwnBody(text, p, i)
      BY <1>3
    <3>2. i = o \/ Length(OwnBody(text, p, o)) < Length(OwnBody(text, p, i))
      BY <2>3
    <3> QED BY <2>2, <2>4, <3>1, <3>2
  <2>6. \A d \in C : (\A e \in C : Length(d.body) <= Length(e.body)) => d.span = Statement(o) /\ d.body = OwnBody(text, p, o)
    <3> TAKE d \in C
    <3>1. PICK i \in M : d.span = Statement(i) /\ d.body = OwnBody(text, p, i)
      BY <1>3
    <3>2. Length(d.body) <= Length(w.body) => i = o
      BY <2>2, <2>3, <2>4, <3>1
    <3> QED BY <3>1, <3>2
  <2>7. hits # {} /\ hits \subseteq DOMAIN definitions
    <3>1. PICK b \in DOMAIN definitions : definitions[b] = w
      BY DEF C, Elements
    <3> QED BY <2>5, <3>1
  <2>8. PICK H : H = hits
    OBVIOUS
  <2>9. IsFirst(definitions, H, FirstOf(definitions, H))
    <3>1. H # {} /\ H \subseteq DOMAIN definitions
      <4> HIDE DEF hits
      <4> QED BY <2>7, <2>8
    <3> QED BY <3>1, FirstOfHits
  <2>10. Smallest(definitions, Name(use, k)) = FirstOf(definitions, H)
    <3> HIDE DEF hits
    <3> QED BY <1>1, <2>8 DEF FirstOf
  <2>11. PICK b \in hits : FirstOf(definitions, H) = {definitions[b]}
    <3> HIDE DEF hits
    <3> QED BY <2>8, <2>9 DEF IsFirst
  <2>12. Smallest(definitions, Name(use, k)) = {definitions[b]}
    BY <2>10, <2>11
  <2>13. definitions[b].span = Statement(o) /\ definitions[b].body = OwnBody(text, p, o)
    BY <2>6
  <2> QED BY <2>1, <2>12, <2>13
<1> QED BY <1>6, <1>7 DEF M, LatestAround

\* The owner of a use is of the latest macro or block around it.
LEMMA OwnerIsLatest ==
  ASSUME NEW text, IsText(text), NEW p, IsPairing(text, p), NEW use \in DOMAIN text, NEW k \in 1 .. 6,
         NEW facts, facts.macros = Macros(text), facts.blocks = Blocks(text, BuildScopeRegions(text)),
         DefinitionsAre(text, p, Tags(text, {"block"}), facts.blocks),
         NEW M, M = Around(text, use) \cap Tags(text, {"macro", "block"})
  PROVE  /\ M = {} => EnclosingOwner(facts, Name(use, k)).kind = "template"
         /\ M # {} => /\ EnclosingOwner(facts, Name(use, k)).kind # "template"
                      /\ TagOf(EnclosingOwner(facts, Name(use, k)).definition.span.lo) \in M
                      /\ \A h \in M : h <= TagOf(EnclosingOwner(facts, Name(use, k)).definition.span.lo)
<1> PICK span : span = Name(use, k)
  OBVIOUS
<1> PICK macro : macro = Smallest(facts.macros, span)
  OBVIOUS
<1> PICK block : block = Smallest(facts.blocks, span)
  OBVIOUS
<1>1. EnclosingOwner(facts, span) =
        IF macro = {} /\ block = {} THEN [kind |-> "template"]
        ELSE IF block = {} \/ (macro # {} /\ Length(Only(macro).body) <= Length(Only(block).body))
        THEN [kind |-> "macro", definition |-> Only(macro)]
        ELSE [kind |-> "block", definition |-> Only(block)]
  BY DEF EnclosingOwner, Smallest
<1> DEFINE A == Tags(text, {"macro"})
           B == Tags(text, {"block"})
<1>2. A \subseteq Openers(text) /\ B \subseteq Openers(text) /\ M = (Around(text, use) \cap A) \cup (Around(text, use) \cap B)
      /\ A \cap B = {}
  BY DEF Openers, Tags, ScopeKinds
<1>3. DefinitionsAre(text, p, A, facts.macros)
  BY MacrosAre
<1>4. /\ \E S : facts.macros \in Seq(S)
      /\ \E S : facts.blocks \in Seq(S)
  <2>1. Macros(text) \in Seq({Macro(text, i) : i \in Tags(text, {"macro"})})
    BY MacrosOfTags
  <2>2. Blocks(text, BuildScopeRegions(text)) \in Seq(BlockSet(text, BuildScopeRegions(text)))
    BY BlocksType
  <2> QED BY <2>1, <2>2, Zenon
<1> HIDE DEF A, B
<1>5. /\ Around(text, use) \cap A = {} => macro = {}
      /\ Around(text, use) \cap A # {} =>
           \E d, i : /\ macro = {d} /\ i \in Around(text, use) \cap A
                     /\ \A h \in Around(text, use) \cap A : h <= i
                     /\ d.span = Statement(i) /\ d.body = OwnBody(text, p, i)
  <2> PICK definitions : definitions = facts.macros
    OBVIOUS
  <2>1. PICK S : definitions \in Seq(S)
    BY <1>4
  <2>2. DefinitionsAre(text, p, A, definitions)
    BY <1>3
  <2>3. LatestAround(text, p, use, A, Smallest(definitions, Name(use, k)))
    BY <1>2, <2>1, <2>2, SmallestIsLatest
  <2>4. Smallest(definitions, Name(use, k)) = macro
    OBVIOUS
  <2> QED BY <2>3, <2>4 DEF LatestAround
<1>6. /\ Around(text, use) \cap B = {} => block = {}
      /\ Around(text, use) \cap B # {} =>
           \E d, i : /\ block = {d} /\ i \in Around(text, use) \cap B
                     /\ \A h \in Around(text, use) \cap B : h <= i
                     /\ d.span = Statement(i) /\ d.body = OwnBody(text, p, i)
  <2> PICK definitions : definitions = facts.blocks
    OBVIOUS
  <2>1. PICK S : definitions \in Seq(S)
    BY <1>4
  <2>2. DefinitionsAre(text, p, B, definitions)
    BY DEF B
  <2>3. LatestAround(text, p, use, B, Smallest(definitions, Name(use, k)))
    BY <1>2, <2>1, <2>2, SmallestIsLatest
  <2>4. Smallest(definitions, Name(use, k)) = block
    OBVIOUS
  <2> QED BY <2>3, <2>4 DEF LatestAround
<1> DEFINE owner == EnclosingOwner(facts, span)
<1>7. \A x : Only({x}) = x
  BY OnlyIs
<1>8. \A i \in Openers(text) : i \in Nat /\ TagOf(Statement(i).lo) = i
  <2> TAKE i \in Openers(text)
  <2>1. i \in Nat
    BY PairsAreNested
  <2> QED BY <2>1, StatementIs
<1>9. CASE Around(text, use) \cap A = {} /\ Around(text, use) \cap B = {}
  <2>1. M = {} /\ macro = {} /\ block = {}
    BY <1>2, <1>5, <1>6, <1>9
  <2> QED BY <1>1, <2>1
<1>10. CASE Around(text, use) \cap A # {} /\ Around(text, use) \cap B = {}
  <2>1. PICK d, i : /\ macro = {d} /\ i \in Around(text, use) \cap A
                    /\ \A h \in Around(text, use) \cap A : h <= i /\ d.span = Statement(i)
    BY <1>5, <1>10
  <2>2. block = {} /\ M = Around(text, use) \cap A
    BY <1>2, <1>6, <1>10
  <2>3. owner = [kind |-> "macro", definition |-> d]
    BY <1>1, <1>7, <2>1, <2>2
  <2>4. owner.kind = "macro" /\ owner.definition = d
    BY <2>3
  <2> HIDE DEF owner
  <2>5. TagOf(d.span.lo) = i
    BY <1>2, <1>8, <2>1
  <2> QED BY <2>1, <2>2, <2>4, <2>5 DEF owner
<1>11. CASE Around(text, use) \cap A = {} /\ Around(text, use) \cap B # {}
  <2>1. PICK d, i : /\ block = {d} /\ i \in Around(text, use) \cap B
                    /\ \A h \in Around(text, use) \cap B : h <= i /\ d.span = Statement(i)
    BY <1>6, <1>11
  <2>2. macro = {} /\ M = Around(text, use) \cap B
    BY <1>2, <1>5, <1>11
  <2>3. owner = [kind |-> "block", definition |-> d]
    BY <1>1, <1>7, <2>1, <2>2
  <2>4. owner.kind = "block" /\ owner.definition = d
    BY <2>3
  <2> HIDE DEF owner
  <2>5. TagOf(d.span.lo) = i
    BY <1>2, <1>8, <2>1
  <2> QED BY <2>1, <2>2, <2>4, <2>5 DEF owner
<1>12. CASE Around(text, use) \cap A # {} /\ Around(text, use) \cap B # {}
  <2>1. PICK d, i : /\ macro = {d} /\ i \in Around(text, use) \cap A
                    /\ \A h \in Around(text, use) \cap A : h <= i
                    /\ d.span = Statement(i) /\ d.body = OwnBody(text, p, i)
    BY <1>5, <1>12
  <2>2. PICK e, j : /\ block = {e} /\ j \in Around(text, use) \cap B
                    /\ \A h \in Around(text, use) \cap B : h <= j
                    /\ e.span = Statement(j) /\ e.body = OwnBody(text, p, j)
    BY <1>6, <1>12
  <2>3. owner = IF Length(d.body) <= Length(e.body) THEN [kind |-> "macro", definition |-> d]
                ELSE [kind |-> "block", definition |-> e]
    BY <1>1, <1>7, <2>1, <2>2
  <2>4. owner.kind # "template" /\ owner.definition = IF Length(d.body) <= Length(e.body) THEN d ELSE e
    BY <2>3
  <2> HIDE DEF owner
  <2>5. TagOf(d.span.lo) = i /\ TagOf(e.span.lo) = j
    BY <1>2, <1>8, <2>1, <2>2
  <2>6. i \in Openers(text) /\ j \in Openers(text) /\ i \in Around(text, use) /\ j \in Around(text, use) /\ i # j
        /\ i \in Nat /\ j \in Nat
    BY <1>2, <1>8, <2>1, <2>2
  <2>7. /\ i < j => Length(OwnBody(text, p, j)) < Length(OwnBody(text, p, i))
        /\ j < i => Length(OwnBody(text, p, i)) < Length(OwnBody(text, p, j))
        /\ Length(OwnBody(text, p, i)) \in Nat /\ Length(OwnBody(text, p, j)) \in Nat
    BY <2>6, BodiesNest
  <2>8. i < j \/ j < i
    BY <2>6
  <2>9. \A h \in M : h \in Nat
    BY <1>2, <1>8
  <2>10. CASE i < j
    <3>1. owner.definition = e
      BY <2>1, <2>2, <2>4, <2>7, <2>10
    <3>2. \A h \in M : h <= j
      BY <1>2, <2>1, <2>2, <2>6, <2>9, <2>10
    <3> QED BY <1>2, <2>2, <2>4, <2>5, <3>1, <3>2 DEF owner
  <2>11. CASE j < i
    <3>1. owner.definition = d
      BY <2>1, <2>2, <2>4, <2>7, <2>11
    <3>2. \A h \in M : h <= i
      BY <1>2, <2>1, <2>2, <2>6, <2>9, <2>11
    <3> QED BY <1>2, <2>1, <2>4, <2>5, <3>1, <3>2 DEF owner
  <2> QED BY <2>8, <2>10, <2>11
<1> QED BY <1>9, <1>10, <1>11, <1>12

\* Owners are innermost.
LEMMA ProjectOwnsInnermost == IInv => OwnersAreInnermost
<1> SUFFICES ASSUME IInv, NEW k \in Templates, WellNested(texts[k]), Readable(texts[k]),
                    Tags(texts[k], {"endblock"}) = {} \/ Tags(texts[k], ErrorKinds) = {},
                    NEW r \in Elements(index[k].references),
                    NEW meant, meant = Latest(Around(texts[k], TagOf(r.span.lo)) \cap Tags(texts[k], {"macro", "block"}))
             PROVE  IF meant = {} THEN EnclosingOwner(index[k], r.span).kind = "template"
                    ELSE /\ EnclosingOwner(index[k], r.span).kind # "template"
                         /\ TagOf(EnclosingOwner(index[k], r.span).definition.span.lo) = Only(meant)
  BY DEF OwnersAreInnermost
<1> PICK text : text = texts[k]
  OBVIOUS
<1> PICK facts : facts = index[k]
  OBVIOUS
<1>1. IsText(text) /\ facts.references = References(text) /\ facts.macros = Macros(text)
      /\ facts.blocks = Blocks(text, BuildScopeRegions(text))
  BY IndexIs
<1>2. PICK p : IsPairing(text, p)
  BY <1>1, PairsOf
<1>3. PICK use \in Tags(text, ReferenceKinds), t \in 1 .. 6 : r.span = Name(use, t)
  BY <1>1, ReferenceIs
<1>4. use \in DOMAIN text /\ use \in Nat /\ t \in 1 .. 7
  BY <1>1, <1>3 DEF Tags, IsText
<1>5. TagOf(r.span.lo) = use
  BY <1>3, <1>4, TagOfName
<1>6. BlocksAre(text, p, facts.blocks)
  BY <1>1, <1>2, PlainBlocks, NamedBlocks
<1>7. DefinitionsAre(text, p, Tags(text, {"block"}), facts.blocks)
  BY <1>6 DEF BlocksAre, DefinitionsAre
<1> PICK M : M = Around(text, use) \cap Tags(text, {"macro", "block"})
  OBVIOUS
<1> PICK owner : owner = EnclosingOwner(facts, Name(use, t))
  OBVIOUS
<1>8. /\ M = {} => owner.kind = "template"
      /\ M # {} => /\ owner.kind # "template"
                   /\ TagOf(owner.definition.span.lo) \in M
                   /\ \A h \in M : h <= TagOf(owner.definition.span.lo)
  BY <1>1, <1>2, <1>4, <1>7, OwnerIsLatest, SMTT(40)
<1>9. meant = Latest(M) /\ owner = EnclosingOwner(index[k], r.span)
  BY <1>3, <1>5
<1>10. M \in SUBSET Nat
  BY <1>1 DEF Tags, IsText
<1>11. CASE M = {}
  BY <1>8, <1>9, <1>11 DEF Latest
<1>12. CASE M # {}
  <2> PICK i : i = TagOf(owner.definition.span.lo)
    OBVIOUS
  <2>1. i \in M /\ \A h \in M : h <= i
    BY <1>8, <1>12
  <2>2. \A h \in M : i <= h => h = i
    BY <1>10, <2>1
  <2>3. meant = {i}
    BY <1>9, <2>1, <2>2 DEF Latest
  <2>4. Only(meant) = i
    BY <2>3, OnlyIs
  <2> QED BY <1>8, <1>9, <1>12, <2>3, <2>4
<1> QED BY <1>11, <1>12

\* In a project that is as it is typed, scopes are lexical.
LEMMA ProjectScopesAreLexical == IInv => ScopesAreLexical
BY ProjectBindsLexically, ProjectKeepsLoops, ProjectOwnsInnermost DEF ScopesAreLexical

\* What the extractor recovers is nesting.
THEOREM ScopesLexical == Spec => []ScopesAreLexical
<1>1. IInv => ScopesAreLexical
  BY ProjectScopesAreLexical
<1> QED BY <1>1, AlwaysProject, PTL
=============================================================================
