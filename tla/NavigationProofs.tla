-------------------------- MODULE NavigationProofs --------------------------
(***************************************************************************)
(* What the features show of a use is what the checks say of it. A place   *)
(* is bound by the binding whose region reaches it most narrowly, for the  *)
(* checks and for the features alike; and the macro a call names in the    *)
(* checks is the one the jump, the references and the call hierarchy lead  *)
(* to.  The walks over imports and parents, which stop at what they have   *)
(* met, find what can be reached: cycles are reported at every template of *)
(* them, and definition, lenses, super() and cards show one inheritance.   *)
(* The parameters shown at a call are those its arguments are checked      *)
(* against, and a use is coloured unknown where the checks report it;      *)
(* it is reported where nothing defines it, and completion offers it where *)
(* something does.                                                         *)
(***************************************************************************)
EXTENDS ScopeProofs, TemplateViews

(***************************************************************************)
(* The features that search the bindings themselves.  A range goes from    *)
(* the end of a tag to the start of one, so whether its ends belong to it  *)
(* makes no difference for an identifier.                                  *)
(***************************************************************************)
IsRange(s) == s = NoSpan \/ \E i, q \in Nat : s = Span(TagEnd(i), TagStart(q))

\* The range of every variable.
LEMMA VariableRange ==
  ASSUME NEW text, IsText(text), NEW v \in Elements(Variables(text, BuildScopeRegions(text)))
  PROVE  IsRange(v.validRange)
<1> PICK R : R = Elements(BuildScopeRegions(text))
  OBVIOUS
<1> PICK regions : regions = BuildScopeRegions(text)
  OBVIOUS
<1>1. PICK i \in Tags(text, BindingKinds) : v.validRange = RangeAt(text, regions, i) /\ i \in Nat
  BY VariableIs
<1>2. \A r \in R : \E a, b \in Nat : r.span = Span(TagEnd(a), TagStart(b)) /\ r.span.hi = TagStart(b)
  <2> TAKE r \in R
  <2>1. r \in PlacedRegions
    BY RegionsArePlaced
  <2>2. r.span \in [lo : TagEnds, hi : TagStarts]
    BY <2>1 DEF PlacedRegions
  <2>3. r.span = [lo |-> r.span.lo, hi |-> r.span.hi] /\ r.span.lo \in TagEnds /\ r.span.hi \in TagStarts
    BY <2>2
  <2>4. PICK a \in Nat : r.span.lo = TagEnd(a)
    BY <2>3 DEF TagEnds
  <2>5. PICK b \in Nat : r.span.hi = TagStart(b)
    BY <2>3 DEF TagStarts
  <2> QED BY <2>3, <2>4, <2>5 DEF Span
<1>3. \E q \in Nat : SourceEnd(text) = TagStart(q)
  <2>1. Len(text) + 1 \in Nat /\ SourceEnd(text) = TagStart(Len(text) + 1)
    BY DEF IsText, SourceEnd, TagStart, Width
  <2> QED BY <2>1
<1>4. CASE text[i].kind \in {"set", "set_block"}
  <2> DEFINE around == {r \in R : ByteIn(TagEnd(i), r.span)}
             inner == {r \in around : \A q \in around : q.depth <= r.depth}
  <2>1. EnclosingRegion(regions, TagEnd(i)) = inner
    BY Zenon DEF EnclosingRegion
  <2>2. v.validRange = Span(TagEnd(i), IF inner = {} THEN SourceEnd(text) ELSE Only(inner).span.hi)
    BY <1>1, <1>4, <2>1 DEF RangeAt, SetRange
  <2>3. inner # {} => Only(inner) \in R
    <3>1. inner \subseteq R
      OBVIOUS
    <3>2. inner # {} => Only(inner) \in inner
      <4> HIDE DEF inner
      <4> QED BY DEF Only
    <3> QED BY <3>1, <3>2
  <2> HIDE DEF inner
  <2>4. \E q \in Nat : v.validRange = Span(TagEnd(i), TagStart(q))
    <3>1. CASE inner = {}
      BY <1>3, <2>2, <3>1
    <3>2. CASE inner # {}
      BY <1>2, <2>2, <2>3, <3>2
    <3> QED BY <3>1, <3>2
  <2> QED BY <1>1, <2>4 DEF IsRange
<1>5. CASE text[i].kind \in {"for", "with"}
  <2> DEFINE own == {r \in R : r.scope = text[i].kind /\ r.span.lo = TagEnd(i)}
  <2>1. v.validRange = IF own = {} THEN Span(TagEnd(i), SourceEnd(text)) ELSE Only(own).span
    BY <1>1, <1>5 DEF RangeAt, BodyRange
  <2>2. own # {} => Only(own) \in R
    <3>1. own \subseteq R
      OBVIOUS
    <3>2. own # {} => Only(own) \in own
      <4> HIDE DEF own
      <4> QED BY DEF Only
    <3> QED BY <3>1, <3>2
  <2> HIDE DEF own
  <2>3. CASE own = {}
    BY <1>1, <1>3, <2>1, <2>3 DEF IsRange
  <2>4. CASE own # {}
    BY <1>2, <2>1, <2>2, <2>4 DEF IsRange
  <2> QED BY <2>3, <2>4
<1>6. CASE text[i].kind \notin {"set", "set_block", "for", "with"}
  BY <1>1, <1>6 DEF RangeAt, IsRange
<1> QED BY <1>4, <1>5, <1>6

\* An identifier is within a range with its ends, without them or not at all.
LEMMA InRange ==
  ASSUME NEW s, IsRange(s), NEW i \in Nat, NEW k \in 1 .. 6, i > 0
  PROVE  LET byte == Name(i, k).lo
         IN  /\ Length(s) \in Nat /\ s.lo \in Nat /\ s.hi \in Nat
             /\ Covers(s, Name(i, k)) <=> ByteIn(byte, s)
             /\ Covers(s, Name(i, k)) <=> s.lo <= byte /\ byte <= s.hi
             /\ Covers(s, Name(i, k)) => NonEmpty(s)
<1> PICK byte : byte = Name(i, k).lo
  OBVIOUS
<1>1. byte = 8 * i + k /\ Name(i, k).hi = 8 * i + k + 1
  BY TagOfName, k \in 1 .. 7
<1>2. ASSUME NEW lo \in Nat, NEW hi \in Nat, s = Span(lo, hi)
      PROVE  /\ s.lo = lo /\ s.hi = hi /\ Length(s) \in Nat /\ (NonEmpty(s) <=> lo < hi)
             /\ (Covers(s, Name(i, k)) <=> lo < hi /\ lo <= byte /\ byte + 1 <= hi)
             /\ (ByteIn(byte, s) <=> lo <= byte /\ byte < hi)
  <2>1. s.lo = lo /\ s.hi = hi
    BY <1>2 DEF Span
  <2> PICK t : t = Name(i, k)
    OBVIOUS
  <2>2. t.lo = byte /\ t.hi = byte + 1
    BY <1>1
  <2> QED BY <2>1, <2>2 DEF Length, NonEmpty, Covers, ByteIn
<1>3. CASE s = NoSpan
  <2>1. s = Span(0, 0)
    BY <1>3 DEF NoSpan
  <2>2. byte \in Nat /\ byte > 0
    BY <1>1
  <2> QED BY <1>2, <2>1, <2>2
<1>4. CASE s # NoSpan
  <2>1. PICK a \in Nat, b \in Nat : s = Span(TagEnd(a), TagStart(b))
    BY <1>4 DEF IsRange
  <2>2. TagEnd(a) = 8 * a + 7 /\ TagStart(b) = 8 * b
    BY DEF TagEnd, TagStart, Width
  <2>3. 8 * a + 7 \in Nat /\ 8 * b \in Nat /\ byte \in Nat
    BY <1>1
  <2>4. byte <= 8 * b <=> byte + 1 <= 8 * b
    BY <1>1
  <2>5. byte < 8 * b <=> byte + 1 <= 8 * b
    BY <2>3
  <2>6. 8 * a + 7 <= byte /\ byte + 1 <= 8 * b => 8 * a + 7 < 8 * b
    BY <2>3
  <2> HIDE DEF Covers, ByteIn, NonEmpty
  <2>7. s = Span(8 * a + 7, 8 * b)
    BY <2>1, <2>2
  <2>8. /\ s.lo = 8 * a + 7 /\ s.hi = 8 * b /\ Length(s) \in Nat /\ (NonEmpty(s) <=> 8 * a + 7 < 8 * b)
        /\ (Covers(s, Name(i, k)) <=> 8 * a + 7 < 8 * b /\ 8 * a + 7 <= byte /\ byte + 1 <= 8 * b)
        /\ (ByteIn(byte, s) <=> 8 * a + 7 <= byte /\ byte < 8 * b)
    BY <1>2, <2>3, <2>7
  <2> QED BY <2>3, <2>4, <2>5, <2>6, <2>8
<1> QED BY <1>3, <1>4

\* The variables of a name around a span, and the first of the smallest of some variables.
Reaching(facts, name, span) == {v \in Elements(facts.variables) : v.name = name /\ Covers(v.validRange, span)}
SmallestOf(binders, C) ==
  {i \in DOMAIN binders : binders[i] \in C /\ \A w \in C : Length(binders[i].validRange) <= Length(w.validRange)}
Picked(binders, C) == FirstOf(binders, SmallestOf(binders, C))

\* Some variable is picked unless there is none.
LEMMA SomeIsPicked ==
  ASSUME NEW S, NEW binders \in Seq(S), NEW C, C \subseteq Elements(binders),
         \A v \in C : Length(v.validRange) \in Nat
  PROVE  /\ C = {} => Picked(binders, C) = {}
         /\ C # {} => IsFirst(binders, SmallestOf(binders, C), Picked(binders, C))
<1>1. CASE C = {}
  <2>1. SmallestOf(binders, C) = {}
    BY <1>1 DEF SmallestOf
  <2> QED BY <1>1, <2>1 DEF Picked, FirstOf
<1>2. CASE C # {}
  <2>1. PICK v \in C : \A w \in C : Length(v.validRange) <= Length(w.validRange)
    BY <1>2, SmallestExists
  <2>2. PICK i \in DOMAIN binders : binders[i] = v
    BY DEF Elements
  <2>3. SmallestOf(binders, C) \subseteq DOMAIN binders /\ SmallestOf(binders, C) # {}
    BY <2>1, <2>2 DEF SmallestOf
  <2> QED BY <1>2, <2>3, FirstOfHits DEF Picked
<1> QED BY <1>1, <1>2

\* How definition and highlight pick a variable.
DefinedAt(facts, name, byte) ==
  SmallestFirst(facts.variables, LAMBDA v : v.name = name /\ ByteIn(byte, v.validRange), LAMBDA v : Length(v.validRange))
WrittenAt(facts, name, byte) ==
  SmallestFirst(facts.variables, LAMBDA v : v.name = name /\ v.validRange.lo <= byte /\ byte <= v.validRange.hi,
                LAMBDA v : Length(v.validRange))

\* All walks pick the same one.
LEMMA WalksPick ==
  ASSUME NEW facts, \A v \in Elements(facts.variables) : IsRange(v.validRange),
         NEW i \in Nat, NEW k \in 1 .. 6, i > 0, NEW name, NEW ref, ref.name = name, ref.span = Name(i, k)
  PROVE  LET picked == Picked(facts.variables, Reaching(facts, name, Name(i, k)))
         IN  /\ InnermostBinding(facts, ref) = picked
             /\ TightestBinding(facts, name, Name(i, k).lo) = picked
             /\ DefinedAt(facts, name, Name(i, k).lo) = picked
             /\ WrittenAt(facts, name, Name(i, k).lo) = picked
<1> DEFINE binders == facts.variables
           byte == Name(i, k).lo
           C == Reaching(facts, name, Name(i, k))
           P(v) == v.name = ref.name /\ Covers(v.validRange, ref.span)
           Q(v) == v.name = name /\ NonEmpty(v.validRange) /\ v.validRange.lo <= byte /\ byte <= v.validRange.hi
           D(v) == v.name = name /\ ByteIn(byte, v.validRange)
           W(v) == v.name = name /\ v.validRange.lo <= byte /\ byte <= v.validRange.hi
           hits == SmallestOf(binders, C)
           hitsP == {j \in DOMAIN binders : P(binders[j]) /\ \A y \in Elements(binders) : P(y) => Length(binders[j].validRange) <= Length(y.validRange)}
           hitsQ == {j \in DOMAIN binders : Q(binders[j]) /\ \A y \in Elements(binders) : Q(y) => Length(binders[j].validRange) <= Length(y.validRange)}
           hitsD == {j \in DOMAIN binders : D(binders[j]) /\ \A y \in Elements(binders) : D(y) => Length(binders[j].validRange) <= Length(y.validRange)}
           hitsW == {j \in DOMAIN binders : W(binders[j]) /\ \A y \in Elements(binders) : W(y) => Length(binders[j].validRange) <= Length(y.validRange)}
<1>1. InnermostBinding(facts, ref) = FirstOf(binders, hitsP)
  BY Zenon DEF InnermostBinding, SmallestFirst, Some, FirstOf
<1>2. TightestBinding(facts, name, byte) = FirstOf(binders, hitsQ)
  BY Zenon DEF TightestBinding, SmallestFirst, Some, FirstOf
<1>3. DefinedAt(facts, name, byte) = FirstOf(binders, hitsD)
  BY Zenon DEF DefinedAt, SmallestFirst, Some, FirstOf
<1>4. WrittenAt(facts, name, byte) = FirstOf(binders, hitsW)
  BY Zenon DEF WrittenAt, SmallestFirst, Some, FirstOf
<1>5. ASSUME NEW v \in Elements(binders)
      PROVE  (v \in C <=> P(v)) /\ (v \in C <=> Q(v)) /\ (v \in C <=> D(v)) /\ (v \in C <=> W(v))
  <2>1. v \in C <=> v.name = name /\ Covers(v.validRange, Name(i, k))
    BY DEF Reaching
  <2>2. /\ Covers(v.validRange, Name(i, k)) <=> ByteIn(byte, v.validRange)
        /\ Covers(v.validRange, Name(i, k)) <=> v.validRange.lo <= byte /\ byte <= v.validRange.hi
        /\ Covers(v.validRange, Name(i, k)) => NonEmpty(v.validRange)
    BY InRange
  <2> QED BY <2>1, <2>2
<1> HIDE DEF C, P, Q, D, W
<1>6. ASSUME NEW j \in DOMAIN binders PROVE binders[j] \in Elements(binders)
  BY DEF Elements
<1>7. \A v \in C : v \in Elements(binders)
  BY DEF C, Reaching
<1>8. hits = {j \in DOMAIN binders : binders[j] \in C /\ \A w \in C : Length(binders[j].validRange) <= Length(w.validRange)}
  BY DEF SmallestOf
<1> HIDE DEF hits
<1>9. hitsP = hits
  BY <1>5, <1>6, <1>7, <1>8
<1>10. hitsQ = hits
  BY <1>5, <1>6, <1>7, <1>8
<1>11. hitsD = hits
  BY <1>5, <1>6, <1>7, <1>8
<1>12. hitsW = hits
  BY <1>5, <1>6, <1>7, <1>8
<1> HIDE DEF hitsP, hitsQ, hitsD, hitsW
<1> QED BY <1>1, <1>2, <1>3, <1>4, <1>9, <1>10, <1>11, <1>12 DEF Picked, hits, C

\* The references at a byte.
LEMMA UsesAtByte ==
  ASSUME NEW text, IsText(text), NEW facts, facts.references = References(text), NEW byte
  PROVE  LET uses == UsesAt(facts, byte)
         IN  /\ \E S : uses \in Seq(S)
             /\ Elements(uses) = {r \in Elements(References(text)) : ByteIn(byte, r.span)}
<1> PICK list : list = References(text)
  OBVIOUS
<1>1. PICK S : list \in Seq(S)
  BY ReferencesOfTags
<1> DEFINE seqs == [i \in DOMAIN list |-> IF ByteIn(byte, list[i].span) THEN <<list[i]>> ELSE <<>>]
           uses == UsesAt(facts, byte)
<1>2. uses = FlattenSeq(seqs)
  BY Zenon DEF UsesAt, Satisfying
<1>3. ASSUME NEW i \in DOMAIN list
      PROVE  seqs[i] \in Seq(S) /\ ToSet(seqs[i]) = {r \in {list[i]} : ByteIn(byte, r.span)}
  <2>1. list[i] \in S
    BY <1>1
  <2> PICK x : x = list[i]
    OBVIOUS
  <2>2. <<x>> \in Seq(S) /\ <<>> \in Seq(S) /\ ToSet(<<x>>) = {x} /\ ToSet(<<>>) = {}
    BY <2>1 DEF ToSet
  <2>3. seqs[i] = IF ByteIn(byte, x.span) THEN <<x>> ELSE <<>>
    OBVIOUS
  <2> HIDE DEF seqs
  <2>4. CASE ByteIn(byte, x.span)
    BY <2>2, <2>3, <2>4
  <2>5. CASE ~ByteIn(byte, x.span)
    BY <2>2, <2>3, <2>5
  <2> QED BY <2>4, <2>5
<1>4. seqs \in Seq(Seq(S)) /\ DOMAIN seqs = DOMAIN list
  <2>1. PICK n \in Nat : DOMAIN list = 1 .. n
    BY <1>1
  <2>2. seqs = [i \in 1 .. n |-> seqs[i]]
    BY <2>1
  <2> HIDE DEF seqs
  <2> QED BY <1>3, <2>1, <2>2
<1> HIDE DEF seqs
<1>5. uses \in Seq(S)
  BY <1>2, <1>4, FlattenSeqType
<1>6. ToSet(uses) = UNION {ToSet(seqs[i]) : i \in DOMAIN seqs}
  BY <1>2, <1>4, FlattenSeqElements
<1>7. \A s : Elements(s) = ToSet(s)
  BY DEF Elements, ToSet
<1>8. Elements(uses) = {r \in Elements(list) : ByteIn(byte, r.span)}
  <2>1. ASSUME NEW r PROVE r \in ToSet(uses) <=> r \in Elements(list) /\ ByteIn(byte, r.span)
    BY <1>3, <1>4, <1>6 DEF Elements
  <2> QED BY <1>7, <2>1
<1> QED BY <1>5, <1>8

\* An empty list is one without elements, and the first element is one.
LEMMA FirstElement ==
  ASSUME NEW S, NEW list \in Seq(S)
  PROVE  /\ list = <<>> <=> Elements(list) = {}
         /\ list # <<>> => \E x \in Elements(list) : Some(list, LAMBDA r : TRUE) = {x}
<1>1. list = <<>> <=> DOMAIN list = {}
  <2>1. PICK n \in Nat : list \in [1 .. n -> S] /\ n = Len(list) /\ DOMAIN list = 1 .. n
    OBVIOUS
  <2>2. n # 0 => 1 \in 1 .. n
    BY <2>1
  <2>3. n = 0 => list = <<>>
    BY <2>1
  <2> QED BY <2>1, <2>2, <2>3
<1>2. list = <<>> <=> Elements(list) = {}
  BY <1>1 DEF Elements
<1>3. ASSUME list # <<>> PROVE \E x \in Elements(list) : Some(list, LAMBDA r : TRUE) = {x}
  <2>1. DOMAIN list # {} /\ DOMAIN list \subseteq DOMAIN list
    BY <1>1, <1>3
  <2> PICK H : H = DOMAIN list
    OBVIOUS
  <2>2. IsFirst(list, H, FirstOf(list, H))
    BY <2>1, FirstOfHits
  <2>3. Some(list, LAMBDA r : TRUE) = FirstOf(list, {i \in DOMAIN list : TRUE})
    BY Zenon DEF Some, FirstOf
  <2>4. {i \in DOMAIN list : TRUE} = H
    OBVIOUS
  <2> QED BY <2>2, <2>3, <2>4 DEF IsFirst
<1> QED BY <1>2, <1>3

\* The first of some lookups that finds something.
LEMMA FirstFoundIs ==
  ASSUME NEW lookups, DOMAIN lookups \in SUBSET Nat, NEW j \in DOMAIN lookups,
         \A i \in DOMAIN lookups : i < j => lookups[i] = {}
  PROVE  lookups[j] # {} => FirstFound(lookups) = lookups[j]
<1> DEFINE hits == {i \in DOMAIN lookups : lookups[i] # {}}
<1>1. SUFFICES ASSUME lookups[j] # {} PROVE FirstFound(lookups) = lookups[j]
  OBVIOUS
<1>2. j \in hits /\ \A i \in hits : j <= i
  <2>1. \A i \in DOMAIN lookups : i \in Nat
    OBVIOUS
  <2> QED BY <1>1, <2>1
<1>3. {i \in hits : \A h \in hits : i <= h} = {j}
  <2>1. hits \subseteq Nat
    OBVIOUS
  <2> HIDE DEF hits
  <2> QED BY <1>2, <2>1
<1>4. Some(lookups, LAMBDA found : found # {}) = {lookups[i] : i \in {i \in hits : \A h \in hits : i <= h}}
  BY Zenon DEF Some
<1>5. Some(lookups, LAMBDA found : found # {}) = {lookups[j]}
  BY <1>3, <1>4
<1> QED BY <1>5 DEF FirstFound

\* The first of two.
LEMMA FirstOfTwo ==
  ASSUME NEW A, A # {}
  PROVE  FirstFound(<<A, {}>>) = A
<1> PICK s : s = <<A, {}>>
  OBVIOUS
<1>1. DOMAIN s \in SUBSET Nat /\ DOMAIN s = 1 .. 2 /\ s[1] = A
  OBVIOUS
<1> PICK j : j = 1
  OBVIOUS
<1>2. 1 \in DOMAIN s /\ \A i \in DOMAIN s : i < 1 => s[i] = {}
  BY <1>1
<1>3. j \in DOMAIN s /\ \A i \in DOMAIN s : i < j => s[i] = {}
  BY <1>2
<1> QED BY <1>1, <1>3, FirstFoundIs

\* The second of two.
LEMMA SecondOfTwo ==
  ASSUME NEW B, B # {}
  PROVE  FirstFound(<<{}, B>>) = B
<1> PICK s : s = <<{}, B>>
  OBVIOUS
<1>1. DOMAIN s \in SUBSET Nat /\ DOMAIN s = 1 .. 2 /\ s[1] = {} /\ s[2] = B
  OBVIOUS
<1> PICK j : j = 2
  OBVIOUS
<1>2. 2 \in DOMAIN s /\ \A i \in DOMAIN s : i < 2 => s[i] = {}
  BY <1>1
<1>3. j \in DOMAIN s /\ \A i \in DOMAIN s : i < j => s[i] = {}
  BY <1>2
<1> QED BY <1>1, <1>3, FirstFoundIs

\* The fourth of four.
LEMMA FourthOfFour ==
  ASSUME NEW B, B # {}
  PROVE  FirstFound(<<{}, {}, {}, B>>) = B
<1> PICK s : s = <<{}, {}, {}, B>>
  OBVIOUS
<1>1. DOMAIN s \in SUBSET Nat /\ DOMAIN s = 1 .. 4 /\ s[1] = {} /\ s[2] = {} /\ s[3] = {} /\ s[4] = B
  OBVIOUS
<1> PICK j : j = 4
  OBVIOUS
<1>2. 4 \in DOMAIN s /\ \A i \in DOMAIN s : i < 4 => s[i] = {}
  BY <1>1
<1>3. j \in DOMAIN s /\ \A i \in DOMAIN s : i < j => s[i] = {}
  BY <1>2
<1> QED BY <1>1, <1>3, FirstFoundIs

\* The fourth of six.
LEMMA FourthOfSix ==
  ASSUME NEW B, B # {}, NEW C, NEW D
  PROVE  FirstFound(<<{}, {}, {}, B, C, D>>) = B
<1> PICK s : s = <<{}, {}, {}, B, C, D>>
  OBVIOUS
<1>1. DOMAIN s \in SUBSET Nat /\ DOMAIN s = 1 .. 6 /\ s[1] = {} /\ s[2] = {} /\ s[3] = {} /\ s[4] = B
  OBVIOUS
<1> PICK j : j = 4
  OBVIOUS
<1>2. 4 \in DOMAIN s /\ \A i \in DOMAIN s : i < 4 => s[i] = {}
  BY <1>1
<1>3. j \in DOMAIN s /\ \A i \in DOMAIN s : i < j => s[i] = {}
  BY <1>2
<1> QED BY <1>1, <1>3, FirstFoundIs

\* A cursor and what is used at it.
LEMMA CursorUse ==
  ASSUME IInv, NEW k \in Templates, NEW c \in CursorsIn(k), NEW r \in Elements(UsesAt(index[k], Byte(c)))
  PROVE  /\ c.key = k /\ c.tag \in DOMAIN texts[k] /\ c.tag \in Nat /\ c.tag > 0 /\ c.token \in 1 .. 6
         /\ Byte(c) = Name(c.tag, c.token).lo
         /\ r \in Elements(index[k].references) /\ r.span = Name(c.tag, c.token) /\ r.name = Word(texts[k], c)
<1> PICK text : text = texts[k]
  OBVIOUS
<1>1. IsText(text) /\ index[k].references = References(text)
  BY IndexIs
<1>2. PICK n \in Nat : DOMAIN text = 1 .. n
  BY <1>1 DEF IsText
<1>3. c.key = k /\ c.tag \in DOMAIN text /\ c.token \in 1 .. 5
  BY DEF CursorsIn, Width
<1>4. r \in Elements(References(text)) /\ ByteIn(Byte(c), r.span)
  BY <1>1, UsesAtByte
<1>5. PICK i \in Tags(text, ReferenceKinds), j \in 1 .. 6 : r.name = Token(text[i], j) /\ r.span = Name(i, j)
  BY <1>1, <1>4, ReferenceIs
<1>6. i \in Nat /\ c.tag \in Nat /\ c.tag > 0
  BY <1>2, <1>3 DEF Tags
<1>7. Byte(c) = 8 * c.tag + c.token /\ r.span.lo = 8 * i + j /\ r.span.hi = 8 * i + j + 1
  <2>1. c.token \in 1 .. 7 /\ j \in 1 .. 7
    BY <1>3
  <2>2. Byte(c) = 8 * c.tag + c.token
    BY <1>6, <2>1, TagOfName DEF Byte
  <2>3. r.span.lo = 8 * i + j /\ r.span.hi = 8 * i + j + 1
    BY <1>5, <1>6, <2>1, TagOfName
  <2> QED BY <2>2, <2>3
<1>8. 8 * i + j <= 8 * c.tag + c.token /\ 8 * c.tag + c.token < 8 * i + j + 1
  BY <1>4, <1>7 DEF ByteIn
<1>9. i = c.tag /\ j = c.token
  BY <1>3, <1>6, <1>8
<1> QED BY <1>1, <1>3, <1>4, <1>5, <1>6, <1>9 DEF Byte, Word

\* The variables of a name are all that has it.
OnlyBound(k, name) ==
  /\ name \notin MacroNames(index[k]) \cup EffectiveNames(index[k]) \cup AliasNames(index[k])
  /\ BlockNamed(index[k], name) = {} /\ ~IsHostOwned(name) /\ ~ImportedElsewise(k, name)
  /\ name # "super" /\ name # None

\* Then no other lookup finds it.
LEMMA OthersFindNothing ==
  ASSUME IInv, NEW k \in Templates, NEW name, OnlyBound(k, name), NEW facts, facts = index[k]
  PROVE  /\ MacroNamed(facts, name) = {}
         /\ \A fi \in Elements(facts.fromImports) : \A n \in Elements(fi.names) : ~(n.name = name \/ n.alias = name)
         /\ \A a \in Elements(facts.importAliases) : a.alias # name
         /\ \A b \in Elements(facts.blocks) : b.name # name
<1>1. MacroNamed(facts, name) = {}
  <2>1. \A m \in Elements(facts.macros) : m.name # name
    BY DEF OnlyBound, MacroNames
  <2>2. {i \in DOMAIN facts.macros : facts.macros[i].name = name} = {}
    BY <2>1 DEF Elements
  <2>3. MacroNamed(facts, name) =
          {facts.macros[i] : i \in {j \in {i \in DOMAIN facts.macros : facts.macros[i].name = name} :
                                      \A h \in {i \in DOMAIN facts.macros : facts.macros[i].name = name} : j <= h}}
    BY Zenon DEF MacroNamed, Some
  <2> HIDE DEF MacroNamed
  <2> QED BY <2>2, <2>3
<1>2. ASSUME NEW fi \in Elements(facts.fromImports), NEW n \in Elements(fi.names), n.name = name \/ n.alias = name
      PROVE  FALSE
  <2>1. Effective(n) # name
    BY DEF OnlyBound, EffectiveNames
  <2>2. n.name # name
    BY <2>1 DEF OnlyBound, ImportedElsewise
  <2>3. n.alias # None
    BY <1>2, <2>2 DEF OnlyBound
  <2> QED BY <1>2, <2>1, <2>2, <2>3 DEF Effective
<1>3. \A a \in Elements(facts.importAliases) : a.alias # name
  BY DEF OnlyBound, AliasNames
<1>4. ASSUME NEW b \in Elements(facts.blocks), b.name = name PROVE FALSE
  <2> PICK blocks : blocks = facts.blocks
    OBVIOUS
  <2> DEFINE hits == {i \in DOMAIN blocks : blocks[i].name = name}
  <2>1. DOMAIN blocks \in SUBSET Nat
    BY IndexIs, BlocksType, NaturalDomain
  <2>2. hits # {} /\ hits \in SUBSET Nat
    BY <1>4, <2>1 DEF Elements
  <2>3. PICK i \in hits : \A h \in hits : i <= h
    <3> HIDE DEF hits
    <3> QED BY <2>2, LeastExists
  <2>4. BlockNamed(facts, name) = {blocks[j] : j \in {j \in hits : \A h \in hits : j <= h}}
    BY Zenon DEF BlockNamed, Some
  <2> HIDE DEF hits
  <2>5. BlockNamed(facts, name) # {}
    BY <2>3, <2>4
  <2> QED BY <2>5 DEF OnlyBound
<1> QED BY <1>1, <1>2, <1>3, <1>4

\* A use at a cursor whose name is only that of variables, and the binding it resolves to.
BoundUse(k, c, r, v) ==
  /\ k \in Templates /\ c \in CursorsIn(k) /\ r \in Elements(UsesAt(index[k], Byte(c)))
  /\ OnlyBound(k, Word(texts[k], c)) /\ ~IsParameter(index[k], r)
  /\ \A u \in Elements(UsesAt(index[k], Byte(c))) : u.kind = "identifier"
  /\ v \in InnermostBinding(index[k], r)

\* All walks find that binding.
LEMMA WalksFind ==
  ASSUME IInv, NEW k, NEW c, NEW r, NEW v, BoundUse(k, c, r, v),
         NEW facts, facts = index[k], NEW name, name = Word(texts[k], c), NEW byte, byte = Byte(c)
  PROVE  /\ v \in Elements(facts.variables) /\ v.name = name /\ Covers(v.validRange, r.span)
         /\ InnermostBinding(facts, r) = {v} /\ TightestBinding(facts, name, byte) = {v}
         /\ DefinedAt(facts, name, byte) = {v} /\ WrittenAt(facts, name, byte) = {v}
         /\ \E i \in DOMAIN facts.variables :
              /\ facts.variables[i] = v
              /\ \A j \in DOMAIN facts.variables :
                   facts.variables[j].name = name /\ facts.variables[j].validRange = v.validRange => i <= j
<1> PICK text : text = texts[k]
  OBVIOUS
<1> PICK binders : binders = facts.variables
  OBVIOUS
<1>1. k \in Templates /\ c \in CursorsIn(k) /\ r \in Elements(UsesAt(index[k], Byte(c))) /\ v \in InnermostBinding(facts, r)
  BY DEF BoundUse
<1>2. /\ c.tag \in Nat /\ c.tag > 0 /\ c.token \in 1 .. 6 /\ byte = Name(c.tag, c.token).lo
      /\ r.span = Name(c.tag, c.token) /\ r.name = name
  BY <1>1, CursorUse
<1> PICK i : i = c.tag
  OBVIOUS
<1> PICK l : l = c.token
  OBVIOUS
<1>3. IsText(text) /\ binders = Variables(text, BuildScopeRegions(text))
  BY <1>1, IndexIs
<1>4. \A w \in Elements(binders) : IsRange(w.validRange)
  BY <1>3, VariableRange
<1> PICK C : C = Reaching(facts, name, Name(i, l))
  OBVIOUS
<1>5. /\ InnermostBinding(facts, r) = Picked(binders, C)
      /\ TightestBinding(facts, name, byte) = Picked(binders, C)
      /\ DefinedAt(facts, name, byte) = Picked(binders, C)
      /\ WrittenAt(facts, name, byte) = Picked(binders, C)
  <2>1. i \in Nat /\ l \in 1 .. 6 /\ i > 0 /\ r.name = name /\ r.span = Name(i, l) /\ byte = Name(i, l).lo
    BY <1>2
  <2>2. \A w \in Elements(facts.variables) : IsRange(w.validRange)
    BY <1>4
  <2> QED BY <2>1, <2>2, WalksPick
<1>6. C = {w \in Elements(binders) : w.name = name /\ Covers(w.validRange, r.span)}
  BY <1>2 DEF Reaching
<1>7. PICK S : binders \in Seq(S)
  BY <1>3, VariablesOfTags
<1>8. \A w \in C : Length(w.validRange) \in Nat
  <2> TAKE w \in C
  <2>1. IsRange(w.validRange)
    BY <1>4, <1>6
  <2> QED BY <1>2, <2>1, InRange
<1>9. C \subseteq Elements(binders)
  BY <1>6
<1>10. C # {}
  <2>1. C = {} => Picked(binders, C) = {}
    BY <1>7, <1>8, <1>9, SomeIsPicked
  <2> QED BY <1>1, <1>5, <2>1
<1>11. IsFirst(binders, SmallestOf(binders, C), Picked(binders, C))
  BY <1>7, <1>8, <1>9, <1>10, SomeIsPicked
<1>12. PICK j \in SmallestOf(binders, C) : Picked(binders, C) = {binders[j]} /\ \A h \in SmallestOf(binders, C) : j <= h
  BY <1>11 DEF IsFirst
<1>13. Picked(binders, C) = {v} /\ binders[j] = v
  BY <1>1, <1>5, <1>12
<1>14. j \in DOMAIN binders /\ v \in C /\ \A w \in C : Length(v.validRange) <= Length(w.validRange)
  BY <1>12, <1>13 DEF SmallestOf
<1>15. ASSUME NEW h \in DOMAIN binders, binders[h].name = name, binders[h].validRange = v.validRange PROVE j <= h
  <2>1. binders[h] \in Elements(binders)
    BY DEF Elements
  <2>2. binders[h] \in C
    BY <1>6, <1>14, <1>15, <2>1
  <2>3. h \in SmallestOf(binders, C)
    BY <1>14, <1>15, <2>2 DEF SmallestOf
  <2> QED BY <1>12, <2>3
<1> QED BY <1>5, <1>6, <1>13, <1>14, <1>15

\* Where every use is an identifier, so are those at the cursor.
LEMMA UsesAreRead ==
  ASSUME IInv, NEW k, NEW c, NEW r, NEW v, BoundUse(k, c, r, v)
  PROVE  /\ {u.kind : u \in Elements(UsesAt(index[k], Byte(c)))} = {"identifier"}
         /\ UsesAt(index[k], Byte(c)) # <<>>
         /\ \E x \in Elements(UsesAt(index[k], Byte(c))) :
              /\ {u \in Some(UsesAt(index[k], Byte(c)), LAMBDA u : TRUE) : u.kind = "identifier"} = {x}
              /\ x.name = Word(texts[k], c)
         /\ r \in Refs(index[k], {"identifier"})
<1> PICK uses : uses = UsesAt(index[k], Byte(c))
  OBVIOUS
<1>1. k \in Templates /\ c \in CursorsIn(k) /\ r \in Elements(uses) /\ \A u \in Elements(uses) : u.kind = "identifier"
  BY DEF BoundUse
<1>2. PICK S : uses \in Seq(S)
  BY <1>1, IndexIs, UsesAtByte
<1>3. uses # <<>> /\ \E x \in Elements(uses) : Some(uses, LAMBDA u : TRUE) = {x}
  <2>1. Elements(uses) # {}
    BY <1>1
  <2> QED BY <1>2, <2>1, FirstElement
<1>4. PICK x \in Elements(uses) : Some(uses, LAMBDA u : TRUE) = {x}
  BY <1>3
<1>5. {u.kind : u \in Elements(uses)} = {"identifier"}
  BY <1>1
<1>6. {u \in {x} : u.kind = "identifier"} = {x}
  BY <1>1, <1>4
<1>7. x.name = Word(texts[k], c)
  BY <1>1, <1>4, CursorUse
<1>8. r \in Elements(index[k].references)
  BY <1>1, CursorUse
<1> QED BY <1>1, <1>3, <1>4, <1>5, <1>6, <1>7, <1>8 DEF Refs

\* Go to definition goes to it.
LEMMA DefinitionFinds ==
  ASSUME IInv, NEW k, NEW c, NEW r, NEW v, BoundUse(k, c, r, v)
  PROVE  GoToDefinition(texts, index, c) = {Place(k, v.span)}
<1> PICK facts : facts = index[k]
  OBVIOUS
<1> PICK name : name = Word(texts[k], c)
  OBVIOUS
<1> PICK byte : byte = Byte(c)
  OBVIOUS
<1>1. k \in Templates /\ OnlyBound(k, name) /\ c.key = k
  BY CursorUse DEF BoundUse
<1>2. {u.kind : u \in Elements(UsesAt(facts, byte))} = {"identifier"}
  BY UsesAreRead
<1>3. DefinedAt(facts, name, byte) = {v}
  BY WalksFind
<1>4. MacroNamed(facts, name) = {}
  BY <1>1, OthersFindNothing
<1>5. ImportedDefinition(index, facts, name) = {}
  <2> DEFINE P(f) == \E n \in Elements(f.names) : n.name = name \/ n.alias = name
             list == facts.fromImports
             fis == Some(list, LAMBDA f : \E n \in Elements(f.names) : n.name = name \/ n.alias = name)
  <2>1. {i \in DOMAIN list : P(list[i])} = {}
    <3>1. \A i \in DOMAIN list : list[i] \in Elements(list)
      BY DEF Elements
    <3> QED BY <1>1, <3>1, OthersFindNothing
  <2>2. fis = {list[i] : i \in {j \in {i \in DOMAIN list : P(list[i])} : \A h \in {i \in DOMAIN list : P(list[i])} : j <= h}}
    BY Zenon DEF Some
  <2>3. fis = {}
    <3> HIDE DEF P
    <3> QED BY <2>1, <2>2
  <2> DEFINE imported(fi) == Some(fi.names, LAMBDA n : n.name = name \/ n.alias = name)
  <2>4. ImportedDefinition(index, facts, name) =
          UNION {UNION {{Place(m.key, m.macro.span) : m \in Imported(index, fi, n.name)} : n \in imported(fi)} : fi \in fis}
    BY Zenon DEF ImportedDefinition
  <2> HIDE DEF fis, imported
  <2> QED BY <2>3, <2>4
<1>6. Some(facts.importAliases, LAMBDA i : i.alias = name) = {}
  <2> DEFINE list == facts.importAliases
             hits == {i \in DOMAIN list : list[i].alias = name}
  <2>1. hits = {}
    <3>1. \A i \in DOMAIN list : list[i] \in Elements(list)
      BY DEF Elements
    <3> QED BY <1>1, <3>1, OthersFindNothing
  <2>2. Some(list, LAMBDA i : i.alias = name) = {list[i] : i \in {j \in hits : \A h \in hits : j <= h}}
    BY Zenon DEF Some
  <2> HIDE DEF hits
  <2> QED BY <2>1, <2>2
<1> DEFINE macros == {Place(k, m.span) : m \in MacroNamed(facts, name)}
           imported == ImportedDefinition(index, facts, name)
           aliases == {Place(k, a.span) : a \in Some(facts.importAliases, LAMBDA i : i.alias = name)}
           bound == {Place(k, w.span) : w \in DefinedAt(facts, name, byte)}
<1>7. ResolveIdent(index, k, name, byte) =
        IF name = "super" THEN ResolveSuper(index, k, byte)
        ELSE IF FirstFound(<<macros, imported, aliases>>) # {} THEN FirstFound(<<macros, imported, aliases>>)
        ELSE IF IsHostOwned(name) THEN {} ELSE bound
  BY Zenon DEF ResolveIdent, DefinedAt
<1>8. macros = {} /\ imported = {} /\ aliases = {}
  BY <1>4, <1>5, <1>6
<1>9. bound = {Place(k, v.span)}
  BY <1>3
<1> HIDE DEF macros, imported, aliases, bound
<1>10. FirstFound(<<macros, imported, aliases>>) = {}
  BY <1>8, FirstOfThree
<1>11. name # "super" /\ ~IsHostOwned(name)
  BY <1>1 DEF OnlyBound
<1>12. ResolveIdent(index, k, name, byte) = {Place(k, v.span)}
  BY <1>7, <1>9, <1>10, <1>11
<1> DEFINE kinds == {u.kind : u \in Elements(UsesAt(facts, byte))}
           tag == texts[k][c.tag]
           plain == IF kinds \cap {"function", "identifier"} = {} THEN {} ELSE ResolveIdent(index, k, name, byte)
           member == IF "attribute" \notin kinds THEN {}
                     ELSE IF tag.names[1] = "self" THEN ResolveSelfBlock(index, k, name)
                     ELSE ResolveAliasAttr(index, facts, tag.names[1], name)
           afterSelf == tag.kind = "invoke_member" /\ tag.names[1] = "self" /\ c.token = 2
<1>13. GoToDefinition(texts, index, c) =
         IF kinds \cap {"filter", "test"} # {} THEN {}
         ELSE IF plain \cup member # {} THEN FirstFound(<<plain, member>>)
         ELSE IF afterSelf THEN ResolveSelfBlock(index, k, name)
         ELSE FirstFound(<<ImportedDefinition(index, facts, name), OverriddenBlock(index, k, byte)>>)
  <2>1. k = c.key /\ facts = index[c.key] /\ name = Word(texts[c.key], c)
    BY <1>1
  <2> QED BY <2>1 DEF GoToDefinition
<1>14. kinds = {"identifier"}
  BY <1>2
<1> HIDE DEF kinds
<1>15. plain = {Place(k, v.span)} /\ member = {}
  BY <1>12, <1>14
<1>16. kinds \cap {"filter", "test"} = {}
  BY <1>14
<1> HIDE DEF plain, member, afterSelf
<1>17. GoToDefinition(texts, index, c) = FirstFound(<<plain, {}>>)
  BY <1>13, <1>15, <1>16
<1> QED BY <1>15, <1>17, FirstOfTwo

\* A lookup in a list without a hit.
LEMMA NothingHit == \A list, hits : hits = {} => FirstOf(list, hits) = {}
BY DEF FirstOf

\* The body of a macro is a range.
LEMMA MacroBodyRange ==
  ASSUME NEW text, IsText(text), NEW m \in Elements(Macros(text))
  PROVE  IsRange(m.body)
<1>1. PICK i \in Tags(text, {"macro"}) : m = Macro(text, i)
  <2> DEFINE S == {Macro(text, i) : i \in Tags(text, {"macro"})}
  <2>1. Macros(text) \in Seq(S)
    BY MacrosOfTags
  <2>2. m \in S
    <3> HIDE DEF S
    <3> QED BY <2>1 DEF Elements
  <2> QED BY <2>2
<1> DEFINE ends == {j \in i + 1 .. Len(text) : MacroDepth(text, i, j) = 0}
           last == CHOOSE j \in ends : \A e \in ends : j <= e
<1>2. m.body = Span(TagEnd(i), IF ends = {} THEN SourceEnd(text) ELSE TagStart(last))
  BY <1>1 DEF Macro, MacroBody
<1>3. i \in Nat /\ Len(text) \in Nat
  BY DEF IsText, Tags
<1>4. ends # {} => last \in Nat
  <2>1. ends \in SUBSET Nat
    BY <1>3
  <2> HIDE DEF ends
  <2>2. ends # {} => \E j \in ends : \A e \in ends : j <= e
    BY <2>1, LeastExists
  <2> QED BY <2>1, <2>2
<1>5. SourceEnd(text) = TagStart(Len(text) + 1)
  BY DEF SourceEnd, TagStart
<1> HIDE DEF ends, last
<1>6. CASE ends = {}
  BY <1>2, <1>3, <1>5, <1>6 DEF IsRange
<1>7. CASE ends # {}
  BY <1>2, <1>3, <1>4, <1>7 DEF IsRange
<1> QED BY <1>6, <1>7

\* What is highlighted for a name at a byte.
HighlightAt(facts, name, byte, cursor) ==
  LET header(definitions) == Some(definitions, LAMBDA d : d.name = name /\ ByteIn(byte, d.span))
      onHeader == FirstFound(<<header(facts.macros), header(facts.blocks)>>)
      bound == name \in AliasNames(facts) \/ \E v \in Elements(facts.variables) : v.name = name
  IN  IF onHeader # {} THEN {Highlighted({DefinitionName(d)}, AllReads(facts, name)) : d \in onHeader}
      ELSE IF IsHostOwned(name) THEN {}
      ELSE IF UsesAt(facts, byte) # <<>> THEN HighlightUse(facts, name, byte)
      ELSE IF bound THEN {Highlighted({Here(cursor)}, AllReads(facts, name))} ELSE {}

\* A highlight writes it.
LEMMA HighlightFinds ==
  ASSUME IInv, NEW k, NEW c, NEW r, NEW v, BoundUse(k, c, r, v), NEW h \in DocumentHighlight(texts[k], index[k], c)
  PROVE  h.writes = {v.span}
<1> PICK facts : facts = index[k]
  OBVIOUS
<1> PICK name : name = Word(texts[k], c)
  OBVIOUS
<1> PICK byte : byte = Byte(c)
  OBVIOUS
<1>1. k \in Templates /\ OnlyBound(k, name) /\ c \in CursorsIn(k) /\ ~IsParameter(facts, r)
      /\ r \in Elements(UsesAt(facts, byte))
  BY DEF BoundUse
<1>2. /\ c.tag \in Nat /\ c.tag > 0 /\ c.token \in 1 .. 6 /\ byte = Name(c.tag, c.token).lo
      /\ r.span = Name(c.tag, c.token) /\ r.name = name
  BY <1>1, CursorUse
<1>3. v \in Elements(facts.variables) /\ v.name = name /\ WrittenAt(facts, name, byte) = {v}
  BY WalksFind
<1>4. MacroNamed(facts, name) = {} /\ \A b \in Elements(facts.blocks) : b.name # name
  BY <1>1, OthersFindNothing
<1>5. BlockNamed(facts, name) = {} /\ ~IsHostOwned(name)
  BY <1>1 DEF OnlyBound
<1>6. \A m \in Elements(facts.macros) : m.name # name
  BY <1>1 DEF OnlyBound, MacroNames
<1> DEFINE header(definitions) == Some(definitions, LAMBDA d : d.name = name /\ ByteIn(byte, d.span))
           onHeader == FirstFound(<<header(facts.macros), header(facts.blocks)>>)
           bound == name \in AliasNames(facts) \/ \E w \in Elements(facts.variables) : w.name = name
<1>7. ASSUME NEW definitions, \A d \in Elements(definitions) : d.name # name PROVE header(definitions) = {}
  <2> DEFINE hits == {i \in DOMAIN definitions : definitions[i].name = name /\ ByteIn(byte, definitions[i].span)}
  <2>1. hits = {}
    BY <1>7 DEF Elements
  <2>2. header(definitions) = FirstOf(definitions, hits)
    BY Zenon DEF Some, FirstOf
  <2> HIDE DEF hits, header
  <2> QED BY <2>1, <2>2, NothingHit
<1>8. header(facts.macros) = {} /\ header(facts.blocks) = {}
  <2> HIDE DEF header
  <2> QED BY <1>4, <1>6, <1>7
<1>9. DocumentHighlight(texts[k], facts, c) =
        IF onHeader # {} THEN {Highlighted({DefinitionName(d)}, AllReads(facts, name)) : d \in onHeader}
        ELSE IF IsHostOwned(name) THEN {}
        ELSE IF UsesAt(facts, byte) # <<>> THEN HighlightUse(facts, name, byte)
        ELSE IF bound THEN {Highlighted({Here(c)}, AllReads(facts, name))} ELSE {}
  <2>1. DocumentHighlight(texts[k], facts, c) = HighlightAt(facts, Word(texts[k], c), Byte(c), c)
    BY Zenon DEF DocumentHighlight, HighlightAt
  <2>2. DocumentHighlight(texts[k], facts, c) = HighlightAt(facts, name, byte, c)
    BY <2>1
  <2> QED BY Zenon, <2>2 DEF HighlightAt
<1> HIDE DEF header
<1>10. onHeader = {}
  <2>1. onHeader = FirstFound(<<{}, {}>>)
    BY <1>8
  <2> PICK s : s = <<{}, {}>>
    OBVIOUS
  <2> DEFINE hits == {i \in DOMAIN s : s[i] # {}}
  <2>2. hits = {}
    OBVIOUS
  <2>3. Some(s, LAMBDA found : found # {}) = FirstOf(s, hits)
    BY Zenon DEF Some, FirstOf
  <2> HIDE DEF hits
  <2>4. Some(s, LAMBDA found : found # {}) = {}
    BY <2>2, <2>3, NothingHit
  <2>5. FirstFound(s) = UNION Some(s, LAMBDA found : found # {})
    BY Zenon DEF FirstFound
  <2>6. FirstFound(s) = {}
    BY <2>4, <2>5
  <2> QED BY <2>1, <2>6
<1>11. UsesAt(facts, byte) # <<>>
  BY UsesAreRead
<1> HIDE DEF onHeader, bound
<1>12. h \in HighlightUse(facts, name, byte)
  BY <1>5, <1>9, <1>10, <1>11
<1> DEFINE reads == AllReads(facts, name)
           with(writes) == {Highlighted(writes, reads)}
           imported == \E fi \in Elements(facts.fromImports) : \E n \in Elements(fi.names) : n.name = name
           ofMacro == UNION {with({DefinitionName(m)}) : m \in MacroNamed(facts, name)}
           ofBlock == UNION {with({DefinitionName(b)}) : b \in BlockNamed(facts, name)}
           ofParameter == HighlightParameter(facts, name, byte)
           ofVariable == IF \E w \in Elements(facts.variables) : w.name = name
                         THEN with({w.span : w \in WrittenAt(facts, name, byte)}) ELSE {}
           ofAlias == UNION {with({a.span}) : a \in Some(facts.importAliases, LAMBDA i : i.alias = name)}
           ofImport == IF imported THEN with({}) ELSE {}
<1>13. HighlightUse(facts, name, byte) = FirstFound(<<ofMacro, ofBlock, ofParameter, ofVariable, ofAlias, ofImport>>)
  BY Zenon DEF HighlightUse, WrittenAt
<1>14. ofMacro = {} /\ ofBlock = {}
  BY <1>4, <1>5
<1>15. ofParameter = {}
  <2> DEFINE list == facts.macros
             P(m) == /\ m.body.lo <= byte /\ byte <= m.body.hi
                     /\ \E q \in Elements(m.parameters) : q.name = name
             hits == {i \in DOMAIN list : P(list[i])}
             macros == Some(list, LAMBDA m : /\ m.body.lo <= byte /\ byte <= m.body.hi
                                             /\ \E q \in Elements(m.parameters) : q.name = name)
             param(m) == Some(m.parameters, LAMBDA q : q.name = name)
             readsIn(m) == {s \in AllReads(facts, name) : m.body.lo <= s.lo /\ s.hi <= m.body.hi}
  <2>1. macros = FirstOf(list, hits)
    BY Zenon DEF Some, FirstOf
  <2>2. ofParameter = {Highlighted({q.span : q \in param(m)}, readsIn(m)) : m \in macros}
    BY Zenon DEF HighlightParameter
  <2>3. ASSUME NEW m \in Elements(list), P(m) PROVE FALSE
    <3>1. m \in Elements(Macros(texts[k])) /\ IsText(texts[k])
      BY <1>1, <2>3, IndexIs
    <3>2. IsRange(m.body)
      BY <3>1, MacroBodyRange
    <3>3. Covers(m.body, Name(c.tag, c.token))
      BY <1>2, <2>3, <3>2, InRange
    <3>4. Covers(m.body, r.span) /\ \E q \in Elements(m.parameters) : q.name = r.name
      BY <1>2, <2>3, <3>3
    <3> QED BY <1>1, <3>4 DEF IsParameter
  <2> HIDE DEF P
  <2>4. hits = {}
    BY <2>3 DEF Elements
  <2> HIDE DEF hits
  <2>5. macros = {}
    <3> HIDE DEF macros
    <3> QED BY <2>1, <2>4, NothingHit
  <2> HIDE DEF param, readsIn, macros, ofParameter
  <2> QED BY <2>2, <2>5
<1>16. ofVariable = {Highlighted({v.span}, reads)}
  BY <1>3
<1> HIDE DEF ofMacro, ofBlock, ofParameter, ofVariable, ofAlias, ofImport
<1>17. HighlightUse(facts, name, byte) = ofVariable
  <2>1. HighlightUse(facts, name, byte) = FirstFound(<<{}, {}, {}, ofVariable, ofAlias, ofImport>>)
    BY <1>13, <1>14, <1>15
  <2>2. ofVariable # {}
    BY <1>16
  <2> QED BY <2>1, <2>2, FourthOfSix
<1>18. h = Highlighted({v.span}, reads)
  BY <1>12, <1>16, <1>17
<1> QED BY <1>18 DEF Highlighted

\* The references of a symbol.
ReferencesOfSymbol(files, templates, key, symbol, includeDeclaration) ==
  LET facts == templates[key]
      macros == MacroUses(templates, symbol.name, Only(symbol.places).key)
      blocks == UNION {{Place(k, b.span) :
                         b \in {c \in Elements(templates[k].blocks) :
                                  c.name = symbol.name /\ (includeDeclaration \/ k # key)}} :
                       k \in DOMAIN templates}
  IN  CASE symbol.kind = "macro" -> macros \cup {p \in symbol.places : includeDeclaration}
        [] symbol.kind = "block" -> blocks
        [] symbol.kind = "alias" -> AliasReferences(files[key], facts, key, symbol.name, includeDeclaration)
        [] symbol.kind = "local" -> LocalReferences(facts, key, symbol, includeDeclaration)

\* The symbol at the cursor is that binding, and its references have its place and that of the use.
LEMMA ReferencesFind ==
  ASSUME IInv, NEW k, NEW c, NEW r, NEW v, BoundUse(k, c, r, v)
  PROVE  {Place(k, v.span), Place(k, r.span)} \subseteq FindReferences(texts, index, c, TRUE)
<1> PICK facts : facts = index[k]
  OBVIOUS
<1> PICK name : name = Word(texts[k], c)
  OBVIOUS
<1> PICK byte : byte = Byte(c)
  OBVIOUS
<1>1. k \in Templates /\ OnlyBound(k, name) /\ c.key = k /\ r.name = name
  BY CursorUse DEF BoundUse
<1>2. v \in Elements(facts.variables) /\ v.name = name /\ Covers(v.validRange, r.span) /\ TightestBinding(facts, name, byte) = {v}
  BY WalksFind
<1>3. UsesAt(facts, byte) # <<>> /\ r \in Refs(facts, {"identifier"})
  BY UsesAreRead
<1>4. MacroNamed(facts, name) = {}
  BY <1>1, OthersFindNothing
<1> PICK symbol : symbol = [kind |-> "local", name |-> name, places |-> {}, scope |-> {v.validRange}]
  OBVIOUS
<1>5. symbol.kind = "local" /\ symbol.name = name /\ symbol.scope = {v.validRange}
  OBVIOUS
<1>6. LocalSymbol(facts, name, byte) = {symbol}
  BY <1>2 DEF LocalSymbol, Symbol
<1>7. ImportedSymbol(index, facts, name) = {}
  <2> DEFINE P(f) == \E n \in Elements(f.names) : n.name = name \/ n.alias = name
             list == facts.fromImports
             hits == {i \in DOMAIN list : P(list[i])}
             fis == Some(list, LAMBDA f : \E n \in Elements(f.names) : n.name = name \/ n.alias = name)
             source(fi) == FirstFound(<<ResolveKey(index, fi.source), {fi.source}>>)
             imported(fi) == Some(fi.names, LAMBDA n : n.name = name \/ n.alias = name)
             defined(fi) == UNION {Imported(index, fi, n.name) : n \in imported(fi)}
             span(fi) == IF defined(fi) = {} THEN NoSpan ELSE Only(defined(fi)).macro.span
  <2>1. hits = {}
    <3>1. \A i \in DOMAIN list : list[i] \in Elements(list)
      BY DEF Elements
    <3> QED BY <1>1, <3>1, OthersFindNothing
  <2>2. fis = FirstOf(list, hits)
    BY Zenon DEF Some, FirstOf
  <2>3. fis = {}
    <3> HIDE DEF hits, fis
    <3> QED BY <2>1, <2>2, NothingHit
  <2>4. ImportedSymbol(index, facts, name) =
          UNION {UNION {MacroSymbol(name, q, span(fi)) : q \in source(fi)} : fi \in fis}
    BY Zenon DEF ImportedSymbol
  <2> HIDE DEF fis, source, span
  <2> QED BY <2>3, <2>4
<1> DEFINE ofMacro == UNION {MacroSymbol(name, k, m.span) : m \in MacroNamed(facts, name)}
           ofImport == ImportedSymbol(index, facts, name)
           ofAlias == IF name \in AliasNames(facts) THEN Symbol("alias", name, {}, {}) ELSE {}
           ofVariable == IF \E w \in Elements(facts.variables) : w.name = name
                         THEN LocalSymbol(facts, name, byte) ELSE {}
<1>8. ClassifyReference(index, k, name, byte) = FirstFound(<<ofMacro, ofImport, ofAlias, ofVariable>>)
  BY DEF ClassifyReference
<1>9. ofMacro = {} /\ ofImport = {} /\ ofAlias = {}
  <2>1. ofAlias = {}
    BY <1>1 DEF OnlyBound
  <2> QED BY <1>4, <1>7, <2>1
<1>10. ofVariable = {symbol}
  BY <1>2, <1>6
<1> HIDE DEF ofMacro, ofImport, ofAlias, ofVariable
<1>11. ClassifyReference(index, k, name, byte) = {symbol}
  <2>1. ClassifyReference(index, k, name, byte) = FirstFound(<<{}, {}, {}, ofVariable>>)
    BY <1>8, <1>9
  <2>2. ofVariable # {}
    BY <1>10
  <2> QED BY <1>10, <2>1, <2>2, FourthOfFour
<1>12. SymbolAt(texts, index, c) = {symbol}
  <2>1. UsesAt(index[c.key], Byte(c)) # <<>> /\ c.key = k /\ Word(texts[c.key], c) = name /\ Byte(c) = byte
    BY <1>1, <1>3
  <2>2. UsesAt(index[c.key], Byte(c)) # <<>> =>
          SymbolAt(texts, index, c) = ClassifyReference(index, c.key, Word(texts[c.key], c), Byte(c))
    BY Zenon DEF SymbolAt
  <2> QED BY <1>11, <2>1, <2>2
<1>13. FindReferences(texts, index, c, TRUE) = LocalReferences(facts, k, symbol, TRUE)
  <2> PICK symbols : symbols = SymbolAt(texts, index, c)
    OBVIOUS
  <2>1. symbols # {} /\ Only(symbols) = symbol
    BY <1>12, OnlyIs
  <2> DEFINE macros == MacroUses(index, symbol.name, Only(symbol.places).key)
             blocks == UNION {{Place(q, b.span) :
                                b \in {d \in Elements(index[q].blocks) : d.name = symbol.name /\ (TRUE \/ q # k)}} :
                              q \in DOMAIN index}
  <2>2. symbol = Only(SymbolAt(texts, index, c)) /\ k = c.key /\ SymbolAt(texts, index, c) # {}
    BY <1>1, <2>1
  <2>3. FindReferences(texts, index, c, TRUE) =
          IF SymbolAt(texts, index, c) = {} THEN {}
          ELSE ReferencesOfSymbol(texts, index, c.key, Only(SymbolAt(texts, index, c)), TRUE)
    BY Zenon DEF FindReferences, ReferencesOfSymbol
  <2>4. FindReferences(texts, index, c, TRUE) = ReferencesOfSymbol(texts, index, k, symbol, TRUE)
    BY <2>2, <2>3
  <2>5. ReferencesOfSymbol(texts, index, k, symbol, TRUE) =
          CASE symbol.kind = "macro" -> macros \cup {q \in symbol.places : TRUE}
            [] symbol.kind = "block" -> blocks
            [] symbol.kind = "alias" -> AliasReferences(texts[k], index[k], k, symbol.name, TRUE)
            [] symbol.kind = "local" -> LocalReferences(index[k], k, symbol, TRUE)
    BY Zenon DEF ReferencesOfSymbol
  <2> HIDE DEF macros, blocks
  <2> QED BY Zenon, <1>5, <2>4, <2>5
<1> DEFINE inScope(span) == \A s \in symbol.scope : s.lo <= span.lo /\ span.lo <= s.hi
           list == facts.variables
           hits == {i \in DOMAIN list : list[i].name = symbol.name /\ \A s \in symbol.scope : list[i].validRange = s}
           declared == Some(list, LAMBDA w : w.name = symbol.name /\ \A s \in symbol.scope : w.validRange = s)
<1>14. LocalReferences(facts, k, symbol, TRUE) =
         {Place(k, u.span) : u \in {u \in Uses(facts, symbol.name) : inScope(u.span)}}
         \cup {Place(k, w.span) : w \in {d \in declared : TRUE}}
  BY Zenon DEF LocalReferences
<1>15. declared = FirstOf(list, hits)
  BY Zenon DEF Some, FirstOf
<1>16. v \in declared
  <2>1. PICK i \in DOMAIN list :
          list[i] = v /\ \A j \in DOMAIN list : list[j].name = name /\ list[j].validRange = v.validRange => i <= j
    BY WalksFind
  <2>2. i \in hits
    BY <1>2, <1>5, <2>1
  <2>3. \A h \in hits : i <= h
    BY <1>5, <2>1
  <2> HIDE DEF hits, declared
  <2> QED BY <1>15, <2>1, <2>2, <2>3 DEF FirstOf
<1>17. r \in Uses(facts, symbol.name)
  BY <1>1, <1>3, <1>5 DEF Uses, Refs
<1>18. inScope(r.span)
  <2>1. IsRange(v.validRange)
    BY <1>1, <1>2, IndexIs, VariableRange
  <2>2. c \in CursorsIn(k) /\ r \in Elements(UsesAt(index[k], Byte(c)))
    BY DEF BoundUse
  <2>3. c.tag \in Nat /\ c.tag > 0 /\ c.token \in 1 .. 6 /\ r.span = Name(c.tag, c.token)
    BY <1>1, <2>2, CursorUse
  <2>4. v.validRange.lo <= r.span.lo /\ r.span.lo <= v.validRange.hi
    BY <1>2, <2>1, <2>3, InRange
  <2> QED BY <1>5, <2>4
<1> HIDE DEF inScope, declared
<1>19. Place(k, v.span) \in LocalReferences(facts, k, symbol, TRUE) /\ Place(k, r.span) \in LocalReferences(facts, k, symbol, TRUE)
  BY <1>14, <1>16, <1>17, <1>18
<1> QED BY <1>13, <1>19

\* Target t is binding v, and its rename edits every use that resolves to v.
RenamesUses(k, t, v) ==
  /\ t.scope = {v.validRange}
  /\ {Place(k, u.span) : u \in {q \in Refs(index[k], {"identifier"}) : InnermostBinding(index[k], q) = {v}}}
       \subseteq ComputeRename(index, {k}, k, t)

\* A rename from the cursor is of that binding, and edits every use that resolves to it.
LEMMA RenameFinds ==
  ASSUME IInv, NEW k, NEW c, NEW r, NEW v, BoundUse(k, c, r, v), NEW t \in RenameAtCursor(texts[k], index[k], c)
  PROVE  RenamesUses(k, t, v)
<1> PICK facts : facts = index[k]
  OBVIOUS
<1> PICK name : name = Word(texts[k], c)
  OBVIOUS
<1> PICK byte : byte = Byte(c)
  OBVIOUS
<1>1. k \in Templates /\ OnlyBound(k, name)
  BY DEF BoundUse
<1>2. v \in Elements(facts.variables) /\ v.name = name /\ TightestBinding(facts, name, byte) = {v}
  BY WalksFind
<1>3. MacroNamed(facts, name) = {} /\ BlockNamed(facts, name) = {}
  BY <1>1, OthersFindNothing DEF OnlyBound
<1> DEFINE used == {u \in Some(UsesAt(facts, byte), LAMBDA u : TRUE) : u.kind = "identifier"}
           global == IF MacroNamed(facts, name) # {} \/ BlockNamed(facts, name) # {}
                     THEN Target("workspace", name, {}) ELSE {}
           locals == UNION {LocalTarget(facts, u.name, byte) : u \in used}
           other == IF \E w \in Elements(facts.variables) : w.name = name THEN LocalTarget(facts, name, byte) ELSE {}
<1>4. RenameAtCursor(texts[k], facts, c) = FirstFound(<<global, locals, other>>)
  BY DEF RenameAtCursor
<1>5. PICK x : used = {x} /\ x.name = name
  BY UsesAreRead
<1> PICK target : target = [kind |-> "local", name |-> name, scope |-> {v.validRange}]
  OBVIOUS
<1>6. target.kind = "local" /\ target.name = name /\ target.scope = {v.validRange}
  OBVIOUS
<1>7. LocalTarget(facts, name, byte) = {target}
  BY <1>2 DEF LocalTarget, Target
<1> HIDE DEF used
<1>8. locals = {target}
  BY <1>5, <1>7
<1>9. global = {}
  BY <1>3
<1> HIDE DEF locals, global, other
<1>10. t = target
  BY <1>4, <1>8, <1>9, FirstOfThree
<1>11. ComputeRename(index, {k}, k, t) = {Place(k, s) : s \in RenameScoped(facts, name, t.scope)}
  <2> DEFINE others == {q \in {k} \ {k} : ~Shadows(index[q], t.name)}
             inOther(q) == RenameInIndex(index[q], t.name, IsInBlockFamily(index, k, q))
             at(q, spans) == {Place(q, s) : s \in spans}
  <2>1. ComputeRename(index, {k}, k, t) =
          IF t.kind = "local" THEN at(k, RenameScoped(index[k], t.name, t.scope))
          ELSE at(k, RenameInIndex(index[k], t.name, TRUE)) \cup UNION {at(q, inOther(q)) : q \in others}
    BY Zenon DEF ComputeRename
  <2>2. t.kind = "local" /\ t.name = name
    BY <1>6, <1>10
  <2>3. ComputeRename(index, {k}, k, t) = at(k, RenameScoped(index[k], t.name, t.scope))
    BY Zenon, <2>1, <2>2
  <2> QED BY <2>2, <2>3
<1>12. ASSUME NEW u \in Refs(index[k], {"identifier"}), InnermostBinding(index[k], u) = {v}
       PROVE  Place(k, u.span) \in ComputeRename(index, {k}, k, t)
  <2> PICK text : text = texts[k]
    OBVIOUS
  <2>1. IsText(text) /\ u \in Elements(References(text)) /\ facts.variables = Variables(text, BuildScopeRegions(text))
    BY <1>1, IndexIs DEF Refs
  <2>2. PICK i \in Tags(text, ReferenceKinds), l \in 1 .. 6 : u.span = Name(i, l)
    BY <2>1, ReferenceIs
  <2>3. i \in Nat /\ i > 0
    BY <2>1 DEF IsText, Tags
  <2>4. u.name = name /\ Covers(v.validRange, u.span)
    <3> PICK list : list = facts.variables
      OBVIOUS
    <3> DEFINE hits == {j \in DOMAIN list : (list[j].name = u.name /\ Covers(list[j].validRange, u.span))
                          /\ \A y \in Elements(list) : y.name = u.name /\ Covers(y.validRange, u.span) =>
                               Length(list[j].validRange) <= Length(y.validRange)}
    <3>1. InnermostBinding(facts, u) = FirstOf(list, hits)
      BY Zenon DEF InnermostBinding, SmallestFirst, Some, FirstOf
    <3>2. \A w \in FirstOf(list, hits) : w.name = u.name /\ Covers(w.validRange, u.span)
      BY DEF FirstOf
    <3> HIDE DEF hits
    <3>3. v \in FirstOf(list, hits)
      BY <1>12, <3>1
    <3> QED BY <1>2, <3>2, <3>3
  <2>5. IsRange(v.validRange)
    BY <1>2, <2>1, VariableRange
  <2>6. v.validRange.lo <= u.span.lo /\ u.span.lo <= v.validRange.hi
    BY <2>2, <2>3, <2>4, <2>5, InRange
  <2>7. u.span \in AllReads(facts, name)
    BY <2>4 DEF AllReads, Uses, Refs
  <2>8. u.span \in RenameScoped(facts, name, t.scope)
    BY <1>6, <1>10, <2>6, <2>7 DEF RenameScoped
  <2> QED BY <1>11, <2>8
<1> QED BY <1>6, <1>10, <1>12 DEF RenamesUses

\* What is typed in a tag is a name.
LEMMA VariablesAreNamed ==
  ASSUME IInv, NEW k \in Templates, NEW v \in Elements(index[k].variables)
  PROVE  v.name # None
<1> PICK text : text = texts[k]
  OBVIOUS
<1>1. IsText(text) /\ v \in Elements(Variables(text, BuildScopeRegions(text)))
  BY IndexIs
<1>2. PICK i \in Tags(text, BindingKinds) : \E l \in DOMAIN text[i].names : v.name = text[i].names[l]
  BY <1>1, VariableIs
<1>3. Written(text[i])
  BY <1>1, TagsAreWritten DEF Tags
<1> QED BY <1>2, <1>3 DEF Written, Elements

\* In a project that is as it is typed the features agree.
LEMMA ProjectFeaturesAgree == IInv => FeaturesAgreeOnBinding
<1> SUFFICES ASSUME IInv PROVE FeaturesAgreeOnBinding
  OBVIOUS
<1> DEFINE Agrees(k, c, r, v) ==
             /\ GoToDefinition(texts, index, c) = {Place(k, v.span)}
             /\ \A h \in DocumentHighlight(texts[k], index[k], c) : h.writes = {v.span}
             /\ {Place(k, v.span), Place(k, r.span)} \subseteq FindReferences(texts, index, c, TRUE)
             /\ \A t \in RenameAtCursor(texts[k], index[k], c) :
                  /\ t.scope = {v.validRange}
                  /\ {Place(k, u.span) : u \in {q \in Refs(index[k], {"identifier"}) : InnermostBinding(index[k], q) = {v}}}
                       \subseteq ComputeRename(index, {k}, k, t)
           Only1(k, c) ==
             LET name == Word(texts[k], c)
                 facts == index[k]
             IN  /\ name \notin MacroNames(facts) \cup EffectiveNames(facts) \cup AliasNames(facts)
                 /\ BlockNamed(facts, name) = {} /\ ~IsHostOwned(name) /\ ~ImportedElsewise(k, name)
                 /\ name # "super" /\ \A u \in Elements(UsesAt(facts, Byte(c))) : u.kind = "identifier"
<1>1. ASSUME NEW k \in Templates, NEW c \in CursorsIn(k), NEW r \in Elements(UsesAt(index[k], Byte(c))),
             Only1(k, c), ~IsParameter(index[k], r), NEW v \in InnermostBinding(index[k], r)
      PROVE  Agrees(k, c, r, v)
  <2>1. v \in Elements(index[k].variables) /\ v.name = r.name
    <3> PICK list : list = index[k].variables
      OBVIOUS
    <3> DEFINE hits == {j \in DOMAIN list : (list[j].name = r.name /\ Covers(list[j].validRange, r.span))
                          /\ \A y \in Elements(list) : y.name = r.name /\ Covers(y.validRange, r.span) =>
                               Length(list[j].validRange) <= Length(y.validRange)}
    <3>1. InnermostBinding(index[k], r) = FirstOf(list, hits)
      BY ZenonT(40) DEF InnermostBinding, SmallestFirst, Some, FirstOf
    <3>2. \A w \in FirstOf(list, hits) : w.name = r.name /\ w \in Elements(list)
      BY DEF FirstOf, Elements
    <3> HIDE DEF hits
    <3> QED BY <3>1, <3>2
  <2>2. Word(texts[k], c) # None
    BY <2>1, VariablesAreNamed, CursorUse
  <2>3. BoundUse(k, c, r, v)
    BY <1>1, <2>2 DEF BoundUse, OnlyBound
  <2>4. GoToDefinition(texts, index, c) = {Place(k, v.span)}
    BY <2>3, DefinitionFinds
  <2>5. \A h \in DocumentHighlight(texts[k], index[k], c) : h.writes = {v.span}
    BY <2>3, HighlightFinds
  <2>6. {Place(k, v.span), Place(k, r.span)} \subseteq FindReferences(texts, index, c, TRUE)
    BY <2>3, ReferencesFind
  <2>7. \A t \in RenameAtCursor(texts[k], index[k], c) : RenamesUses(k, t, v)
    BY <2>3, RenameFinds
  <2> QED BY ONLY <2>4, <2>5, <2>6, <2>7, Zenon DEF Agrees, RenamesUses
<1>2. FeaturesAgreeOnBinding <=>
        \A k \in Templates : \A c \in CursorsIn(k) : \A r \in Elements(UsesAt(index[k], Byte(c))) :
          Only1(k, c) /\ ~IsParameter(index[k], r) => \A v \in InnermostBinding(index[k], r) : Agrees(k, c, r, v)
  BY Zenon DEF FeaturesAgreeOnBinding
<1> HIDE DEF Agrees, Only1
<1> QED BY Zenon, <1>1, <1>2

\* In every reachable project definition (src/features/definition.rs), highlight
\* (src/features/document_highlight.rs), references and rename select the binding that the index resolves
\* an identifier to (WorkspaceIndex in src/workspace/index.rs), wherever its name is only that of variables.
THEOREM FeaturesAgree == Spec => []FeaturesAgreeOnBinding
BY AlwaysProject, ProjectFeaturesAgree, PTL

\* A cursor on the callee of a call.
CallAt(k, c, r) ==
  /\ k \in Templates /\ c \in CursorsIn(k) /\ r \in Elements(UsesAt(index[k], Byte(c)))
  /\ r.kind = "function"

\* The places of the tokens of a tag.
LEMMA TokenPlaces ==
  /\ \A n, m \in Nat : \A j : n + m <= 5 /\ j \in 1 .. n + m => j \in 1 .. 5
  /\ \A n, m \in Nat : n > 1 => 2 <= n /\ 2 \in 1 .. n + m
  /\ \A n, m \in Nat : n > 0 => 1 <= n /\ 1 \in 1 .. n + m
OBVIOUS

\* The tokens of a tag are at most five.
LEMMA TokensFit ==
  ASSUME NEW tag, Written(tag)
  PROVE  Len(tag.names) \in Nat /\ Len(tag.aliases) \in Nat /\ Len(tag.names) + Len(tag.aliases) <= 5
<1>1. tag.names \in Seq(STRING) /\ tag.aliases \in Seq(STRING)
  BY DEF Written
<1>2. Len(tag.names) + Len(tag.aliases) <= 5
  BY DEF Written, Width
<1>3. Len(tag.names) \in Nat /\ Len(tag.aliases) \in Nat
  BY <1>1
<1> QED BY <1>2, <1>3, Zenon

\* The callee of a call has a name.
LEMMA CalleeIsNamed ==
  ASSUME NEW text, IsText(text), NEW i \in DOMAIN text, text[i].kind \in CallKinds
  PROVE  Token(text[i], CalleeToken(text[i])) # None /\ CalleeToken(text[i]) \in Tokens(text[i])
<1>1. Written(text[i])
  BY TagsAreWritten
<1> PICK tag : tag = text[i]
  OBVIOUS
<1>2. tag.names \in Seq(STRING) /\ tag.aliases \in Seq(STRING) /\ Len(tag.names) \in Nat
  BY NamesFit
<1> PICK n \in Nat : n = Len(tag.names)
  BY <1>2
<1> PICK m \in Nat : m = Len(tag.aliases)
  BY <1>2
<1>3. /\ \A j : Token(tag, j) = IF j <= n THEN tag.names[j] ELSE tag.aliases[j - n]
      /\ Tokens(tag) = 1 .. n + m
  BY DEF Token, Tokens
<1>4. \A j \in DOMAIN tag.names : tag.names[j] # None
  BY <1>1 DEF Written, Elements
<1>5. CASE tag.kind = "call"
  <2>1. Len(tag.aliases) = 1 /\ tag.aliases[1] # None
    BY <1>1, <1>5 DEF Written
  <2>2. CalleeToken(tag) = Len(tag.names) + 1
    BY <1>5 DEF CalleeToken
  <2>3. Token(tag, CalleeToken(tag)) = tag.aliases[1]
    BY <1>2, <2>2 DEF Token
  <2>4. CalleeToken(tag) \in Tokens(tag)
    BY <1>2, <2>1, <2>2 DEF Tokens
  <2> QED BY <2>1, <2>3, <2>4
<1>6. CASE tag.kind = "invoke_member"
  <2>1. Len(tag.names) > 1
    BY <1>1, <1>6 DEF Written
  <2>2. CalleeToken(tag) = 2 /\ 2 \in DOMAIN tag.names /\ n > 1
    BY <1>2, <1>6, <2>1 DEF CalleeToken
  <2>3. 2 <= n /\ 2 \in 1 .. n + m
    BY <2>2, TokenPlaces, Zenon
  <2>4. Token(tag, 2) = tag.names[2] /\ 2 \in Tokens(tag)
    BY <1>3, <2>3, Zenon
  <2> QED BY <1>4, <2>2, <2>4
<1>7. CASE tag.kind \in {"invoke", "invoke_in"}
  <2>1. tag.names # <<>>
    BY <1>1, <1>7 DEF Written, NamingKinds
  <2>2. CalleeToken(tag) = 1 /\ 1 \in DOMAIN tag.names /\ n > 0
    BY <1>2, <1>7, <2>1 DEF CalleeToken
  <2>3. 1 <= n /\ 1 \in 1 .. n + m
    BY <2>2, TokenPlaces, Zenon
  <2>4. Token(tag, 1) = tag.names[1] /\ 1 \in Tokens(tag)
    BY <1>3, <2>3, Zenon
  <2> QED BY <1>4, <2>2, <2>4
<1> QED BY <1>5, <1>6, <1>7 DEF CallKinds

\* The call is the only use at its cursor, and has a name.
LEMMA CallIsAlone ==
  ASSUME IInv, NEW k, NEW c, NEW r, CallAt(k, c, r)
  PROVE  /\ Elements(UsesAt(index[k], Byte(c))) = {r} /\ UsesAt(index[k], Byte(c)) # <<>>
         /\ r.name = Word(texts[k], c) /\ r.name # None /\ r.span = Here(c) /\ c.key = k
         /\ r \in Elements(index[k].references) /\ texts[k][c.tag].kind \in CallKinds
<1> PICK text : text = texts[k]
  OBVIOUS
<1> PICK uses : uses = UsesAt(index[k], Byte(c))
  OBVIOUS
<1>1. k \in Templates /\ c \in CursorsIn(k) /\ r \in Elements(uses) /\ r.kind = "function"
  BY DEF CallAt
<1>2. IsText(text) /\ index[k].references = References(text)
  BY <1>1, IndexIs
<1>3. c.key = k /\ c.tag \in DOMAIN text /\ c.tag \in Nat /\ c.token \in 1 .. 6
  BY <1>1, CursorUse
<1>4. ASSUME NEW u \in Elements(uses)
      PROVE  /\ u \in Elements(References(text)) /\ u.span = Name(c.tag, c.token)
             /\ u \in ReferencesOf(text, c.tag)
             /\ u.kind = "function" => text[c.tag].kind \in CallKinds /\ c.token = CalleeToken(text[c.tag])
  <2>1. u \in Elements(References(text)) /\ u.span = Name(c.tag, c.token)
    BY <1>1, <1>2, CursorUse
  <2>2. PICK i \in Tags(text, ReferenceKinds), j \in 1 .. 6 :
           /\ u \in ReferencesOf(text, i) /\ u.span = Name(i, j)
           /\ u.kind = "function" => text[i].kind \in CallKinds /\ j = CalleeToken(text[i])
    BY <1>2, <2>1, ReferenceIs
  <2>3. i \in Nat /\ i \in DOMAIN text
    BY <1>2 DEF Tags, IsText
  <2>4. Name(i, j).lo = 8 * i + j /\ Name(c.tag, c.token).lo = 8 * c.tag + c.token
    <3>1. j \in 1 .. 7 /\ c.token \in 1 .. 7
      BY <1>3
    <3> QED BY <1>3, <2>3, <3>1, TagOfName
  <2>5. i = c.tag /\ j = c.token
    BY <1>3, <2>1, <2>2, <2>3, <2>4
  <2> QED BY <2>1, <2>2, <2>5
<1>5. text[c.tag].kind \in CallKinds /\ c.token = CalleeToken(text[c.tag])
  BY <1>1, <1>4
<1>6. ReferencesOf(text, c.tag) = {Reference(text, c.tag, CalleeToken(text[c.tag]), "function")}
  BY <1>5 DEF ReferencesOf
<1>7. Elements(uses) = {r}
  BY <1>1, <1>4, <1>6
<1>8. PICK S : uses \in Seq(S)
  BY <1>2, UsesAtByte
<1>9. uses # <<>>
  BY <1>7, <1>8, FirstElement
<1>10. r.name = Token(text[c.tag], c.token) /\ r.span = Name(c.tag, c.token)
  BY <1>1, CursorUse DEF Word
<1>11. r.name # None
  BY <1>2, <1>3, <1>5, <1>10, CalleeIsNamed
<1> QED BY <1>2, <1>3, <1>4, <1>5, <1>7, <1>9, <1>10, <1>11 DEF Word, Here

\* A call has a cursor on its callee.
LEMMA CallHasCursor ==
  ASSUME IInv, NEW k \in Templates, NEW r \in Refs(index[k], {"function"}),
         NEW c, c = [key |-> k, tag |-> TagOf(r.span.lo), token |-> TokenOf(r.span.lo)]
  PROVE  CallAt(k, c, r)
<1> PICK text : text = texts[k]
  OBVIOUS
<1>1. IsText(text) /\ index[k].references = References(text)
  BY IndexIs
<1>2. r \in Elements(References(text)) /\ r.kind = "function"
  BY <1>1 DEF Refs
<1>3. PICK i \in Tags(text, ReferenceKinds), j \in 1 .. 6 :
         r.span = Name(i, j) /\ text[i].kind \in CallKinds /\ j = CalleeToken(text[i])
  BY <1>1, <1>2, ReferenceIs
<1>4. i \in Nat /\ i \in DOMAIN text
  BY <1>1 DEF Tags, IsText
<1>5. j \in Tokens(text[i])
  BY <1>1, <1>3, <1>4, CalleeIsNamed
<1>6. j \in 1 .. 5
  <2>1. Written(text[i])
    BY <1>1, <1>4, TagsAreWritten
  <2>2. Len(text[i].names) \in Nat /\ Len(text[i].aliases) \in Nat
        /\ Len(text[i].names) + Len(text[i].aliases) <= 5
    BY <2>1, TokensFit
  <2>3. j \in 1 .. Len(text[i].names) + Len(text[i].aliases)
    BY <1>5, Zenon DEF Tokens
  <2> QED BY <2>2, <2>3, TokenPlaces, Zenon
<1>7. c = [key |-> k, tag |-> i, token |-> j]
  <2>1. j \in 1 .. Width - 1
    BY DEF Width
  <2> QED BY <1>3, <1>4, <2>1, TokenOfName
<1>8. c \in CursorsIn(k)
  <2> DEFINE P == {p \in (DOMAIN text) \X (1 .. Width - 3) : p[2] \in Tokens(text[p[1]])}
             t == <<i, j>>
  <2>1. t \in P /\ t[1] = i /\ t[2] = j
    BY <1>4, <1>5, <1>6 DEF Width
  <2>2. CursorsIn(k) = {[key |-> k, tag |-> p[1], token |-> p[2]] : p \in P}
    BY DEF CursorsIn
  <2> HIDE DEF P, t
  <2> QED BY <1>7, <2>1, <2>2
<1>9. ByteIn(Byte(c), r.span)
  <2>1. j \in 1 .. 7
    OBVIOUS
  <2>2. Name(i, j).lo = 8 * i + j /\ Name(i, j).hi = 8 * i + j + 1
    BY <1>4, <2>1, TagOfName
  <2>3. Byte(c) = Name(i, j).lo
    BY <1>7 DEF Byte
  <2> QED BY <1>3, <1>4, <2>2, <2>3 DEF ByteIn
<1>10. r \in Elements(UsesAt(index[k], Byte(c)))
  BY <1>1, <1>2, <1>9, UsesAtByte
<1> QED BY <1>2, <1>8, <1>10 DEF CallAt

\* What a from-import gives under a name: the entry, and the macro of its source.
GivenBy(fi, name) == Some(fi.names, LAMBDA n : Effective(n) = name)
NamedBy(fi, name) == Some(fi.names, LAMBDA n : n.name = name \/ n.alias = name)
SourceOf(templates, fi, name) == UNION {Imported(templates, fi, n.name) : n \in GivenBy(fi, name)}
NamedSource(templates, fi, name) == UNION {Imported(templates, fi, n.name) : n \in NamedBy(fi, name)}

\* The from-imports of a template, as the walks search them.
FirstNaming(facts, name) == Some(facts.fromImports, LAMBDA f : \E n \in Elements(f.names) : n.name = name \/ n.alias = name)
CheckedImport(templates, facts, name) ==
  UNION {SourceOf(templates, fi, name) : fi \in Some(facts.fromImports, LAMBDA f : SourceOf(templates, f, name) # {})}
ItemImport(templates, facts, name) ==
  UNION {NamedSource(templates, fi, name) : fi \in Some(facts.fromImports, LAMBDA f : NamedSource(templates, f, name) # {})}

\* The from-imports and the names in each are lists.
LEMMA ImportsAreLists ==
  ASSUME IInv, NEW k \in Templates, NEW list, list = index[k].fromImports
  PROVE  /\ \E S : list \in Seq(S)
         /\ \A fi \in Elements(list) : \E T : fi.names \in Seq(T)
<1>1. IsText(texts[k]) /\ list = FromImports(texts[k])
  <2>1. IsText(texts[k]) /\ index[k] = Extract(texts[k])
    BY IndexIs
  <2>2. Extract(texts[k]).fromImports = FromImports(texts[k])
    BY DEF Extract
  <2> QED BY <2>1, <2>2, Zenon
<1> DEFINE import(i) == [source |-> texts[k][i].target, names |-> ImportedNames(texts[k][i], i), span |-> Literal(i)]
           S == {import(i) : i \in Tags(texts[k], {"from"})}
<1>2. list \in Seq(S)
  BY <1>1, FromImportsOfTags
<1>3. ASSUME NEW fi \in Elements(list) PROVE \E T : fi.names \in Seq(T)
  <2>1. fi \in S
    <3> HIDE DEF S
    <3> QED BY <1>2 DEF Elements
  <2>2. PICK i \in Tags(texts[k], {"from"}) : fi.names = ImportedNames(texts[k][i], i)
    BY <2>1
  <2> QED BY <1>1, <2>2, ImportedNamesAreTokens DEF Tags
<1> HIDE DEF S
<1> QED BY <1>2, <1>3

\* An import gives a name through one entry, or not at all.
LEMMA GivenIsOne ==
  ASSUME NEW fi, NEW T, fi.names \in Seq(T), NEW name
  PROVE  /\ GivenBy(fi, name) = {} <=> \A n \in Elements(fi.names) : Effective(n) # name
         /\ GivenBy(fi, name) # {} => \E n \in Elements(fi.names) : GivenBy(fi, name) = {n} /\ Effective(n) = name
<1> PICK list : list = fi.names
  OBVIOUS
<1> PICK hits : hits = {i \in DOMAIN list : Effective(list[i]) = name}
  OBVIOUS
<1>1. GivenBy(fi, name) = FirstOf(list, {i \in DOMAIN list : Effective(list[i]) = name})
  BY Zenon DEF GivenBy, Some, FirstOf
<1>2. GivenBy(fi, name) = FirstOf(list, hits)
  BY <1>1
<1>3. hits = {} <=> \A n \in Elements(list) : Effective(n) # name
  BY DEF Elements
<1>4. hits = {} => FirstOf(list, hits) = {}
  BY DEF FirstOf
<1>5. ASSUME hits # {} PROVE \E n \in Elements(list) : FirstOf(list, hits) = {n} /\ Effective(n) = name
  <2>1. IsFirst(list, hits, FirstOf(list, hits))
    BY <1>5, FirstOfHits
  <2>2. PICK i \in hits : FirstOf(list, hits) = {list[i]} /\ list[i] \in Elements(list)
    BY <2>1 DEF IsFirst
  <2> QED BY <2>2
<1> PICK G : G = GivenBy(fi, name)
  OBVIOUS
<1>6. G = {} <=> \A n \in Elements(list) : Effective(n) # name
  <2>1. CASE hits = {}
    BY <1>2, <1>3, <1>4, <2>1
  <2>2. CASE hits # {}
    <3>1. PICK n \in Elements(list) : FirstOf(list, hits) = {n} /\ Effective(n) = name
      BY <1>5, <2>2
    <3>2. G # {}
      BY <1>2, <3>1
    <3> QED BY <3>1, <3>2
  <2> QED BY <2>1, <2>2
<1>7. G # {} => \E n \in Elements(list) : G = {n} /\ Effective(n) = name
  BY <1>2, <1>4, <1>5
<1> QED BY <1>6, <1>7

\* Where a name is not imported under another one, an entry that names it is one that gives it.
LEMMA NamedIsGiven ==
  ASSUME NEW k \in Templates, NEW name, name # None, ~ImportedElsewise(k, name),
         NEW fi \in Elements(index[k].fromImports)
  PROVE  /\ \A n \in Elements(fi.names) : (n.name = name \/ n.alias = name) <=> Effective(n) = name
         /\ NamedBy(fi, name) = GivenBy(fi, name)
<1>1. ASSUME NEW n \in Elements(fi.names)
      PROVE  (n.name = name \/ n.alias = name) <=> Effective(n) = name
  <2>1. n.name = name => Effective(n) = name
    BY DEF ImportedElsewise
  <2>2. n.alias = name => Effective(n) = name
    BY DEF Effective
  <2>3. Effective(n) = name => n.name = name \/ n.alias = name
    BY DEF Effective
  <2> QED BY <2>1, <2>2, <2>3
<1> PICK list : list = fi.names
  OBVIOUS
<1>2. NamedBy(fi, name) = FirstOf(list, {i \in DOMAIN list : list[i].name = name \/ list[i].alias = name})
  BY Zenon DEF NamedBy, Some, FirstOf
<1>3. GivenBy(fi, name) = FirstOf(list, {i \in DOMAIN list : Effective(list[i]) = name})
  BY Zenon DEF GivenBy, Some, FirstOf
<1>4. {i \in DOMAIN list : list[i].name = name \/ list[i].alias = name} = {i \in DOMAIN list : Effective(list[i]) = name}
  <2>1. \A i \in DOMAIN list : list[i] \in Elements(fi.names)
    BY DEF Elements
  <2> QED BY <1>1, <2>1
<1> QED BY <1>1, <1>2, <1>3, <1>4

FirstGiving(templates, facts, name) ==
  Some(facts.fromImports, LAMBDA f : Imports(f, name) /\ Imported(templates, f, ImportedAs(f, name)) # {})

\* Where go to definition finds an import, so do the other walks, and it is the same one.
LEMMA ImportedAlike ==
  ASSUME IInv, NEW k \in Templates, NEW facts, facts = index[k], NEW name, name # None,
         ~ImportedElsewise(k, name), ImportedDefinition(index, facts, name) # {}
  PROVE  \E X : /\ X # {} /\ ImportedDefinition(index, facts, name) = {Place(m.key, m.macro.span) : m \in X}
                /\ ImportedMacro(index, facts, name) = X
                /\ CheckedImport(index, facts, name) = X
                /\ ItemImport(index, facts, name) = X
<1> PICK list : list = facts.fromImports
  OBVIOUS
<1>1. PICK S : list \in Seq(S)
  BY ImportsAreLists
<1>2. ASSUME NEW fi \in Elements(list)
      PROVE  /\ NamedBy(fi, name) = GivenBy(fi, name) /\ NamedSource(index, fi, name) = SourceOf(index, fi, name)
             /\ (\E n \in Elements(fi.names) : n.name = name \/ n.alias = name) <=> GivenBy(fi, name) # {}
             /\ Imports(fi, name) <=> GivenBy(fi, name) # {}
             /\ GivenBy(fi, name) # {} => Imported(index, fi, ImportedAs(fi, name)) = SourceOf(index, fi, name)
             /\ GivenBy(fi, name) = {} => SourceOf(index, fi, name) = {}
  <2>1. PICK T : fi.names \in Seq(T)
    BY ImportsAreLists
  <2>2. /\ \A n \in Elements(fi.names) : (n.name = name \/ n.alias = name) <=> Effective(n) = name
        /\ NamedBy(fi, name) = GivenBy(fi, name)
    BY NamedIsGiven
  <2>3. /\ GivenBy(fi, name) = {} <=> \A n \in Elements(fi.names) : Effective(n) # name
        /\ GivenBy(fi, name) # {} => \E n \in Elements(fi.names) : GivenBy(fi, name) = {n} /\ Effective(n) = name
    BY <2>1, GivenIsOne
  <2>4. NamedSource(index, fi, name) = SourceOf(index, fi, name)
    BY <2>2, Zenon DEF NamedSource, SourceOf
  <2>5. (\E n \in Elements(fi.names) : n.name = name \/ n.alias = name) <=> GivenBy(fi, name) # {}
    BY <2>2, <2>3
  <2>6. Imports(fi, name) <=> GivenBy(fi, name) # {}
    BY <2>2, <2>3 DEF Imports
  <2>7. ASSUME GivenBy(fi, name) # {} PROVE Imported(index, fi, ImportedAs(fi, name)) = SourceOf(index, fi, name)
    <3>1. PICK n \in Elements(fi.names) : GivenBy(fi, name) = {n}
      BY <2>3, <2>7
    <3>2. ImportedAs(fi, name) = IF GivenBy(fi, name) = {} THEN name ELSE Only(GivenBy(fi, name)).name
      BY Zenon DEF ImportedAs, GivenBy
    <3>3. Only({n}) = n
      BY DEF Only
    <3>4. ImportedAs(fi, name) = n.name
      BY <3>1, <3>2, <3>3
    <3>5. SourceOf(index, fi, name) = UNION {Imported(index, fi, x.name) : x \in {n}}
      BY <3>1, Zenon DEF SourceOf
    <3> QED BY <3>4, <3>5
  <2>8. GivenBy(fi, name) = {} => SourceOf(index, fi, name) = {}
    BY DEF SourceOf
  <2> QED BY <2>2, <2>4, <2>5, <2>6, <2>7, <2>8
<1>3. \A i \in DOMAIN list : list[i] \in Elements(list)
  BY DEF Elements
<1> PICK naming : naming = {i \in DOMAIN list : GivenBy(list[i], name) # {}}
  OBVIOUS
<1> PICK having : having = {i \in DOMAIN list : SourceOf(index, list[i], name) # {}}
  OBVIOUS
<1> DEFINE places(macros) == {Place(m.key, m.macro.span) : m \in macros}
<1>4. FirstNaming(facts, name) = FirstOf(list, naming)
  <2>1. FirstNaming(facts, name) = FirstOf(list, {i \in DOMAIN list : \E n \in Elements(list[i].names) : n.name = name \/ n.alias = name})
    BY Zenon DEF FirstNaming, Some, FirstOf
  <2>2. {i \in DOMAIN list : \E n \in Elements(list[i].names) : n.name = name \/ n.alias = name} = naming
    BY <1>2, <1>3
  <2> QED BY <2>1, <2>2
<1>5. ImportedDefinition(index, facts, name) =
        UNION {UNION {{Place(m.key, m.macro.span) : m \in Imported(index, fi, n.name)} : n \in NamedBy(fi, name)} :
                 fi \in FirstNaming(facts, name)}
  BY Zenon DEF ImportedDefinition, NamedBy, FirstNaming
<1>6. naming # {} /\ naming \subseteq DOMAIN list /\ having \subseteq naming
  <2>1. FirstNaming(facts, name) # {}
    BY <1>5
  <2>2. naming # {}
    BY <1>4, <2>1 DEF FirstOf
  <2> QED BY <1>2, <1>3, <2>2
<1>7. PICK j \in naming : FirstOf(list, naming) = {list[j]} /\ list[j] \in Elements(list) /\ \A h \in naming : j <= h
  <2>1. IsFirst(list, naming, FirstOf(list, naming))
    BY <1>1, <1>6, FirstOfHits
  <2> QED BY <2>1 DEF IsFirst
<1> PICK fi : fi = list[j]
  OBVIOUS
<1> PICK X : X = SourceOf(index, fi, name)
  OBVIOUS
<1>8. GivenBy(fi, name) # {} /\ fi \in Elements(list)
  BY <1>7
<1>9. ImportedDefinition(index, facts, name) = {Place(m.key, m.macro.span) : m \in X}
  <2>1. ImportedDefinition(index, facts, name) =
          UNION {{Place(m.key, m.macro.span) : m \in Imported(index, fi, n.name)} : n \in GivenBy(fi, name)}
    <3>1. FirstNaming(facts, name) = {fi}
      BY <1>4, <1>7
    <3>2. NamedBy(fi, name) = GivenBy(fi, name)
      BY <1>2, <1>8
    <3> QED BY <1>5, <3>1, <3>2
  <2>2. X = UNION {Imported(index, fi, n.name) : n \in GivenBy(fi, name)}
    BY DEF SourceOf
  <2> QED BY <2>1, <2>2
<1>10. X # {} /\ j \in having
  BY <1>6, <1>9
<1>11. FirstOf(list, having) = {fi}
  <2>1. FirstOf(list, naming) = {list[j]} /\ \A h \in naming : j <= h
    BY <1>7
  <2>2. FirstOf(list, having) = {list[j]}
    <3>1. naming \subseteq DOMAIN list
      BY <1>6
    <3>2. having \subseteq naming
      BY <1>6
    <3>3. j \in having
      BY <1>10
    <3>4. naming \subseteq Nat /\ \A h \in naming : j <= h
      <4>1. DOMAIN list \in SUBSET Nat
        BY <1>1, NaturalDomain
      <4> QED BY <2>1, <3>1, <4>1
    <3>5. {q \in having : \A h \in having : q <= h} = {j}
      <4> HIDE DEF places
      <4>1. \A q \in having : (\A h \in having : q <= h) => q <= j /\ j <= q /\ q \in Nat /\ j \in Nat
        BY <3>2, <3>3, <3>4
      <4>2. \A q, p \in Nat : q <= p /\ p <= q => q = p
        OBVIOUS
      <4>3. \A h \in having : j <= h
        BY <3>2, <3>4
      <4> QED BY <3>3, <4>1, <4>2, <4>3
    <3> QED BY <3>5, ZenonT(40) DEF FirstOf
  <2> QED BY <2>2
<1>12. ImportedMacro(index, facts, name) = X
  <2> PICK hits : hits = {i \in DOMAIN list : Imports(list[i], name)
                              /\ Imported(index, list[i], ImportedAs(list[i], name)) # {}}
    OBVIOUS
  <2> PICK chosen : chosen = FirstGiving(index, facts, name)
    OBVIOUS
  <2>0. FirstGiving(index, facts, name) =
          FirstOf(list, {i \in DOMAIN list : Imports(list[i], name)
                           /\ Imported(index, list[i], ImportedAs(list[i], name)) # {}})
    BY Zenon DEF FirstGiving, Some, FirstOf
  <2>1. ImportedMacro(index, facts, name) = UNION {Imported(index, f, ImportedAs(f, name)) : f \in chosen}
    BY Zenon DEF ImportedMacro, FirstGiving
  <2>2. {i \in DOMAIN list : Imports(list[i], name) /\ Imported(index, list[i], ImportedAs(list[i], name)) # {}} = having
    BY <1>2, <1>3
  <2>3. Imported(index, fi, ImportedAs(fi, name)) = X
    BY <1>2, <1>8
  <2>4. chosen = {fi}
    BY <1>11, <2>0, <2>2
  <2> QED BY <2>1, <2>3, <2>4
<1>13. CheckedImport(index, facts, name) = X
  <2>1. CheckedImport(index, facts, name) = UNION {SourceOf(index, f, name) :
            f \in FirstOf(list, {i \in DOMAIN list : SourceOf(index, list[i], name) # {}})}
    BY ZenonT(40) DEF CheckedImport, Some, FirstOf
  <2>2. FirstOf(list, {i \in DOMAIN list : SourceOf(index, list[i], name) # {}}) = {fi}
    BY <1>11
  <2>3. CheckedImport(index, facts, name) = UNION {SourceOf(index, f, name) : f \in {fi}}
    BY <2>1, <2>2, Zenon
  <2> QED BY <2>3
<1>14. ItemImport(index, facts, name) = X
  <2>1. ItemImport(index, facts, name) = UNION {NamedSource(index, f, name) :
            f \in FirstOf(list, {i \in DOMAIN list : NamedSource(index, list[i], name) # {}})}
    BY ZenonT(40) DEF ItemImport, Some, FirstOf
  <2>2. {i \in DOMAIN list : NamedSource(index, list[i], name) # {}} = having
    BY <1>2, <1>3
  <2>3. NamedSource(index, fi, name) = X
    BY <1>2, <1>8
  <2>4. ItemImport(index, facts, name) = UNION {NamedSource(index, f, name) : f \in {fi}}
    BY <1>11, <2>1, <2>2, Zenon
  <2> QED BY <2>3, <2>4
<1> QED BY <1>9, <1>10, <1>12, <1>13, <1>14

\* The walks, with their lookups under these names.
LEMMA WalksUnfold ==
  ASSUME NEW templates, NEW k, NEW name, NEW facts, facts = templates[k]
  PROVE  /\ CalledMacro(templates, k, name) =
              IF At(k, MacroNamed(facts, name)) # {} THEN At(k, MacroNamed(facts, name))
              ELSE IF ImportedMacro(templates, facts, name) # {} THEN ImportedMacro(templates, facts, name)
              ELSE FindMacroWithPath(templates, name)
         /\ ResolveMacro(templates, k, name) =
              IF MacroNamed(facts, name) # {} THEN At(k, MacroNamed(facts, name))
              ELSE IF CheckedImport(templates, facts, name) # {} THEN CheckedImport(templates, facts, name)
              ELSE FindMacroWithPath(templates, name)
         /\ ResolveMacroItem(templates, k, name) =
              {Item("macro", m.macro.name, m.key) :
                 m \in FirstFound(<<At(k, MacroNamed(facts, name)), ItemImport(templates, facts, name),
                                    FindMacroWithPath(templates, name)>>)}
<1>1. CalledMacro(templates, k, name) =
        IF At(k, MacroNamed(facts, name)) # {} THEN At(k, MacroNamed(facts, name))
        ELSE IF ImportedMacro(templates, facts, name) # {} THEN ImportedMacro(templates, facts, name)
        ELSE FindMacroWithPath(templates, name)
  BY Zenon DEF CalledMacro
<1>2. ResolveMacro(templates, k, name) =
        IF MacroNamed(facts, name) # {} THEN At(k, MacroNamed(facts, name))
        ELSE IF CheckedImport(templates, facts, name) # {} THEN CheckedImport(templates, facts, name)
        ELSE FindMacroWithPath(templates, name)
  BY Zenon DEF ResolveMacro, CheckedImport, SourceOf, GivenBy
<1>3. ResolveMacroItem(templates, k, name) =
        {Item("macro", m.macro.name, m.key) :
           m \in FirstFound(<<At(k, MacroNamed(facts, name)), ItemImport(templates, facts, name),
                              FindMacroWithPath(templates, name)>>)}
  BY Zenon DEF ResolveMacroItem, ItemImport, NamedSource, NamedBy
<1> QED BY <1>1, <1>2, <1>3

\* A macro is where its tag is.
LEMMA MacroIs ==
  ASSUME IInv, NEW k \in Templates, NEW m \in Elements(index[k].macros)
  PROVE  \E i \in Tags(texts[k], {"macro"}) :
           /\ m = Macro(texts[k], i) /\ i \in Nat /\ m.span = Statement(i) /\ m.name = texts[k][i].names[1]
<1> PICK text : text = texts[k]
  OBVIOUS
<1> PICK list : list = Macros(text)
  OBVIOUS
<1> DEFINE S == {Macro(text, i) : i \in Tags(text, {"macro"})}
<1>1. IsText(text) /\ index[k].macros = list
  BY IndexIs
<1>2. list \in Seq(S)
  BY <1>1, MacrosOfTags
<1>3. m \in S
  <2> HIDE DEF S
  <2> QED BY <1>1, <1>2 DEF Elements
<1>4. PICK i \in Tags(text, {"macro"}) : m = Macro(text, i)
  BY <1>3
<1>5. i \in Nat
  BY <1>1 DEF Tags, IsText
<1>6. Macro(text, i).span = Statement(i) /\ Macro(text, i).name = text[i].names[1]
  BY DEF Macro
<1> QED BY <1>4, <1>5, <1>6

\* The place of a macro is the statement of its tag.
LEMMA MacroPlaceIs ==
  ASSUME IInv, NEW p \in MacroPlaces
  PROVE  /\ p.key \in Templates
         /\ \E i \in Tags(texts[p.key], {"macro"}) :
              /\ p = Place(p.key, Statement(i)) /\ i \in Nat /\ p.span = Statement(i)
              /\ Macro(texts[p.key], i) \in Elements(index[p.key].macros)
<1>1. PICK k \in Templates : p \in {Place(k, m.span) : m \in Elements(index[k].macros)}
  BY DEF MacroPlaces
<1>2. PICK m \in Elements(index[k].macros) : p = Place(k, m.span)
  BY <1>1
<1>3. PICK i \in Tags(texts[k], {"macro"}) : m = Macro(texts[k], i) /\ i \in Nat /\ m.span = Statement(i)
  BY MacroIs
<1>4. p.key = k /\ p.span = Statement(i) /\ p = Place(k, Statement(i))
  BY <1>2, <1>3 DEF Place
<1> QED BY <1>2, <1>3, <1>4

\* Where tags, their literals and their names begin.
LEMMA PlacesDiffer ==
  ASSUME NEW i \in Nat, NEW j \in Nat
  PROVE  /\ Statement(i) = Statement(j) => i = j
         /\ Literal(i) # Statement(j)
         /\ \A l \in 1 .. 7 : Name(i, l) # Statement(j)
         /\ Statement(i).lo = 8 * i /\ Statement(i).hi = 8 * i + 7
<1>1. Statement(i).lo = 8 * i /\ Statement(i).hi = 8 * i + 7 /\ Statement(j).lo = 8 * j /\ Statement(j).hi = 8 * j + 7
  BY DEF Statement, Span, TagStart, TagEnd, Width
<1>2. Literal(i).lo = 8 * i + 6 /\ Literal(i).hi = 8 * i + 7
  BY DEF Literal, Span, TagStart, Width
<1>3. ASSUME NEW l \in 1 .. 7 PROVE Name(i, l).lo = 8 * i + l /\ Name(i, l).hi = 8 * i + l + 1
  BY TagOfName
<1>4. Statement(i) = Statement(j) => i = j
  BY <1>1
<1>5. Literal(i) # Statement(j)
  BY <1>1, <1>2
<1>6. ASSUME NEW l \in 1 .. 7, Name(i, l) = Statement(j) PROVE FALSE
  BY <1>1, <1>3, <1>6
<1> QED BY <1>1, <1>4, <1>5, <1>6

\* An alias is declared by the literal of its import.
LEMMA AliasIs ==
  ASSUME IInv, NEW k \in Templates, NEW a \in Elements(index[k].importAliases)
  PROVE  \E i \in Nat : a.span = Literal(i)
<1> PICK text : text = texts[k]
  OBVIOUS
<1>1. IsText(text) /\ index[k] = Extract(text)
  BY IndexIs
<1>2. Extract(text).importAliases = ImportAliases(text)
  BY DEF Extract
<1> DEFINE A(i) == [alias |-> text[i].names[1], source |-> text[i].target, span |-> Literal(i), aliasSpan |-> Name(i, 1)]
           S == {A(i) : i \in DOMAIN text}
           seqs == [i \in DOMAIN text |-> IF text[i].kind \in {"import"} THEN <<A(i)>> ELSE <<>>]
<1>3. ASSUME NEW i \in DOMAIN text PROVE seqs[i] \in Seq(S)
  <2>1. A(i) \in S /\ seqs[i] = IF text[i].kind \in {"import"} THEN <<A(i)>> ELSE <<>>
    OBVIOUS
  <2> HIDE DEF S, seqs, A
  <2> QED BY <2>1
<1>4. ImportAliases(text) = FlattenSeq(seqs)
  BY DEF ImportAliases, Each
<1>5. DOMAIN seqs = DOMAIN text /\ seqs = [i \in DOMAIN text |-> seqs[i]]
  OBVIOUS
<1>6. FlattenSeq(seqs) \in Seq(S)
  <2> HIDE DEF S, seqs
  <2> QED BY <1>1, <1>3, <1>5, FlattenText
<1>7. a \in S
  <2> HIDE DEF S, seqs
  <2> QED BY <1>1, <1>2, <1>4, <1>6 DEF Elements
<1>8. PICK i \in DOMAIN text : a = A(i)
  BY <1>7
<1>9. i \in Nat
  BY <1>1 DEF IsText
<1> QED BY <1>8, <1>9

\* No alias, variable or block is where a macro is.
LEMMA NotMacroPlaces ==
  ASSUME IInv, NEW k
  PROVE  /\ \A a \in Elements(index[k].importAliases) : Place(k, a.span) \notin MacroPlaces
         /\ \A v \in Elements(index[k].variables) : Place(k, v.span) \notin MacroPlaces
         /\ \A b \in Elements(index[k].blocks) : Place(k, b.span) \notin MacroPlaces
<1>1. ASSUME NEW s, Place(k, s) \in MacroPlaces
      PROVE  k \in Templates /\ \E j \in Tags(texts[k], {"macro"}) : j \in Nat /\ s = Statement(j)
  <2> PICK p : p = Place(k, s)
    OBVIOUS
  <2>1. p.key = k /\ p.span = s
    BY DEF Place
  <2> QED BY <1>1, <2>1, MacroPlaceIs
<1>2. ASSUME NEW a \in Elements(index[k].importAliases), Place(k, a.span) \in MacroPlaces PROVE FALSE
  <2>1. k \in Templates
    BY <1>1, <1>2
  <2>2. PICK j \in Tags(texts[k], {"macro"}) : j \in Nat /\ a.span = Statement(j)
    BY <1>1, <1>2
  <2>3. PICK i \in Nat : a.span = Literal(i)
    BY <2>1, AliasIs
  <2> QED BY <2>2, <2>3, PlacesDiffer
<1>3. ASSUME NEW v \in Elements(index[k].variables), Place(k, v.span) \in MacroPlaces PROVE FALSE
  <2>1. k \in Templates
    BY <1>1, <1>3
  <2>2. PICK j \in Tags(texts[k], {"macro"}) : j \in Nat /\ v.span = Statement(j)
    BY <1>1, <1>3
  <2>3. IsText(texts[k]) /\ v \in Elements(Variables(texts[k], BuildScopeRegions(texts[k])))
    BY <2>1, IndexIs
  <2>4. PICK i \in Nat, l \in 1 .. 5 : v.span = Name(i, l)
    BY <2>3, VariableIs
  <2>5. l \in 1 .. 7
    OBVIOUS
  <2> QED BY <2>2, <2>4, <2>5, PlacesDiffer
<1>4. ASSUME NEW b \in Elements(index[k].blocks), Place(k, b.span) \in MacroPlaces PROVE FALSE
  <2>1. k \in Templates
    BY <1>1, <1>4
  <2>2. PICK j \in Tags(texts[k], {"macro"}) : j \in Nat /\ b.span = Statement(j)
    BY <1>1, <1>4
  <2> PICK text : text = texts[k]
    OBVIOUS
  <2> PICK regions : regions = BuildScopeRegions(text)
    OBVIOUS
  <2>3. IsText(text) /\ b \in Elements(Blocks(text, regions))
    BY <2>1, IndexIs
  <2>4. b \in BlockSet(text, regions)
    BY <2>3, BlocksType DEF Elements
  <2>5. b.span \in BlockTags(text)
    BY <2>4 DEF BlockSet
  <2>6. PICK i \in Tags(text, {"block"}) : b.span = Statement(i)
    BY <2>5 DEF BlockTags
  <2>7. i \in Nat /\ text[i].kind = "block" /\ text[j].kind = "macro"
    BY <2>2, <2>3 DEF Tags, IsText
  <2>8. i = j
    BY <2>2, <2>6, <2>7, PlacesDiffer
  <2> QED BY <2>7, <2>8
<1> QED BY <1>2, <1>3, <1>4

\* Two lookups: the first that finds something.
LEMMA FirstOfPair ==
  ASSUME NEW A, NEW B
  PROVE  FirstFound(<<A, B>>) = IF A # {} THEN A ELSE B
<1> DEFINE s == <<A, B>>
           hits == {i \in DOMAIN s : s[i] # {}}
           first == {j \in hits : \A h \in hits : j <= h}
<1>1. FirstFound(s) = UNION {s[i] : i \in first}
  BY DEF FirstFound, Some
<1>2. DOMAIN s = {1, 2} /\ s[1] = A /\ s[2] = B
  OBVIOUS
<1> HIDE DEF s
<1>3. CASE A # {}
  <2>1. first = {1}
    BY <1>2, <1>3
  <2> HIDE DEF first
  <2> QED BY <1>1, <1>2, <1>3, <2>1 DEF s
<1>4. CASE A = {}
  <2>1. first \subseteq {2} /\ (B # {} => first = {2})
    BY <1>2, <1>4
  <2> HIDE DEF first
  <2> QED BY <1>1, <1>2, <1>4, <2>1, SMTT(40) DEF s
<1> QED BY <1>3, <1>4

\* A lookup finds what is in its list.
LEMMA FoundIsListed ==
  ASSUME NEW list, NEW hits, hits \subseteq DOMAIN list
  PROVE  FirstOf(list, hits) \subseteq Elements(list)
BY DEF FirstOf, Elements

\* What the walks over blocks find is not where a macro is.
LEMMA BlocksAreElsewhere ==
  ASSUME IInv, NEW k, NEW name
  PROVE  /\ \A chain : BlockInChain(index, chain, name) \cap MacroPlaces = {}
         /\ \A facts : AboveBlock(index, facts, name) \cap MacroPlaces = {}
         /\ ResolveSelfBlock(index, k, name) \cap MacroPlaces = {}
         /\ \A byte : ResolveSuper(index, k, byte) \cap MacroPlaces = {}
         /\ \A byte : OverriddenBlock(index, k, byte) \cap MacroPlaces = {}
<1>1. ASSUME NEW q, NEW n PROVE \A b \in BlockNamed(index[q], n) : Place(q, b.span) \notin MacroPlaces
  <2> PICK list : list = index[q].blocks
    OBVIOUS
  <2>1. BlockNamed(index[q], n) = FirstOf(list, {i \in DOMAIN list : list[i].name = n})
    BY Zenon DEF BlockNamed, Some, FirstOf
  <2>2. FirstOf(list, {i \in DOMAIN list : list[i].name = n}) \subseteq Elements(list)
    BY FoundIsListed
  <2> QED BY <2>1, <2>2, NotMacroPlaces
<1>2. ASSUME NEW chain, NEW n PROVE BlockInChain(index, chain, n) \cap MacroPlaces = {}
  <2> PICK found : found = Some(chain, LAMBDA c : BlockNamed(index[c], n) # {})
    OBVIOUS
  <2>1. BlockInChain(index, chain, n) = UNION {{Place(q, b.span) : b \in BlockNamed(index[q], n)} : q \in found}
    BY Zenon DEF BlockInChain
  <2>2. ASSUME NEW p \in BlockInChain(index, chain, n), p \in MacroPlaces PROVE FALSE
    <3>1. PICK q \in found : p \in {Place(q, b.span) : b \in BlockNamed(index[q], n)}
      BY <2>1
    <3>2. PICK b \in BlockNamed(index[q], n) : p = Place(q, b.span)
      BY <3>1
    <3> QED BY <1>1, <2>2, <3>2
  <2> QED BY <2>2
<1>3. ASSUME NEW facts, NEW n PROVE AboveBlock(index, facts, n) \cap MacroPlaces = {}
  BY <1>2 DEF AboveBlock
<1>4. ResolveSelfBlock(index, k, name) \cap MacroPlaces = {}
  <2> PICK here : here = {Place(k, b.span) : b \in BlockNamed(index[k], name)}
    OBVIOUS
  <2> PICK above : above = AboveBlock(index, index[k], name)
    OBVIOUS
  <2>1. ResolveSelfBlock(index, k, name) = FirstFound(<<here, above>>)
    BY Zenon DEF ResolveSelfBlock
  <2>2. here \cap MacroPlaces = {}
    BY <1>1
  <2>3. above \cap MacroPlaces = {}
    BY <1>3
  <2> QED BY <2>1, <2>2, <2>3, FirstOfPair
<1>5. ASSUME NEW byte PROVE ResolveSuper(index, k, byte) \cap MacroPlaces = {}
  <2> PICK within : within = Some(index[k].blocks, LAMBDA b : ByteIn(byte, b.body))
    OBVIOUS
  <2>1. ResolveSuper(index, k, byte) = UNION {AboveBlock(index, index[k], b.name) : b \in within}
    BY Zenon DEF ResolveSuper
  <2> QED BY <1>3, <2>1
<1>6. ASSUME NEW byte PROVE OverriddenBlock(index, k, byte) \cap MacroPlaces = {}
  <2> PICK within : within = Some(index[k].blocks, LAMBDA c : ByteIn(byte, c.span))
    OBVIOUS
  <2>1. OverriddenBlock(index, k, byte) =
          UNION {BlockInChain(index, Tail(TemplateChain(index, k)), b.name) : b \in within}
    BY Zenon DEF OverriddenBlock
  <2> QED BY <1>2, <2>1
<1> QED BY <1>2, <1>3, <1>4, <1>5, <1>6

\* Where go to definition leads from a call.
LEMMA JumpOfCall ==
  ASSUME IInv, NEW k, NEW c, NEW r, CallAt(k, c, r), r.name # "super",
         NEW facts, facts = index[k], NEW name, name = r.name, NEW jumped, jumped = GoToDefinition(texts, index, c)
  PROVE  \/ MacroNamed(facts, name) # {} /\ jumped = {Place(k, m.span) : m \in MacroNamed(facts, name)}
         \/ /\ MacroNamed(facts, name) = {} /\ ImportedDefinition(index, facts, name) # {}
            /\ jumped = ImportedDefinition(index, facts, name)
         \/ MacroNamed(facts, name) = {} /\ jumped \cap MacroPlaces = {}
<1> PICK byte : byte = Byte(c)
  OBVIOUS
<1>1. k \in Templates /\ c.key = k /\ name = Word(texts[k], c)
  BY CallIsAlone DEF CallAt
<1>2. {u.kind : u \in Elements(UsesAt(facts, byte))} = {"function"}
  <2>1. Elements(UsesAt(facts, byte)) = {r} /\ r.kind = "function"
    BY CallIsAlone DEF CallAt
  <2> QED BY <2>1
<1> DEFINE macros == {Place(k, m.span) : m \in MacroNamed(facts, name)}
           imported == ImportedDefinition(index, facts, name)
           aliases == {Place(k, a.span) : a \in Some(facts.importAliases, LAMBDA i : i.alias = name)}
           bound == {Place(k, w.span) : w \in DefinedAt(facts, name, byte)}
           overridden == OverriddenBlock(index, k, byte)
           own == ResolveSelfBlock(index, k, name)
<1>3. ResolveIdent(index, k, name, byte) =
        IF name = "super" THEN ResolveSuper(index, k, byte)
        ELSE IF FirstFound(<<macros, imported, aliases>>) # {} THEN FirstFound(<<macros, imported, aliases>>)
        ELSE IF IsHostOwned(name) THEN {} ELSE bound
  BY Zenon DEF ResolveIdent, DefinedAt
<1> DEFINE kinds == {u.kind : u \in Elements(UsesAt(facts, byte))}
           tag == texts[k][c.tag]
           plain == IF kinds \cap {"function", "identifier"} = {} THEN {} ELSE ResolveIdent(index, k, name, byte)
           member == IF "attribute" \notin kinds THEN {}
                     ELSE IF tag.names[1] = "self" THEN ResolveSelfBlock(index, k, name)
                     ELSE ResolveAliasAttr(index, facts, tag.names[1], name)
           afterSelf == tag.kind = "invoke_member" /\ tag.names[1] = "self" /\ c.token = 2
<1>4. GoToDefinition(texts, index, c) =
         IF kinds \cap {"filter", "test"} # {} THEN {}
         ELSE IF plain \cup member # {} THEN FirstFound(<<plain, member>>)
         ELSE IF afterSelf THEN ResolveSelfBlock(index, k, name)
         ELSE FirstFound(<<ImportedDefinition(index, facts, name), OverriddenBlock(index, k, byte)>>)
  <2>1. k = c.key /\ facts = index[c.key] /\ name = Word(texts[c.key], c)
    BY <1>1
  <2> QED BY <2>1 DEF GoToDefinition
<1>5. kinds = {"function"}
  BY <1>2
<1>6. aliases \cap MacroPlaces = {}
  <2> PICK list : list = facts.importAliases
    OBVIOUS
  <2>1. Some(facts.importAliases, LAMBDA i : i.alias = name) = FirstOf(list, {i \in DOMAIN list : list[i].alias = name})
    BY Zenon DEF Some, FirstOf
  <2>2. FirstOf(list, {i \in DOMAIN list : list[i].alias = name}) \subseteq Elements(list)
    BY FoundIsListed
  <2>3. Some(facts.importAliases, LAMBDA i : i.alias = name) \subseteq Elements(index[k].importAliases)
    BY <2>1, <2>2
  <2> QED BY <2>3, NotMacroPlaces
<1>7. bound \cap MacroPlaces = {}
  <2>1. \E hits : hits \subseteq DOMAIN facts.variables /\ DefinedAt(facts, name, byte) = FirstOf(facts.variables, hits)
    <3> DEFINE hits == {i \in DOMAIN facts.variables :
              /\ facts.variables[i].name = name /\ ByteIn(byte, facts.variables[i].validRange)
              /\ \A y \in Elements(facts.variables) :
                   y.name = name /\ ByteIn(byte, y.validRange) =>
                     Length(facts.variables[i].validRange) <= Length(y.validRange)}
    <3>1. DefinedAt(facts, name, byte) = FirstOf(facts.variables, hits)
      BY Zenon DEF DefinedAt, SmallestFirst, Some, FirstOf
    <3>2. hits \subseteq DOMAIN facts.variables
      OBVIOUS
    <3> HIDE DEF hits
    <3> QED BY <3>1, <3>2
  <2>2. DefinedAt(facts, name, byte) \subseteq Elements(index[k].variables)
    BY <2>1, FoundIsListed
  <2> QED BY <2>2, NotMacroPlaces
<1>8. overridden \cap MacroPlaces = {} /\ own \cap MacroPlaces = {}
  BY BlocksAreElsewhere
<1> HIDE DEF imported, aliases, bound, kinds, overridden, own
<1>9. member = {} /\ plain = ResolveIdent(index, k, name, byte)
  BY <1>5
<1> HIDE DEF member, plain
<1>10. GoToDefinition(texts, index, c) =
         IF plain # {} THEN plain ELSE IF afterSelf THEN own ELSE FirstFound(<<imported, overridden>>)
  <2>1. kinds \cap {"filter", "test"} = {}
    BY <1>5
  <2>2. FirstFound(<<plain, member>>) = IF plain # {} THEN plain ELSE member
    BY FirstOfPair
  <2> HIDE DEF afterSelf
  <2> QED BY <1>4, <1>9, <2>1, <2>2 DEF own, imported, overridden
<1> HIDE DEF afterSelf
<1>11. CASE MacroNamed(facts, name) # {}
  <2>1. macros # {}
    BY <1>11
  <2> HIDE DEF macros
  <2>2. plain = macros
    BY <1>3, <1>9, <2>1, FirstOfThree
  <2>3. jumped = macros
    BY <1>10, <2>1, <2>2
  <2> QED BY <1>11, <2>3 DEF macros
<1>12. CASE MacroNamed(facts, name) = {}
  <2>1. macros = {}
    BY <1>12
  <2> HIDE DEF macros
  <2>2. FirstFound(<<macros, imported, aliases>>) = IF imported # {} THEN imported ELSE aliases
    BY <2>1, FirstOfThree
  <2>3. CASE imported # {}
    <3>1. plain = imported
      BY <1>3, <1>9, <2>2, <2>3
    <3>2. jumped = imported
      BY <1>10, <2>3, <3>1
    <3> QED BY <1>12, <2>3, <3>2 DEF imported
  <2>4. CASE imported = {}
    <3>1. plain \cap MacroPlaces = {}
      BY <1>3, <1>6, <1>7, <1>9, <2>2, <2>4
    <3>2. FirstFound(<<imported, overridden>>) = overridden
      BY <2>4, FirstOfPair
    <3>3. jumped \cap MacroPlaces = {}
      BY <1>8, <1>10, <3>1, <3>2
    <3> QED BY <1>12, <3>3
  <2> QED BY <2>3, <2>4
<1> QED BY <1>11, <1>12

UsedAt(list, byte) == Some(list, LAMBDA u : u.kind \in {"function", "identifier"} /\ ByteIn(byte, u.span))

\* The hierarchy opens at what the call names.
LEMMA HierarchyOpens ==
  ASSUME IInv, NEW k, NEW c, NEW r, CallAt(k, c, r)
  PROVE  PrepareCallHierarchy(texts[k], index, c) = ResolveMacroItem(index, k, r.name)
<1> PICK facts : facts = index[k]
  OBVIOUS
<1> PICK list : list = facts.references
  OBVIOUS
<1> PICK byte : byte = Byte(c)
  OBVIOUS
<1>1. k \in Templates /\ c.key = k /\ r.kind = "function" /\ r \in Elements(list) /\ Elements(UsesAt(facts, byte)) = {r}
  BY CallIsAlone DEF CallAt
<1>2. IsText(texts[k]) /\ list = References(texts[k])
  BY <1>1, IndexIs
<1>3. PICK S : list \in Seq(S)
  BY <1>2, ReferencesOfTags
<1>4. Elements(UsesAt(facts, byte)) = {u \in Elements(list) : ByteIn(byte, u.span)}
  BY <1>2, UsesAtByte
<1> PICK hits : hits = {i \in DOMAIN list : list[i].kind \in {"function", "identifier"} /\ ByteIn(byte, list[i].span)}
  OBVIOUS
<1>5. \A i \in hits : list[i] = r
  BY <1>1, <1>4 DEF Elements
<1>6. hits # {} /\ hits \subseteq DOMAIN list
  <2>1. PICK i \in DOMAIN list : list[i] = r
    BY <1>1 DEF Elements
  <2>2. ByteIn(byte, r.span)
    BY <1>1, <1>4
  <2> QED BY <1>1, <2>1, <2>2
<1>7. FirstOf(list, hits) = {r}
  <2>1. IsFirst(list, hits, FirstOf(list, hits))
    BY <1>3, <1>6, FirstOfHits
  <2> QED BY <1>5, <2>1 DEF IsFirst
<1> PICK used : used = UsedAt(index[c.key].references, Byte(c))
  OBVIOUS
<1>8. used = {r}
  <2>1. UsedAt(list, byte) =
          FirstOf(list, {i \in DOMAIN list : list[i].kind \in {"function", "identifier"} /\ ByteIn(byte, list[i].span)})
    BY Zenon DEF UsedAt, Some, FirstOf
  <2>2. UsedAt(list, byte) = {r}
    BY <1>7, <2>1
  <2>3. list = index[c.key].references
    BY <1>1
  <2> QED BY <2>2, <2>3
<1>9. used # {} => PrepareCallHierarchy(texts[k], index, c) = ResolveMacroItem(index, c.key, Only(used).name)
  BY Zenon DEF PrepareCallHierarchy, UsedAt
<1>10. Only(used) = r
  BY <1>8 DEF Only
<1> QED BY <1>1, <1>8, <1>9, <1>10

\* The walks from a call to a macro agree.
LEMMA ProjectWalksAgree == IInv => WalksAgreeOnCallee
<1> DEFINE places(macros) == {Place(m.key, m.macro.span) : m \in macros}
<1> SUFFICES ASSUME IInv, NEW k \in Templates, NEW r \in Refs(index[k], {"function"}),
                    NEW c, c = [key |-> k, tag |-> TagOf(r.span.lo), token |-> TokenOf(r.span.lo)],
                    NEW jumped, jumped = GoToDefinition(texts, index, c),
                    NEW named, named = CalledMacro(index, k, r.name),
                    jumped # {}, jumped \subseteq MacroPlaces, r.name # "super", ~ImportedElsewise(k, r.name)
             PROVE  /\ places(named) = jumped
                    /\ places(ResolveMacro(index, k, r.name)) = jumped
                    /\ PrepareCallHierarchy(texts[k], index, c) = {Item("macro", m.macro.name, m.key) : m \in named}
  BY Zenon DEF WalksAgreeOnCallee
<1> PICK name : name = r.name
  OBVIOUS
<1> PICK facts : facts = index[k]
  OBVIOUS
<1>1. CallAt(k, c, r)
  BY CallHasCursor
<1>2. name # None
  BY <1>1, CallIsAlone
<1>3. PrepareCallHierarchy(texts[k], index, c) = ResolveMacroItem(index, k, name)
  BY <1>1, HierarchyOpens
<1> PICK anywhere : anywhere = FindMacroWithPath(index, name)
  OBVIOUS
<1> PICK local : local = At(k, MacroNamed(facts, name))
  OBVIOUS
<1>4. /\ named = IF local # {} THEN local
                 ELSE IF ImportedMacro(index, facts, name) # {} THEN ImportedMacro(index, facts, name) ELSE anywhere
      /\ ResolveMacro(index, k, name) =
           IF MacroNamed(facts, name) # {} THEN local
           ELSE IF CheckedImport(index, facts, name) # {} THEN CheckedImport(index, facts, name) ELSE anywhere
      /\ ResolveMacroItem(index, k, name) =
           {Item("macro", m.macro.name, m.key) :
              m \in FirstFound(<<local, ItemImport(index, facts, name), anywhere>>)}
  BY WalksUnfold
<1>5. local # {} <=> MacroNamed(facts, name) # {}
  BY DEF At
<1>6. \/ MacroNamed(facts, name) # {} /\ jumped = {Place(k, m.span) : m \in MacroNamed(facts, name)}
      \/ /\ MacroNamed(facts, name) = {} /\ ImportedDefinition(index, facts, name) # {}
         /\ jumped = ImportedDefinition(index, facts, name)
      \/ MacroNamed(facts, name) = {} /\ jumped \cap MacroPlaces = {}
  BY <1>1, JumpOfCall
<1>7. CASE MacroNamed(facts, name) # {}
  <2>1. jumped = {Place(k, m.span) : m \in MacroNamed(facts, name)}
    BY <1>6, <1>7
  <2>2. places(local) = jumped
    <3> PICK M : M = MacroNamed(facts, name)
      OBVIOUS
    <3>1. local = {[key |-> k, macro |-> m] : m \in M}
      BY DEF At
    <3>2. \A m \in M : Place([key |-> k, macro |-> m].key, [key |-> k, macro |-> m].macro.span) = Place(k, m.span)
      OBVIOUS
    <3>3. places(local) \subseteq jumped
      BY <2>1, <3>1, <3>2
    <3>4. ASSUME NEW p \in jumped PROVE p \in places(local)
      <4>1. PICK m \in M : p = Place(k, m.span)
        BY <2>1
      <4> PICK x : x = [key |-> k, macro |-> m]
        OBVIOUS
      <4>2. x \in local /\ p = Place(x.key, x.macro.span)
        BY <3>1, <4>1
      <4> QED BY <4>2
    <3> QED BY <3>3, <3>4
  <2> HIDE DEF places
  <2>3. named = local /\ ResolveMacro(index, k, name) = local
    BY <1>4, <1>5, <1>7
  <2>4. FirstFound(<<local, ItemImport(index, facts, name), anywhere>>) = local
    BY <1>5, <1>7, FirstOfThree
  <2>5. ResolveMacroItem(index, k, name) = {Item("macro", m.macro.name, m.key) : m \in local}
    BY <1>4, <2>4
  <2> QED BY <1>3, <2>2, <2>3, <2>5
<1>8. CASE MacroNamed(facts, name) = {}
  <2>1. jumped = ImportedDefinition(index, facts, name) /\ ImportedDefinition(index, facts, name) # {}
    BY <1>6, <1>8
  <2>2. PICK X : /\ X # {} /\ ImportedDefinition(index, facts, name) = {Place(m.key, m.macro.span) : m \in X}
                 /\ ImportedMacro(index, facts, name) = X
                 /\ CheckedImport(index, facts, name) = X
                 /\ ItemImport(index, facts, name) = X
    BY <1>2, <2>1, ImportedAlike
  <2>3. places(X) = jumped
    BY <2>1, <2>2
  <2> HIDE DEF places
  <2>4. local = {}
    BY <1>5, <1>8
  <2>5. named = X /\ ResolveMacro(index, k, name) = X
    BY <1>4, <1>8, <2>2, <2>4
  <2>6. FirstFound(<<local, ItemImport(index, facts, name), anywhere>>) = X
    BY <2>2, <2>4, FirstOfThree
  <2>7. ResolveMacroItem(index, k, name) = {Item("macro", m.macro.name, m.key) : m \in X}
    BY <1>4, <2>6
  <2> QED BY <1>3, <2>3, <2>5, <2>7
<1> QED BY <1>7, <1>8

\* The first of four lookups.
LEMMA FirstOfFour ==
  ASSUME NEW A, A # {}, NEW B, NEW C, NEW D
  PROVE  FirstFound(<<A, B, C, D>>) = A
<1> PICK s : s = <<A, B, C, D>>
  OBVIOUS
<1>1. DOMAIN s = 1 .. 4 /\ s[1] = A
  OBVIOUS
<1>2. DOMAIN s \in SUBSET Nat /\ 1 \in DOMAIN s /\ \A i \in DOMAIN s : i < 1 => s[i] = {}
  BY <1>1
<1>3. s[1] # {} => FirstFound(s) = s[1]
  BY <1>2, FirstFoundIs
<1> QED BY <1>1, <1>3

\* The symbols that a declaration under the cursor can be.
DeclaredSymbol(facts, key, byte, name) ==
  FirstFound(<<
    UNION {MacroSymbol(m.name, key, m.span) : m \in Some(facts.macros, LAMBDA d : ByteIn(byte, d.span))},
    UNION {Symbol("block", b.name, {}, {}) : b \in Some(facts.blocks, LAMBDA d : ByteIn(byte, d.span))},
    IF name \in AliasNames(facts) THEN Symbol("alias", name, {}, {}) ELSE {},
    IF \E v \in Elements(facts.variables) : v.name = name
    THEN LocalSymbol(facts, name, byte) ELSE {} >>)

\* A cursor on the name of a macro is on no use, and on that macro.
LEMMA HeaderSymbol ==
  ASSUME IInv, NEW k \in Templates, NEW i \in Tags(texts[k], {"macro"}),
         Macro(texts[k], i) \in Elements(index[k].macros),
         NEW header, header = [key |-> k, tag |-> i, token |-> 1], NEW name, name = Word(texts[k], header)
  PROVE  SymbolAt(texts, index, header) = MacroSymbol(name, k, Statement(i))
<1> PICK text : text = texts[k]
  OBVIOUS
<1> PICK facts : facts = index[k]
  OBVIOUS
<1> PICK byte : byte = Byte(header)
  OBVIOUS
<1> PICK m : m = Macro(text, i)
  OBVIOUS
<1>1. IsText(text) /\ facts.references = References(text) /\ facts.macros = Macros(text)
  BY IndexIs
<1>2. i \in DOMAIN text /\ text[i].kind = "macro" /\ i \in Nat
  BY <1>1 DEF Tags, IsText
<1>3. Written(text[i])
  BY <1>1, <1>2, TagsAreWritten
<1>4. Len(text[i].names) \in Nat /\ Len(text[i].aliases) \in Nat /\ Len(text[i].names) > 0
  <2>1. text[i].count \in Nat /\ text[i].count < Len(text[i].names)
    BY <1>2, <1>3 DEF Written
  <2>2. Len(text[i].names) \in Nat /\ Len(text[i].aliases) \in Nat
    BY <1>3, TokensFit
  <2> QED BY <2>1, <2>2
<1>5. header.key = k /\ header.tag = i /\ header.token = 1
  OBVIOUS
<1>6. name = text[i].names[1] /\ 1 \in Tokens(text[i])
  <2>1. 1 <= Len(text[i].names) /\ 1 \in 1 .. Len(text[i].names) + Len(text[i].aliases)
    BY <1>4, TokenPlaces
  <2>2. name = Token(text[i], 1)
    BY <1>5 DEF Word
  <2> QED BY <2>1, <2>2, Zenon DEF Token, Tokens
<1>7. header \in CursorsIn(k)
  <2> DEFINE P == {p \in (DOMAIN text) \X (1 .. Width - 3) : p[2] \in Tokens(text[p[1]])}
             t == <<i, 1>>
  <2>1. t \in P /\ t[1] = i /\ t[2] = 1
    BY <1>2, <1>6 DEF Width
  <2>2. CursorsIn(k) = {[key |-> k, tag |-> p[1], token |-> p[2]] : p \in P}
    BY DEF CursorsIn
  <2> HIDE DEF P, t
  <2> QED BY <2>1, <2>2
<1>8. UsesAt(facts, byte) = <<>>
  <2>1. ASSUME NEW u \in Elements(UsesAt(facts, byte)) PROVE FALSE
    <3>1. u \in Elements(References(text)) /\ u.span = Name(i, 1)
      BY <1>1, <1>5, <1>7, CursorUse
    <3>2. PICK q \in Tags(text, ReferenceKinds), j \in 1 .. 6 : u.span = Name(q, j)
      BY <1>1, <3>1, ReferenceIs
    <3>3. q \in Nat /\ text[q].kind \in ReferenceKinds
      BY <1>1 DEF Tags, IsText
    <3>4. Name(q, j).lo = 8 * q + j /\ Name(i, 1).lo = 8 * i + 1
      <4>1. j \in 1 .. 7 /\ 1 \in 1 .. 7
        OBVIOUS
      <4> QED BY <1>2, <3>3, <4>1, TagOfName
    <3>5. q = i
      BY <1>2, <3>1, <3>2, <3>3, <3>4
    <3> QED BY <1>2, <3>3, <3>5 DEF ReferenceKinds, Qualified, CallKinds
  <2>2. Elements(UsesAt(facts, byte)) = {}
    BY <2>1
  <2>3. PICK S : UsesAt(facts, byte) \in Seq(S)
    BY <1>1, UsesAtByte
  <2> QED BY <2>2, <2>3, FirstElement
<1>9. Some(facts.macros, LAMBDA d : ByteIn(byte, d.span)) = {m}
  <2> PICK list : list = facts.macros
    OBVIOUS
  <2> PICK hits : hits = {j \in DOMAIN list : ByteIn(byte, list[j].span)}
    OBVIOUS
  <2>1. Some(list, LAMBDA d : ByteIn(byte, d.span)) = FirstOf(list, {j \in DOMAIN list : ByteIn(byte, list[j].span)})
    BY Zenon DEF Some, FirstOf
  <2>2. byte = 8 * i + 1
    <3>1. 1 \in 1 .. 7
      OBVIOUS
    <3> QED BY <1>2, <1>5, <3>1, TagOfName DEF Byte
  <2>3. ASSUME NEW d \in Elements(list) PROVE ByteIn(byte, d.span) <=> d = m
    <3>1. PICK j \in Tags(text, {"macro"}) : d = Macro(text, j) /\ j \in Nat /\ d.span = Statement(j)
      BY MacroIs
    <3>2. Statement(j).lo = 8 * j /\ Statement(j).hi = 8 * j + 7
      BY <3>1, PlacesDiffer
    <3>3. ByteIn(byte, d.span) => j = i
      BY <1>2, <2>2, <3>1, <3>2 DEF ByteIn
    <3>4. d = m => ByteIn(byte, d.span)
      <4>1. m.span = Statement(i)
        BY DEF Macro
      <4>2. d = m => i = j
        BY <1>2, <3>1, <4>1, PlacesDiffer
      <4> QED BY <1>2, <2>2, <3>1, <3>2, <4>2 DEF ByteIn
    <3> QED BY <3>1, <3>3, <3>4
  <2>4. \A j \in hits : list[j] = m
    BY <2>3 DEF Elements
  <2>5. hits # {} /\ hits \subseteq DOMAIN list
    <3>1. PICK j \in DOMAIN list : list[j] = m
      BY DEF Elements
    <3> QED BY <2>3, <3>1 DEF Elements
  <2>6. PICK S : list \in Seq(S)
    BY <1>1, MacrosOfTags
  <2>7. IsFirst(list, hits, FirstOf(list, hits))
    BY <2>5, <2>6, FirstOfHits
  <2>8. FirstOf(list, hits) = {m}
    BY <2>4, <2>7 DEF IsFirst
  <2> QED BY <2>1, <2>8
<1> DEFINE ofMacro == UNION {MacroSymbol(d.name, k, d.span) : d \in Some(facts.macros, LAMBDA d : ByteIn(byte, d.span))}
           ofBlock == UNION {Symbol("block", b.name, {}, {}) : b \in Some(facts.blocks, LAMBDA d : ByteIn(byte, d.span))}
           ofAlias == IF name \in AliasNames(facts) THEN Symbol("alias", name, {}, {}) ELSE {}
           ofVariable == IF \E v \in Elements(facts.variables) : v.name = name
                         THEN LocalSymbol(facts, name, byte) ELSE {}
<1>10. DeclaredSymbol(facts, k, byte, name) = FirstFound(<<ofMacro, ofBlock, ofAlias, ofVariable>>)
  BY Zenon DEF DeclaredSymbol
<1>11. ofMacro = MacroSymbol(name, k, Statement(i))
  <2>1. m.name = name /\ m.span = Statement(i)
    BY <1>6 DEF Macro
  <2>2. ofMacro = UNION {MacroSymbol(d.name, k, d.span) : d \in {m}}
    BY <1>9, Zenon
  <2> HIDE DEF ofMacro
  <2> QED BY <2>1, <2>2
<1>12. ofMacro # {}
  BY <1>11 DEF MacroSymbol, Symbol
<1> HIDE DEF ofMacro, ofBlock, ofAlias, ofVariable
<1>13. DeclaredSymbol(facts, k, byte, name) = MacroSymbol(name, k, Statement(i))
  BY <1>10, <1>11, <1>12, FirstOfFour
<1>14. SymbolAt(texts, index, header) =
         IF UsesAt(index[header.key], Byte(header)) # <<>>
         THEN ClassifyReference(index, header.key, Word(texts[header.key], header), Byte(header))
         ELSE DeclaredSymbol(index[header.key], header.key, Byte(header), Word(texts[header.key], header))
  BY Zenon DEF SymbolAt, DeclaredSymbol
<1> QED BY <1>5, <1>8, <1>13, <1>14

\* The references found from the name of a macro have the uses of the name that mean it.
LEMMA HeaderReferences ==
  ASSUME IInv, NEW k \in Templates, NEW i \in Tags(texts[k], {"macro"}),
         Macro(texts[k], i) \in Elements(index[k].macros),
         NEW header, header = [key |-> k, tag |-> i, token |-> 1]
  PROVE  MacroUses(index, Word(texts[k], header), k) \subseteq FindReferences(texts, index, header, TRUE)
<1> PICK name : name = Word(texts[k], header)
  OBVIOUS
<1> PICK place : place = Place(k, Statement(i))
  OBVIOUS
<1> PICK symbol : symbol = [kind |-> "macro", name |-> name, places |-> {place}, scope |-> {}]
  OBVIOUS
<1>1. symbol.kind = "macro" /\ symbol.name = name /\ symbol.places = {place} /\ place.key = k
  BY DEF Place
<1>2. SymbolAt(texts, index, header) = {symbol}
  <2>1. SymbolAt(texts, index, header) = MacroSymbol(name, k, Statement(i))
    BY HeaderSymbol
  <2> QED BY <2>1 DEF MacroSymbol, Symbol
<1>3. Only({symbol}) = symbol /\ Only({place}) = place
  BY OnlyIs
<1>4. FindReferences(texts, index, header, TRUE) =
        IF SymbolAt(texts, index, header) = {} THEN {}
        ELSE ReferencesOfSymbol(texts, index, header.key, Only(SymbolAt(texts, index, header)), TRUE)
  BY Zenon DEF FindReferences, ReferencesOfSymbol
<1>5. FindReferences(texts, index, header, TRUE) = ReferencesOfSymbol(texts, index, k, symbol, TRUE)
  BY <1>2, <1>3, <1>4
<1> DEFINE macros == MacroUses(index, symbol.name, Only(symbol.places).key)
           blocks == UNION {{Place(q, b.span) :
                              b \in {d \in Elements(index[q].blocks) : d.name = symbol.name /\ (TRUE \/ q # k)}} :
                            q \in DOMAIN index}
           known == {q \in symbol.places : TRUE}
<1>6. ReferencesOfSymbol(texts, index, k, symbol, TRUE) =
        CASE symbol.kind = "macro" -> macros \cup known
          [] symbol.kind = "block" -> blocks
          [] symbol.kind = "alias" -> AliasReferences(texts[k], index[k], k, symbol.name, TRUE)
          [] symbol.kind = "local" -> LocalReferences(index[k], k, symbol, TRUE)
  BY Zenon DEF ReferencesOfSymbol
<1>7. macros = MacroUses(index, name, k)
  BY <1>1, <1>3
<1> HIDE DEF macros, blocks, known
<1>8. FindReferences(texts, index, header, TRUE) = macros \cup known
  BY Zenon, <1>1, <1>5, <1>6
<1> QED BY <1>7, <1>8

\* What go to definition takes to a macro is among its references.
LEMMA ProjectReferencesDefinitions == IInv => DefinitionIsReferenced
<1> SUFFICES ASSUME IInv, NEW c \in Cursors, NEW d \in GoToDefinition(texts, index, c), d \in MacroPlaces,
                    NEW header, header = [key |-> d.key, tag |-> TagOf(d.span.lo), token |-> 1],
                    NEW r \in Elements(UsesAt(index[c.key], Byte(c))), r.kind = "function",
                    Word(texts[d.key], header) = Word(texts[c.key], c), Word(texts[c.key], c) # "super"
             PROVE  Place(c.key, Here(c)) \in FindReferences(texts, index, header, TRUE)
  BY Zenon DEF DefinitionIsReferenced
<1>1. PICK k \in Templates : c \in CursorsIn(k)
  BY DEF Cursors
<1>2. c.key = k
  BY <1>1 DEF CursorsIn
<1>3. CallAt(k, c, r)
  BY <1>1, <1>2 DEF CallAt
<1> PICK name : name = Word(texts[k], c)
  OBVIOUS
<1>4. r.name = name /\ r.span = Here(c) /\ r \in Elements(index[k].references)
  BY <1>3, CallIsAlone
<1>5. d.key \in Templates
  BY MacroPlaceIs
<1>6. PICK i \in Tags(texts[d.key], {"macro"}) :
         /\ d = Place(d.key, Statement(i)) /\ i \in Nat /\ d.span = Statement(i)
         /\ Macro(texts[d.key], i) \in Elements(index[d.key].macros)
  BY MacroPlaceIs
<1>7. TagOf(d.span.lo) = i
  <2>1. d.span.lo = 8 * i
    BY <1>6, PlacesDiffer
  <2>2. (8 * i) \div 8 = i
    BY <1>6
  <2> QED BY <2>1, <2>2 DEF TagOf, Width
<1>8. header = [key |-> d.key, tag |-> i, token |-> 1]
  BY <1>7
<1>9. MacroUses(index, name, d.key) \subseteq FindReferences(texts, index, header, TRUE)
  <2>1. MacroUses(index, Word(texts[d.key], header), d.key) \subseteq FindReferences(texts, index, header, TRUE)
    BY <1>5, <1>6, <1>8, HeaderReferences
  <2> QED BY <1>2, <2>1
<1>10. d.key = k \/ ~Shadows(index[k], name)
  <2>1. ASSUME Shadows(index[k], name) PROVE d.key = k
    <3>1. MacroNamed(index[k], name) # {}
      BY <2>1 DEF Shadows
    <3>2. name # "super"
      BY <1>2
    <3> PICK jumped : jumped = GoToDefinition(texts, index, c)
      OBVIOUS
    <3>3. jumped = {Place(k, m.span) : m \in MacroNamed(index[k], name)}
      BY <1>3, <1>4, <3>1, <3>2, JumpOfCall
    <3>4. PICK m \in MacroNamed(index[k], name) : d = Place(k, m.span)
      BY <3>3
    <3> QED BY <3>4 DEF Place
  <2> QED BY <2>1
<1>11. r \in Uses(index[k], name)
  <2>1. r.kind \in {"identifier", "function"}
    OBVIOUS
  <2> QED BY <1>4, <2>1 DEF Uses, Refs
<1>12. k \in DOMAIN index
  BY DEF IInv, IsProject
<1>13. Place(k, r.span) \in MacroUses(index, name, d.key)
  <2>1. k \in {t \in DOMAIN index : t = d.key \/ ~Shadows(index[t], name)}
    BY <1>10, <1>12
  <2>2. Place(k, r.span) \in {Place(k, u.span) : u \in Uses(index[k], name)}
    BY <1>11
  <2> QED BY <2>1, <2>2 DEF MacroUses
<1> QED BY <1>2, <1>4, <1>9, <1>13

\* Whatever resolves a call on its own finds one macro, in every reachable project: the four walks
\* down from a call (definition, checks, undefined names, call hierarchy) and the search for
\* references that looks up from the macro.
THEOREM CallsResolved == Spec => []CallsResolveAlike
<1>1. IInv => CallsResolveAlike
  BY ProjectWalksAgree, ProjectReferencesDefinitions DEF CallsResolveAlike
<1> QED BY <1>1, AlwaysProject, PTL

(***************************************************************************)
(* Recursion: a walk that settles has a fixed point.                       *)
(***************************************************************************)
\* What F gives at a rank follows from what it is given below it.
Contracts(D, rank, W, F) ==
  /\ \A f \in W : DOMAIN f = D /\ f = [x \in D |-> f[x]]
  /\ \A f, g \in W : \A x \in D : (\A y \in D : rank[y] < rank[x] => f[y] = g[y]) => F[f][x] = F[g][x]

\* A function that settles below each rank has a fixed point.
LEMMA Fixpoint ==
  ASSUME NEW D, NEW N \in Nat, NEW rank \in [D -> 0 .. N], NEW W, W # {}, NEW F \in [W -> W], Contracts(D, rank, W, F)
  PROVE  \E f \in W : F[f] = f
<1>0. /\ \A f \in W : DOMAIN f = D /\ f = [x \in D |-> f[x]]
      /\ \A f, g \in W : \A x \in D : (\A y \in D : rank[y] < rank[x] => f[y] = g[y]) => F[f][x] = F[g][x]
  BY DEF Contracts
<1>1. PICK f0 \in W : TRUE
  OBVIOUS
<1> DEFINE n == N + 2
           step == [i \in 1 .. n |-> F]
<1>2. n \in Nat /\ step \in [1 .. n -> [W -> W]]
  OBVIOUS
<1>3. PICK h \in [0 .. n -> W] : Steps(h, n, f0, step)
  <2> HIDE DEF step, n
  <2> QED BY <1>1, <1>2, Recursion
<1>4. ASSUME NEW i \in 1 .. n PROVE h[i] = F[h[i - 1]] /\ h[i] \in W /\ h[i - 1] \in W
  <2>1. i - 1 \in 0 .. n /\ i \in 0 .. n
    OBVIOUS
  <2>2. h[i] = step[i][h[i - 1]]
    BY <1>3 DEF Steps
  <2>3. step[i] = F
    OBVIOUS
  <2> HIDE DEF step
  <2> QED BY <1>3, <2>1, <2>2, <2>3
<1> DEFINE M == {m \in Nat : \A x \in D : rank[x] < m => \A i, j \in m .. n : h[i][x] = h[j][x]}
<1>5. 0 \in M
  OBVIOUS
<1>6. ASSUME NEW m \in Nat, m \in M PROVE m + 1 \in M
  <2> SUFFICES ASSUME NEW x \in D, rank[x] < m + 1, NEW i \in m + 1 .. n, NEW j \in m + 1 .. n
               PROVE  h[i][x] = h[j][x]
    OBVIOUS
  <2>1. i \in 1 .. n /\ j \in 1 .. n /\ i - 1 \in m .. n /\ j - 1 \in m .. n
    BY <1>2
  <2>2. ASSUME NEW y \in D, rank[y] < rank[x] PROVE h[i - 1][y] = h[j - 1][y]
    <3>1. rank[y] < m
      BY <2>2
    <3> QED BY <1>6, <2>1, <3>1
  <2>3. h[i] = F[h[i - 1]] /\ h[j] = F[h[j - 1]] /\ h[i - 1] \in W /\ h[j - 1] \in W
    BY <1>4, <2>1
  <2> QED BY <1>0, <2>2, <2>3
<1>7. Nat \subseteq M
  <2> HIDE DEF M
  <2> QED BY <1>5, <1>6, Induction
<1>8. h[N + 1] \in W /\ h[N + 2] = F[h[N + 1]]
  <2>1. N + 2 \in 1 .. n /\ (N + 2) - 1 = N + 1
    OBVIOUS
  <2> QED BY <1>4, <2>1
<1>9. ASSUME NEW x \in D PROVE h[N + 2][x] = h[N + 1][x]
  <2>1. N + 1 \in M /\ rank[x] < N + 1 /\ N + 1 \in N + 1 .. n /\ N + 2 \in N + 1 .. n
    <3> HIDE DEF M
    <3> QED BY <1>7
  <2> QED BY <2>1
<1>10. h[N + 2] = h[N + 1]
  <2>1. h[N + 2] \in W
    <3> HIDE DEF M, step
    <3>1. N + 2 \in 1 .. n
      OBVIOUS
    <3> QED BY <1>4, <3>1
  <2> HIDE DEF M, step, n
  <2> QED BY <1>0, <1>8, <1>9, <2>1
<1> QED BY <1>8, <1>10

(***************************************************************************)
(* Cycles: the walk of E404 finds what the references reach.               *)
(***************************************************************************)
LoadKinds == {"extends", "include", "import", "from"}
RefsOf(text, kind) ==
  FlattenSeq([i \in DOMAIN text |-> IF text[i].kind \in {kind} THEN <<TemplateRef(text, i, kind)>> ELSE <<>>])
RefSet(text) == {TemplateRef(text, i, text[i].kind) : i \in Tags(text, LoadKinds)}

\* The references of one kind.
LEMMA RefsOfKind ==
  ASSUME NEW text, IsText(text), NEW kind \in LoadKinds
  PROVE  /\ RefsOf(text, kind) \in Seq(RefSet(text))
         /\ Elements(RefsOf(text, kind)) = {TemplateRef(text, i, kind) : i \in Tags(text, {kind})}
<1> DEFINE S == RefSet(text)
           seqs == [i \in DOMAIN text |-> IF text[i].kind \in {kind} THEN <<TemplateRef(text, i, kind)>> ELSE <<>>]
<1>1. ASSUME NEW i \in DOMAIN text
      PROVE  seqs[i] \in Seq(S) /\ Elements(seqs[i]) = {TemplateRef(text, h, kind) : h \in {i} \cap Tags(text, {kind})}
  <2> PICK x : x = TemplateRef(text, i, kind)
    OBVIOUS
  <2>1. CASE i \in Tags(text, {kind})
    <3>1. x \in S /\ seqs[i] = <<x>>
      BY <2>1 DEF Tags, RefSet
    <3>2. <<x>> \in Seq(S) /\ Elements(<<x>>) = {x}
      <4> HIDE DEF S
      <4> QED BY <3>1, FewElements
    <3> HIDE DEF S, seqs
    <3> QED BY <2>1, <3>1, <3>2
  <2>2. CASE i \notin Tags(text, {kind})
    <3>1. seqs[i] = <<>>
      BY <2>2 DEF Tags
    <3>2. <<>> \in Seq(S) /\ Elements(<<>>) = {}
      <4> HIDE DEF S
      <4> QED BY FewElements
    <3> HIDE DEF S, seqs
    <3> QED BY <2>2, <3>1, <3>2
  <2> QED BY <2>1, <2>2
<1>2. DOMAIN seqs = DOMAIN text /\ seqs = [i \in DOMAIN text |-> seqs[i]]
  OBVIOUS
<1>3. RefsOf(text, kind) = FlattenSeq(seqs)
  BY DEF RefsOf
<1> HIDE DEF S, seqs
<1>4. FlattenSeq(seqs) \in Seq(S) /\ Elements(FlattenSeq(seqs)) = UNION {Elements(seqs[i]) : i \in DOMAIN text}
  BY <1>1, <1>2, TextElements
<1>5. Tags(text, {kind}) \subseteq DOMAIN text
  BY DEF Tags
<1>6. UNION {Elements(seqs[i]) : i \in DOMAIN text} = {TemplateRef(text, i, kind) : i \in Tags(text, {kind})}
  <2>1. ASSUME NEW x PROVE x \in UNION {Elements(seqs[i]) : i \in DOMAIN text}
                             <=> \E i \in Tags(text, {kind}) : x = TemplateRef(text, i, kind)
    <3>1. \A i \in DOMAIN text : x \in Elements(seqs[i]) <=> i \in Tags(text, {kind}) /\ x = TemplateRef(text, i, kind)
      BY <1>1
    <3> QED BY <1>5, <3>1
  <2> QED BY <2>1
<1> QED BY <1>3, <1>4, <1>6 DEF S

\* One list after the other.
LEMMA TwoJoined ==
  ASSUME NEW S, NEW s \in Seq(S), NEW t \in Seq(S)
  PROVE  s \o t \in Seq(S) /\ Elements(s \o t) = Elements(s) \cup Elements(t)
<1>1. \A list : Elements(list) = ToSet(list)
  BY DEF Elements, ToSet
<1>2. s \o t \in Seq(S) /\ ToSet(s \o t) = ToSet(s) \cup ToSet(t)
  BY ConcatElements
<1> QED BY <1>1, <1>2

\* Four lists one after the other.
LEMMA FourJoined ==
  ASSUME NEW S, NEW a \in Seq(S), NEW b \in Seq(S), NEW c \in Seq(S), NEW d \in Seq(S)
  PROVE  /\ a \o b \o c \o d \in Seq(S)
         /\ Elements(a \o b \o c \o d) = Elements(a) \cup Elements(b) \cup Elements(c) \cup Elements(d)
<1>0. \A s, t \in Seq(S) : s \o t \in Seq(S) /\ Elements(s \o t) = Elements(s) \cup Elements(t)
  BY TwoJoined
<1>1. a \o b \in Seq(S) /\ Elements(a \o b) = Elements(a) \cup Elements(b)
  BY TwoJoined
<1>2. (a \o b) \o c \in Seq(S) /\ Elements((a \o b) \o c) = Elements(a \o b) \cup Elements(c)
  BY ZenonT(20), <1>1, <1>0
<1>3. ((a \o b) \o c) \o d \in Seq(S) /\ Elements(((a \o b) \o c) \o d) = Elements((a \o b) \o c) \cup Elements(d)
  BY ZenonT(20), <1>2, <1>0
<1> QED BY <1>1, <1>2, <1>3

\* What a text loads, in a list.
LEMMA TemplateRefsIs ==
  ASSUME NEW text, IsText(text)
  PROVE  TemplateRefs(text) \in Seq(RefSet(text)) /\ Elements(TemplateRefs(text)) = RefSet(text)
<1> PICK S : S = RefSet(text)
  OBVIOUS
<1> PICK a, b, c, d : a = RefsOf(text, "extends") /\ b = RefsOf(text, "include") /\ c = RefsOf(text, "import")
                       /\ d = RefsOf(text, "from")
  OBVIOUS
<1>1. TemplateRefs(text) = a \o b \o c \o d
  BY DEF TemplateRefs, Each, RefsOf
<1>2. a \in Seq(S) /\ b \in Seq(S) /\ c \in Seq(S) /\ d \in Seq(S)
  BY RefsOfKind DEF LoadKinds
<1>3. /\ Elements(a) = {TemplateRef(text, i, "extends") : i \in Tags(text, {"extends"})}
      /\ Elements(b) = {TemplateRef(text, i, "include") : i \in Tags(text, {"include"})}
      /\ Elements(c) = {TemplateRef(text, i, "import") : i \in Tags(text, {"import"})}
      /\ Elements(d) = {TemplateRef(text, i, "from") : i \in Tags(text, {"from"})}
  BY RefsOfKind DEF LoadKinds
<1>5. /\ a \o b \o c \o d \in Seq(S)
      /\ Elements(a \o b \o c \o d) = Elements(a) \cup Elements(b) \cup Elements(c) \cup Elements(d)
  BY <1>2, FourJoined
<1>8. S = Elements(a) \cup Elements(b) \cup Elements(c) \cup Elements(d)
  <2>1. S = {TemplateRef(text, i, text[i].kind) : i \in Tags(text, LoadKinds)}
    BY DEF RefSet
  <2>2. \A i : i \in Tags(text, LoadKinds) <=>
          \/ i \in Tags(text, {"extends"}) \/ i \in Tags(text, {"include"})
          \/ i \in Tags(text, {"import"}) \/ i \in Tags(text, {"from"})
    BY DEF Tags, LoadKinds
  <2>3. \A kind : \A i \in Tags(text, {kind}) : text[i].kind = kind
    BY DEF Tags
  <2>4. \A x : x \in S <=> (\E i \in Tags(text, {"extends"}) : x = TemplateRef(text, i, "extends"))
                             \/ (\E i \in Tags(text, {"include"}) : x = TemplateRef(text, i, "include"))
                             \/ (\E i \in Tags(text, {"import"}) : x = TemplateRef(text, i, "import"))
                             \/ (\E i \in Tags(text, {"from"}) : x = TemplateRef(text, i, "from"))
    <3> TAKE x
    <3>1. x \in S <=> \E i \in Tags(text, LoadKinds) : x = TemplateRef(text, i, text[i].kind)
      BY <2>1
    <3> DEFINE P(kind) == \E i \in Tags(text, {kind}) : x = TemplateRef(text, i, text[i].kind)
               Q(kind) == \E i \in Tags(text, {kind}) : x = TemplateRef(text, i, kind)
    <3>2. x \in S <=> P("extends") \/ P("include") \/ P("import") \/ P("from")
      BY <2>2, <3>1
    <3>3. ASSUME NEW kind PROVE P(kind) <=> Q(kind)
      BY <2>3
    <3>4. x \in S <=> Q("extends") \/ Q("include") \/ Q("import") \/ Q("from")
      <4> HIDE DEF P, Q
      <4> QED BY <3>2, <3>3
    <3> QED BY Zenon, <3>4
  <2> QED BY Zenon, <1>3, <2>4
<1> QED BY Zenon, <1>1, <1>5, <1>8

\* A reference to a template, from its tag.
LEMMA RefIs ==
  ASSUME NEW text, IsText(text), NEW r \in RefSet(text)
  PROVE  \E i \in Tags(text, LoadKinds) :
           /\ r.kind = text[i].kind /\ r.path = text[i].target /\ r.span = Literal(i) /\ r.path \in Seq(STRING)
           /\ i \in Nat /\ r = TemplateRef(text, i, text[i].kind)
<1>1. PICK i \in Tags(text, LoadKinds) : r = TemplateRef(text, i, text[i].kind)
  BY DEF RefSet
<1>2. i \in DOMAIN text /\ Written(text[i])
  BY <1>1, TagsAreWritten DEF Tags
<1>3. i \in Nat
  BY <1>2 DEF IsText
<1>4. text[i].target \in Seq(STRING)
  BY <1>2 DEF Written
<1> QED BY <1>1, <1>3, <1>4 DEF TemplateRef

\* Two references of a text are at two places.
LEMMA RefsDiffer ==
  ASSUME NEW text, IsText(text), NEW r \in RefSet(text), NEW l \in RefSet(text), r.span = l.span
  PROVE  r = l
<1>1. PICK i \in Nat : r = TemplateRef(text, i, text[i].kind) /\ r.span = Literal(i)
  BY RefIs
<1>2. PICK h \in Nat : l = TemplateRef(text, h, text[h].kind) /\ l.span = Literal(h)
  BY RefIs
<1>3. i = h
  <2>1. Literal(i).lo = Literal(h).lo
    BY <1>1, <1>2
  <2> QED BY <2>1 DEF Literal, Span, TagStart, Width
<1> QED BY <1>1, <1>2, <1>3

\* The references that load, in a list.
LEMMA LoadedByIs ==
  ASSUME NEW text, IsText(text), NEW facts, facts.templateRefs = TemplateRefs(text)
  PROVE  LoadedBy(facts) \in Seq(RefSet(text)) /\ Elements(LoadedBy(facts)) = {r \in RefSet(text) : Loads(r)}
<1> PICK S : S = RefSet(text)
  OBVIOUS
<1> PICK list : list = TemplateRefs(text)
  OBVIOUS
<1>1. list \in Seq(S) /\ Elements(list) = S
  BY TemplateRefsIs
<1> DEFINE seqs == [i \in DOMAIN list |-> IF Loads(list[i]) THEN <<list[i]>> ELSE <<>>]
           found == LoadedBy(facts)
<1>2. found = FlattenSeq(seqs)
  BY Zenon DEF LoadedBy, Satisfying
<1>3. ASSUME NEW i \in DOMAIN list
      PROVE  seqs[i] \in Seq(S) /\ ToSet(seqs[i]) = {r \in {list[i]} : Loads(r)}
  <2>1. list[i] \in S
    BY <1>1
  <2> PICK x : x = list[i]
    OBVIOUS
  <2>2. <<x>> \in Seq(S) /\ <<>> \in Seq(S) /\ ToSet(<<x>>) = {x} /\ ToSet(<<>>) = {}
    BY <2>1 DEF ToSet
  <2>3. seqs[i] = IF Loads(x) THEN <<x>> ELSE <<>>
    OBVIOUS
  <2> HIDE DEF seqs
  <2>4. CASE Loads(x)
    BY <2>2, <2>3, <2>4
  <2>5. CASE ~Loads(x)
    BY <2>2, <2>3, <2>5
  <2> QED BY <2>4, <2>5
<1>4. seqs \in Seq(Seq(S)) /\ DOMAIN seqs = DOMAIN list
  <2>1. PICK n \in Nat : DOMAIN list = 1 .. n
    BY <1>1
  <2>2. seqs = [i \in 1 .. n |-> seqs[i]]
    BY <2>1
  <2> HIDE DEF seqs
  <2> QED BY <1>3, <2>1, <2>2
<1> HIDE DEF seqs
<1>5. found \in Seq(S)
  BY <1>2, <1>4, FlattenSeqType
<1>6. ToSet(found) = UNION {ToSet(seqs[i]) : i \in DOMAIN seqs}
  BY <1>2, <1>4, FlattenSeqElements
<1>7. \A s : Elements(s) = ToSet(s)
  BY DEF Elements, ToSet
<1>8. Elements(found) = {r \in Elements(list) : Loads(r)}
  <2>1. ASSUME NEW r PROVE r \in ToSet(found) <=> r \in Elements(list) /\ Loads(r)
    BY <1>3, <1>4, <1>6 DEF Elements
  <2> QED BY <1>7, <2>1
<1> QED BY <1>1, <1>5, <1>8

\* How many templates are left.
Left(V) == Cardinality(Templates \ V)

\* There are finitely many templates.
LEMMA TemplatesAreFinite == IsFiniteSet(Templates)
<1>1. PICK n \in Nat : DOMAIN Keys = 1 .. n
  BY KeysAssumption
<1> DEFINE f == [i \in 1 .. n |-> Keys[i]]
<1>2. f \in Surjection(1 .. n, Templates)
  BY <1>1 DEF Surjection, Templates, Elements
<1>3. 1 \in Int /\ n \in Int
  OBVIOUS
<1>4. IsFiniteSet(1 .. n)
  BY <1>3, FS_Interval
<1> HIDE DEF f
<1> QED BY <1>2, <1>4, FS_Surjection

\* With every template that is new there is one less.
LEMMA LeftShrinks ==
  /\ Cardinality(Templates) \in Nat
  /\ \A V : Left(V) \in 0 .. Cardinality(Templates)
  /\ \A V, W : \A k \in Templates : k \notin V /\ V \cup {k} \subseteq W => Left(W) < Left(V)
<1>1. Cardinality(Templates) \in Nat
  BY TemplatesAreFinite, FS_CardinalityType
<1>2. ASSUME NEW V
      PROVE  /\ IsFiniteSet(Templates \ V) /\ Left(V) \in Nat /\ Left(V) <= Cardinality(Templates)
  <2>1. Templates \ V \in SUBSET Templates
    OBVIOUS
  <2>2. IsFiniteSet(Templates \ V) /\ Cardinality(Templates \ V) <= Cardinality(Templates)
    BY <2>1, TemplatesAreFinite, FS_Subset
  <2>3. Cardinality(Templates \ V) \in Nat
    BY <2>2, FS_CardinalityType
  <2> QED BY <2>2, <2>3 DEF Left
<1>3. ASSUME NEW V, NEW W, NEW k \in Templates, k \notin V, V \cup {k} \subseteq W PROVE Left(W) < Left(V)
  <2>1. PICK S, T : S = Templates \ V /\ T = Templates \ W
    OBVIOUS
  <2>2. T \in SUBSET S /\ T # S
    BY <1>3, <2>1
  <2>3. IsFiniteSet(S)
    BY <1>2, <2>1
  <2>4. Cardinality(T) <= Cardinality(S) /\ Cardinality(T) # Cardinality(S)
    BY <2>2, <2>3, FS_Subset
  <2>5. Left(W) <= Left(V) /\ Left(W) # Left(V)
    BY <2>1, <2>4 DEF Left
  <2>6. Left(W) \in Nat /\ Left(V) \in Nat
    BY <1>2
  <2> PICK w, v : w = Left(W) /\ v = Left(V)
    OBVIOUS
  <2>7. w < v
    BY <2>5, <2>6
  <2> QED BY <2>7
<1>4. ASSUME NEW V PROVE Left(V) \in 0 .. Cardinality(Templates)
  <2>1. Left(V) \in Nat /\ Left(V) <= Cardinality(Templates)
    BY <1>2
  <2> PICK v, n : v = Left(V) /\ n = Cardinality(Templates)
    OBVIOUS
  <2>2. v \in 0 .. n
    BY <1>1, <2>1
  <2> QED BY <2>2
<1> QED BY <1>1, <1>3, <1>4

\* What a walk may answer: whether it met the target, and what it has visited, which is no less than before.
Replies == [found : BOOLEAN, visited : SUBSET Templates]
Walks ==
  {f \in [SUBSET Templates -> [Seq(STRING) -> Replies]] :
     \A V \in SUBSET Templates : \A p \in Seq(STRING) : V \subseteq f[V][p].visited}

\* The walk over the references of a template, one after the other.
WalkedOver(f, refs, start) ==
  LET next[i \in 0 .. Len(refs)] ==
        IF i = 0 THEN start
        ELSE IF next[i - 1].found THEN next[i - 1]
        ELSE f[next[i - 1].visited][refs[i].path]
  IN  next[Len(refs)]
WalkSteps(f, refs, start, n, next) ==
  /\ next[0] = start /\ WalkedOver(f, refs, start) = next[n]
  /\ \A i \in 1 .. n : next[i] = IF next[i - 1].found THEN next[i - 1] ELSE f[next[i - 1].visited][refs[i].path]
  /\ \A i \in 0 .. n : next[i] \in Replies
  /\ \A i \in 1 .. n : next[i - 1].visited \subseteq next[i].visited
  /\ \A i \in 0 .. n : start.visited \subseteq next[i].visited

\* It goes from one reference to the next.
LEMMA WalkHasSteps ==
  ASSUME NEW f \in Walks, NEW refs, NEW n \in Nat, Len(refs) = n, \A i \in 1 .. n : refs[i].path \in Seq(STRING),
         NEW start \in Replies
  PROVE  \E next : WalkSteps(f, refs, start, n, next)
<1> DEFINE After(b, i) == IF b.found THEN b ELSE f[b.visited][refs[i].path]
           Pass(g, i) == IF i = 0 THEN start
                         ELSE IF g[i - 1].found THEN g[i - 1] ELSE f[g[i - 1].visited][refs[i].path]
           Rec(g) == g = [i \in 0 .. n |-> Pass(g, i)]
           next == CHOOSE g : Rec(g)
<1>1. WalkedOver(f, refs, start) = next[n]
  BY Zenon DEF WalkedOver
<1>2. \A i \in 1 .. n : \A b \in Replies : After(b, i) \in Replies /\ b.visited \subseteq After(b, i).visited
  <2> TAKE i \in 1 .. n
  <2> TAKE b \in Replies
  <2>1. b.visited \in SUBSET Templates /\ refs[i].path \in Seq(STRING)
    BY DEF Replies
  <2> PICK V, p : V = b.visited /\ p = refs[i].path
    OBVIOUS
  <2>2. f \in [SUBSET Templates -> [Seq(STRING) -> Replies]]
    BY DEF Walks
  <2>3. f[V] \in [Seq(STRING) -> Replies]
    BY <2>1, <2>2
  <2>4. f[V][p] \in Replies
    BY <2>1, <2>3
  <2>5. V \subseteq f[V][p].visited
    BY <2>1 DEF Walks
  <2> QED BY <2>4, <2>5
<1>3. \E g : Rec(g)
  <2> DEFINE step == [i \in 1 .. n |-> [b \in Replies |-> After(b, i)]]
  <2>1. step \in [1 .. n -> [Replies -> Replies]]
    <3> HIDE DEF After
    <3> QED BY <1>2
  <2>2. PICK h \in [0 .. n -> Replies] : Steps(h, n, start, step)
    <3> HIDE DEF step
    <3> QED BY <2>1, Recursion
  <2>3. ASSUME NEW i \in 0 .. n PROVE h[i] = Pass(h, i)
    <3>1. i # 0 => i \in 1 .. n /\ i - 1 \in 0 .. n
      OBVIOUS
    <3>2. i # 0 => h[i - 1] \in Replies
      BY <3>1
    <3>3. i = 0 => h[i] = start
      BY <2>2 DEF Steps
    <3>4. i # 0 => h[i] = After(h[i - 1], i)
      <4>1. i # 0 => h[i] = step[i][h[i - 1]]
        BY <2>2, <3>1 DEF Steps
      <4> HIDE DEF After
      <4> QED BY <3>1, <3>2, <4>1
    <3> QED BY <3>3, <3>4
  <2> HIDE DEF Pass
  <2>4. h = [i \in 0 .. n |-> Pass(h, i)]
    BY <2>3
  <2> QED BY <2>4
<1>4. Rec(next)
  <2> HIDE DEF Rec
  <2> QED BY <1>3
<1> HIDE DEF next
<1>5. ASSUME NEW i \in 0 .. n PROVE next[i] = Pass(next, i)
  <2> HIDE DEF Pass
  <2> QED BY <1>4
<1>6. next[0] = start /\ \A i \in 1 .. n : next[i] = After(next[i - 1], i)
  <2>1. 0 \in 0 .. n /\ \A i \in 1 .. n : i \in 0 .. n /\ i # 0
    OBVIOUS
  <2> QED BY <1>5, <2>1
<1> DEFINE M == {m \in Nat : m <= n => next[m] \in Replies /\ start.visited \subseteq next[m].visited}
<1>7. 0 \in M
  BY <1>6
<1>8. ASSUME NEW m \in Nat, m \in M PROVE m + 1 \in M
  <2> SUFFICES ASSUME m + 1 <= n PROVE next[m + 1] \in Replies /\ start.visited \subseteq next[m + 1].visited
    OBVIOUS
  <2>1. m + 1 \in 1 .. n /\ (m + 1) - 1 = m /\ m <= n
    OBVIOUS
  <2>2. next[m + 1] = After(next[m], m + 1) /\ next[m] \in Replies /\ start.visited \subseteq next[m].visited
    BY <1>6, <1>8, <2>1
  <2> HIDE DEF After
  <2> QED BY <1>2, <2>1, <2>2
<1>9. Nat \subseteq M
  <2> HIDE DEF M
  <2> QED BY <1>7, <1>8, Induction
<1>10. \A i \in 0 .. n : next[i] \in Replies /\ start.visited \subseteq next[i].visited
  BY <1>9
<1>11. \A i \in 1 .. n : next[i - 1].visited \subseteq next[i].visited
  <2> TAKE i \in 1 .. n
  <2>1. i - 1 \in 0 .. n
    OBVIOUS
  <2> HIDE DEF After, M
  <2> QED BY <1>2, <1>6, <1>10, <2>1
<1> HIDE DEF M
<1> QED BY <1>1, <1>6, <1>10, <1>11 DEF WalkSteps

\* What agrees with a walk where more has been visited agrees with it on the references.
LEMMA WalksAgreeOver ==
  ASSUME NEW f, NEW g \in Walks, NEW refs, NEW n \in Nat, Len(refs) = n,
         \A i \in 1 .. n : refs[i].path \in Seq(STRING), NEW start \in Replies,
         \A V \in SUBSET Templates : start.visited \subseteq V => f[V] = g[V]
  PROVE  WalkedOver(f, refs, start) = WalkedOver(g, refs, start)
<1> DEFINE Pass(h, i) == IF i = 0 THEN start
                         ELSE IF h[i - 1].found THEN h[i - 1] ELSE f[h[i - 1].visited][refs[i].path]
           Rec(h) == h = [i \in 0 .. n |-> Pass(h, i)]
           a == CHOOSE h : Rec(h)
<1>1. WalkedOver(f, refs, start) = a[n]
  BY Zenon DEF WalkedOver
<1>2. PICK b : WalkSteps(g, refs, start, n, b)
  BY WalkHasSteps
<1>3. ASSUME NEW i \in 1 .. n
      PROVE  b[i] = IF b[i - 1].found THEN b[i - 1] ELSE f[b[i - 1].visited][refs[i].path]
  <2>1. i - 1 \in 0 .. n
    OBVIOUS
  <2>2. b[i - 1] \in Replies /\ start.visited \subseteq b[i - 1].visited
    BY <1>2, <2>1 DEF WalkSteps
  <2>3. f[b[i - 1].visited] = g[b[i - 1].visited]
    BY <2>2 DEF Replies
  <2>4. b[i] = IF b[i - 1].found THEN b[i - 1] ELSE g[b[i - 1].visited][refs[i].path]
    BY <1>2 DEF WalkSteps
  <2> QED BY <2>3, <2>4
<1>4. b[0] = start
  BY <1>2 DEF WalkSteps
<1>5. \E h : Rec(h)
  <2> DEFINE h == [i \in 0 .. n |-> b[i]]
  <2>1. ASSUME NEW i \in 0 .. n PROVE h[i] = Pass(h, i)
    <3>1. CASE i = 0
      BY <1>4, <3>1
    <3>2. CASE i # 0
      <4>1. i \in 1 .. n /\ i - 1 \in 0 .. n
        BY <3>2
      <4>2. h[i] = b[i] /\ h[i - 1] = b[i - 1]
        BY <4>1
      <4> HIDE DEF h
      <4> QED BY <1>3, <3>2, <4>1, <4>2
    <3> QED BY <3>1, <3>2
  <2>2. h = [i \in 0 .. n |-> h[i]]
    OBVIOUS
  <2> HIDE DEF h, Pass
  <2>3. h = [i \in 0 .. n |-> Pass(h, i)]
    BY <2>1, <2>2
  <2> QED BY <2>3
<1>6. Rec(a)
  <2> HIDE DEF Rec
  <2> QED BY <1>5
<1> HIDE DEF a
<1>7. ASSUME NEW i \in 0 .. n PROVE a[i] = Pass(a, i)
  <2> HIDE DEF Pass
  <2> QED BY <1>6
<1> DEFINE M == {m \in Nat : m <= n => a[m] = b[m]}
<1>8. 0 \in M
  <2>1. a[0] = Pass(a, 0)
    <3> HIDE DEF Pass
    <3> QED BY <1>7
  <2> QED BY <1>4, <2>1
<1>9. ASSUME NEW m \in Nat, m \in M PROVE m + 1 \in M
  <2> SUFFICES ASSUME m + 1 <= n PROVE a[m + 1] = b[m + 1]
    OBVIOUS
  <2>1. m + 1 \in 1 .. n /\ m + 1 \in 0 .. n /\ (m + 1) - 1 = m /\ m + 1 # 0
    OBVIOUS
  <2>2. a[m] = b[m]
    BY <1>9, <2>1
  <2>3. a[m + 1] = Pass(a, m + 1)
    <3> HIDE DEF Pass
    <3> QED BY <1>7, <2>1
  <2>4. a[m + 1] = IF a[m].found THEN a[m] ELSE f[a[m].visited][refs[m + 1].path]
    BY <2>1, <2>3
  <2>5. b[m + 1] = IF b[m].found THEN b[m] ELSE f[b[m].visited][refs[m + 1].path]
    BY <1>3, <2>1
  <2> HIDE DEF Pass, M
  <2> QED BY <2>2, <2>4, <2>5
<1>10. Nat \subseteq M
  <2> HIDE DEF M
  <2> QED BY <1>8, <1>9, Induction
<1>11. a[n] = b[n]
  BY <1>10
<1>12. WalkedOver(g, refs, start) = b[n]
  BY <1>2 DEF WalkSteps
<1> QED BY <1>1, <1>11, <1>12

\* Every list of references is a list of names, in templates that have been indexed.
LoadsNames(templates) ==
  /\ DOMAIN templates = Templates
  /\ \A k \in Templates : \E n \in Nat : \E list :
       /\ list = LoadedBy(templates[k]) /\ Len(list) = n /\ DOMAIN list = 1 .. n
       /\ \A i \in 1 .. n : list[i].path \in Seq(STRING)

\* A step of the walk of E404, as ImportChainContains has it.
Visited(templates, target, visit, visited, path) ==
  LET resolved == ResolveKey(templates, path)
      k == Only(resolved)
      refs == LoadedBy(templates[k])
      next[i \in 0 .. Len(refs)] ==
        IF i = 0 THEN [found |-> FALSE, visited |-> visited \cup {k}]
        ELSE IF next[i - 1].found THEN next[i - 1]
        ELSE visit[next[i - 1].visited][refs[i].path]
  IN  IF resolved = {} THEN [found |-> FALSE, visited |-> visited]
      ELSE IF k = target THEN [found |-> TRUE, visited |-> visited]
      ELSE IF k \in visited THEN [found |-> FALSE, visited |-> visited]
      ELSE next[Len(refs)]
AllVisited(templates, target, visit) ==
  [visited \in SUBSET DOMAIN templates |-> [path \in Seq(STRING) |-> Visited(templates, target, visit, visited, path)]]
Visit(templates, target) == CHOOSE visit : visit = AllVisited(templates, target, visit)

\* The check asks the walk.
LEMMA ContainsIsVisit ==
  \A templates, current, target, seen :
    ImportChainContains(templates, current, target, seen) = Visit(templates, target)[seen][current].found
BY Zenon DEF ImportChainContains, Visit, AllVisited, Visited

\* A step goes over the references of the template.
LEMMA VisitedIs ==
  ASSUME NEW templates, NEW target, NEW f, NEW V, NEW p, NEW k, k = Only(ResolveKey(templates, p))
  PROVE  Visited(templates, target, f, V, p) =
           IF ResolveKey(templates, p) = {} THEN [found |-> FALSE, visited |-> V]
           ELSE IF k = target THEN [found |-> TRUE, visited |-> V]
           ELSE IF k \in V THEN [found |-> FALSE, visited |-> V]
           ELSE WalkedOver(f, LoadedBy(templates[k]), [found |-> FALSE, visited |-> V \cup {k}])
<1>1. Visited(templates, target, f, V, p) =
        IF ResolveKey(templates, p) = {} THEN [found |-> FALSE, visited |-> V]
        ELSE IF Only(ResolveKey(templates, p)) = target THEN [found |-> TRUE, visited |-> V]
        ELSE IF Only(ResolveKey(templates, p)) \in V THEN [found |-> FALSE, visited |-> V]
        ELSE WalkedOver(f, LoadedBy(templates[Only(ResolveKey(templates, p))]),
                        [found |-> FALSE, visited |-> V \cup {Only(ResolveKey(templates, p))}])
  BY Zenon DEF Visited, WalkedOver
<1> QED BY <1>1

\* A name that resolves resolves to one template.
LEMMA ResolvesToOne ==
  ASSUME NEW templates, DOMAIN templates = Templates, NEW p, ResolveKey(templates, p) # {}, NEW k, k = Only(ResolveKey(templates, p))
  PROVE  ResolveKey(templates, p) = {k} /\ k \in Templates
<1>1. AtMostOne(ResolveKey(templates, p)) /\ ResolveKey(templates, p) \subseteq Templates
  BY ResolvedKeyIsOne
<1> PICK R : R = ResolveKey(templates, p)
  OBVIOUS
<1>2. PICK x : x \in R
  OBVIOUS
<1>3. R = {x}
  BY <1>1, <1>2 DEF AtMostOne
<1>4. k = x
  BY <1>3 DEF Only
<1> QED BY <1>1, <1>3, <1>4

\* A step answers, and forgets nothing.
LEMMA StepAnswers ==
  ASSUME NEW templates, LoadsNames(templates), NEW target, NEW f \in Walks, NEW V \in SUBSET Templates, NEW p \in Seq(STRING),
         NEW r, r = Visited(templates, target, f, V, p)
  PROVE  r \in Replies /\ V \subseteq r.visited
<1> PICK k : k = Only(ResolveKey(templates, p))
  OBVIOUS
<1> DEFINE start == [found |-> FALSE, visited |-> V \cup {k}]
<1>1. r = IF ResolveKey(templates, p) = {} THEN [found |-> FALSE, visited |-> V]
          ELSE IF k = target THEN [found |-> TRUE, visited |-> V]
          ELSE IF k \in V THEN [found |-> FALSE, visited |-> V]
          ELSE WalkedOver(f, LoadedBy(templates[k]), start)
  BY VisitedIs
<1>2. [found |-> FALSE, visited |-> V] \in Replies /\ [found |-> TRUE, visited |-> V] \in Replies
  BY DEF Replies
<1>3. CASE ResolveKey(templates, p) = {} \/ k = target \/ k \in V
  BY <1>1, <1>2, <1>3
<1>4. CASE ~(ResolveKey(templates, p) = {} \/ k = target \/ k \in V)
  <2>1. k \in Templates
    BY <1>4, ResolvesToOne DEF LoadsNames
  <2>2. start \in Replies /\ V \subseteq start.visited
    BY <2>1 DEF Replies
  <2>3. PICK n \in Nat : \E list :
               /\ list = LoadedBy(templates[k]) /\ Len(list) = n /\ DOMAIN list = 1 .. n
               /\ \A i \in 1 .. n : list[i].path \in Seq(STRING)
    BY <2>1 DEF LoadsNames
  <2>4. PICK list : /\ list = LoadedBy(templates[k]) /\ Len(list) = n /\ DOMAIN list = 1 .. n
                    /\ \A i \in 1 .. n : list[i].path \in Seq(STRING)
    BY <2>3
  <2>5. r = WalkedOver(f, list, start)
    BY <1>1, <1>4, <2>4
  <2> HIDE DEF start
  <2>6. PICK next : WalkSteps(f, list, start, n, next)
    BY <2>2, <2>4, WalkHasSteps
  <2>7. n \in 0 .. n
    OBVIOUS
  <2>8. r = next[n] /\ next[n] \in Replies /\ start.visited \subseteq next[n].visited
    BY <2>5, <2>6, <2>7 DEF WalkSteps
  <2> QED BY <2>2, <2>8
<1> QED BY <1>3, <1>4

\* A step looks only where more has been visited.
LEMMA StepLooksFurther ==
  ASSUME NEW templates, LoadsNames(templates), NEW target, NEW f, NEW g \in Walks, NEW V \in SUBSET Templates,
         \A U \in SUBSET Templates : Left(U) < Left(V) => f[U] = g[U], NEW p \in Seq(STRING)
  PROVE  Visited(templates, target, f, V, p) = Visited(templates, target, g, V, p)
<1> PICK k : k = Only(ResolveKey(templates, p))
  OBVIOUS
<1> DEFINE start == [found |-> FALSE, visited |-> V \cup {k}]
           V0 == [found |-> FALSE, visited |-> V]
           V1 == [found |-> TRUE, visited |-> V]
<1>1. \A h : Visited(templates, target, h, V, p) =
               IF ResolveKey(templates, p) = {} THEN V0
               ELSE IF k = target THEN V1
               ELSE IF k \in V THEN V0
               ELSE WalkedOver(h, LoadedBy(templates[k]), start)
  BY VisitedIs
<1>3. CASE ResolveKey(templates, p) = {} \/ k = target \/ k \in V
  BY <1>1, <1>3
<1>4. CASE ~(ResolveKey(templates, p) = {} \/ k = target \/ k \in V)
  <2>1. k \in Templates
    BY <1>4, ResolvesToOne DEF LoadsNames
  <2>2. start \in Replies /\ start.visited = V \cup {k}
    BY <2>1 DEF Replies
  <2>3. PICK n \in Nat : \E list :
               /\ list = LoadedBy(templates[k]) /\ Len(list) = n /\ DOMAIN list = 1 .. n
               /\ \A i \in 1 .. n : list[i].path \in Seq(STRING)
    BY <2>1 DEF LoadsNames
  <2>4. PICK list : /\ list = LoadedBy(templates[k]) /\ Len(list) = n /\ DOMAIN list = 1 .. n
                    /\ \A i \in 1 .. n : list[i].path \in Seq(STRING)
    BY <2>3
  <2>5. ASSUME NEW U \in SUBSET Templates, start.visited \subseteq U PROVE f[U] = g[U]
    <3>1. V \cup {k} \subseteq U /\ k \notin V
      BY <1>4, <2>2, <2>5
    <3>2. Left(U) < Left(V)
      BY <2>1, <3>1, LeftShrinks
    <3> QED BY <3>2
  <2> HIDE DEF start
  <2>6. WalkedOver(f, list, start) = WalkedOver(g, list, start)
    BY <2>2, <2>4, <2>5, WalksAgreeOver
  <2> HIDE DEF V0, V1
  <2> QED BY <1>1, <2>4, <2>6
<1> QED BY <1>3, <1>4

\* The walk exists.
LEMMA VisitIs ==
  ASSUME NEW templates, LoadsNames(templates), NEW target, NEW f, f = Visit(templates, target)
  PROVE  /\ f \in Walks
         /\ \A V \in SUBSET Templates : \A p \in Seq(STRING) : f[V][p] = Visited(templates, target, f, V, p)
<1> DEFINE rank == [V \in SUBSET Templates |-> Left(V)]
           N == Cardinality(Templates)
           all(g) == [V \in SUBSET Templates |-> [p \in Seq(STRING) |-> Visited(templates, target, g, V, p)]]
           F == [g \in Walks |-> all(g)]
<1>1. N \in Nat /\ rank \in [SUBSET Templates -> 0 .. N] /\ \A V \in SUBSET Templates : rank[V] = Left(V)
  <2>1. N \in Nat /\ \A V : Left(V) \in 0 .. N
    BY LeftShrinks
  <2> HIDE DEF N
  <2> QED BY <2>1
<1>2. Walks # {}
  <2> DEFINE g == [V \in SUBSET Templates |-> [p \in Seq(STRING) |-> [found |-> FALSE, visited |-> V]]]
  <2>1. \A V \in SUBSET Templates : [found |-> FALSE, visited |-> V] \in Replies
    BY DEF Replies
  <2>2. g \in [SUBSET Templates -> [Seq(STRING) -> Replies]]
    BY <2>1
  <2>3. \A V \in SUBSET Templates : \A p \in Seq(STRING) : V \subseteq g[V][p].visited
    OBVIOUS
  <2> HIDE DEF g
  <2>4. g \in Walks
    BY <2>2, <2>3 DEF Walks
  <2> QED BY <2>4
<1>3. ASSUME NEW g \in Walks PROVE all(g) \in Walks
  <2>1. ASSUME NEW V \in SUBSET Templates, NEW p \in Seq(STRING)
        PROVE  Visited(templates, target, g, V, p) \in Replies /\ V \subseteq Visited(templates, target, g, V, p).visited
    BY StepAnswers
  <2>2. all(g) \in [SUBSET Templates -> [Seq(STRING) -> Replies]]
    BY <2>1
  <2>3. ASSUME NEW V \in SUBSET Templates, NEW p \in Seq(STRING)
        PROVE  V \subseteq all(g)[V][p].visited
    BY <2>1
  <2> HIDE DEF all
  <2> QED BY <2>2, <2>3 DEF Walks
<1>4. F \in [Walks -> Walks]
  <2> HIDE DEF all
  <2> QED BY <1>3
<1>5. \A g \in Walks : DOMAIN g = SUBSET Templates /\ g = [V \in SUBSET Templates |-> g[V]]
  BY DEF Walks
<1>6. ASSUME NEW g \in Walks, NEW h \in Walks, NEW V \in SUBSET Templates,
             \A U \in SUBSET Templates : rank[U] < rank[V] => g[U] = h[U]
      PROVE  F[g][V] = F[h][V]
  <2>1. \A U \in SUBSET Templates : Left(U) < Left(V) => g[U] = h[U]
    BY <1>1, <1>6
  <2>2. \A p \in Seq(STRING) : Visited(templates, target, g, V, p) = Visited(templates, target, h, V, p)
    BY <2>1, StepLooksFurther
  <2>3. all(g)[V] = all(h)[V]
    BY <2>2
  <2> HIDE DEF all
  <2> QED BY <2>3
<1>7. \A g, h \in Walks : \A V \in SUBSET Templates :
        (\A U \in SUBSET Templates : rank[U] < rank[V] => g[U] = h[U]) => F[g][V] = F[h][V]
  <2> HIDE DEF rank, N, F
  <2> QED BY <1>6
<1>8. PICK g \in Walks : F[g] = g
  <2> PICK D, n, W, rk, G : D = SUBSET Templates /\ n = N /\ W = Walks /\ rk = rank /\ G = F
    OBVIOUS
  <2> HIDE DEF rank, N, F
  <2>1. n \in Nat /\ rk \in [D -> 0 .. n] /\ W # {} /\ G \in [W -> W]
    BY <1>1, <1>2, <1>4
  <2>2. \A h \in W : DOMAIN h = D /\ h = [x \in D |-> h[x]]
    BY <1>5
  <2>3. \A g, h \in W : \A x \in D : (\A y \in D : rk[y] < rk[x] => g[y] = h[y]) => G[g][x] = G[h][x]
    BY <1>7
  <2>4. Contracts(D, rk, W, G)
    BY <2>2, <2>3 DEF Contracts
  <2>5. \E g \in W : G[g] = g
    BY <2>1, <2>4, Fixpoint
  <2> QED BY <2>5
<1>9. g = all(g)
  <2> HIDE DEF all
  <2> QED BY <1>8
<1>10. f = all(f)
  <2> DEFINE P(h) == h = AllVisited(templates, target, h)
  <2>1. \A h : AllVisited(templates, target, h) = all(h)
    BY DEF AllVisited, LoadsNames
  <2>2. f = CHOOSE h : P(h)
    BY Zenon DEF Visit
  <2>3. P(g)
    <3> HIDE DEF all
    <3> QED BY <1>9, <2>1
  <2>4. P(f)
    <3> HIDE DEF P, all
    <3> QED BY <2>2, <2>3
  <2> HIDE DEF all
  <2> QED BY <2>1, <2>4
<1>11. ASSUME NEW h, h = all(h), NEW V \in SUBSET Templates
       PROVE  /\ h[V] = [p \in Seq(STRING) |-> h[V][p]]
              /\ \A p \in Seq(STRING) : h[V][p] = Visited(templates, target, h, V, p)
  BY <1>11
<1> DEFINE M == {m \in Nat : \A V \in SUBSET Templates : Left(V) < m => f[V] = g[V]}
<1>12. \A V : Left(V) \in Nat
  BY <1>1, LeftShrinks
<1>13. 0 \in M
  BY <1>12
<1>14. ASSUME NEW m \in Nat, m \in M PROVE m + 1 \in M
  <2> SUFFICES ASSUME NEW V \in SUBSET Templates, Left(V) < m + 1 PROVE f[V] = g[V]
    OBVIOUS
  <2>1. ASSUME NEW U \in SUBSET Templates, Left(U) < Left(V) PROVE f[U] = g[U]
    <3>1. Left(U) < m
      <4> PICK u, v : u = Left(U) /\ v = Left(V)
        OBVIOUS
      <4>1. u \in Nat /\ v \in Nat /\ u < v /\ v < m + 1
        BY <1>12, <2>1
      <4>2. u < m
        BY <4>1
      <4> QED BY <4>2
    <3> QED BY <1>14, <3>1
  <2> HIDE DEF all
  <2>2. \A p \in Seq(STRING) : Visited(templates, target, f, V, p) = Visited(templates, target, g, V, p)
    BY <2>1, StepLooksFurther
  <2>3. f[V] = [p \in Seq(STRING) |-> f[V][p]] /\ g[V] = [p \in Seq(STRING) |-> g[V][p]]
    BY <1>9, <1>10, <1>11
  <2>4. ASSUME NEW p \in Seq(STRING) PROVE f[V][p] = g[V][p]
    <3>1. f[V][p] = Visited(templates, target, f, V, p)
      BY <1>10, <1>11
    <3>2. g[V][p] = Visited(templates, target, g, V, p)
      BY <1>9, <1>11
    <3> QED BY <2>2, <3>1, <3>2
  <2> QED BY <2>3, <2>4
<1>15. Nat \subseteq M
  <2> HIDE DEF M
  <2> QED BY <1>13, <1>14, Induction
<1>16. \A V \in SUBSET Templates : f[V] = g[V]
  <2> TAKE V \in SUBSET Templates
  <2> PICK v : v = Left(V)
    OBVIOUS
  <2>1. v \in Nat /\ v + 1 \in Nat /\ v < v + 1
    BY <1>12
  <2>2. v + 1 \in M
    <3> HIDE DEF M
    <3> QED BY <1>15, <2>1
  <2> QED BY <2>1, <2>2
<1>17. f = g
  <2>1. f = [V \in SUBSET Templates |-> f[V]] /\ g = [V \in SUBSET Templates |-> g[V]]
    <3>1. ASSUME NEW h, h = all(h) PROVE h = [V \in SUBSET Templates |-> h[V]]
      BY <3>1
    <3> HIDE DEF all
    <3> QED BY <1>9, <1>10, <3>1
  <2> HIDE DEF all
  <2> QED BY <1>16, <2>1
<1>18. ASSUME NEW V \in SUBSET Templates, NEW p \in Seq(STRING) PROVE f[V][p] = Visited(templates, target, f, V, p)
  <2> HIDE DEF all
  <2> QED BY <1>10, <1>11
<1> QED BY <1>17, <1>18

\* What each template loads.
LoadsIn(templates) ==
  [k \in Templates |-> UNION {ResolveKey(templates, r.path) : r \in Elements(LoadedBy(templates[k]))}]

\* An answer is right: the target is reached, or what was visited on the way leads to nothing else and not to it.
Leads(next, from, target) == \E q \in from : Reaches(next, q, target)
Right(next, target, from, V, r) ==
  IF r.found THEN Leads(next, from, target)
  ELSE /\ from \subseteq r.visited /\ target \notin from
       /\ \A x \in r.visited \ V : next[x] \subseteq r.visited /\ target \notin next[x]

\* What a template loads leads where the template leads.
LEMMA LoadedLeads ==
  ASSUME NEW next, NEW k \in Templates, NEW q, q \in next[k], NEW target, Reaches(next, q, target)
  PROVE  Reaches(next, k, target)
BY DEF Reaches

\* The references of a template are what it loads.
LEMMA LoadsAre ==
  ASSUME NEW templates, NEW k \in Templates, NEW n \in Nat, NEW list, list = LoadedBy(templates[k]), DOMAIN list = 1 .. n
  PROVE  \A q : q \in LoadsIn(templates)[k] <=> \E i \in 1 .. n : q \in ResolveKey(templates, list[i].path)
<1>1. LoadsIn(templates)[k] = UNION {ResolveKey(templates, r.path) : r \in Elements(list)}
  BY DEF LoadsIn
<1>2. \A r : r \in Elements(list) <=> \E i \in 1 .. n : r = list[i]
  BY DEF Elements
<1> QED BY <1>1, <1>2

\* The walk over the references of a template is right if the walk is right where more has been visited.
LEMMA WalkIsRight ==
  ASSUME NEW templates, LoadsNames(templates), NEW target, NEW f \in Walks, NEW V \in SUBSET Templates,
         NEW k \in Templates, k \notin V, NEW next, next = LoadsIn(templates),
         \A U \in SUBSET Templates : Left(U) < Left(V) =>
           \A p \in Seq(STRING) : Right(next, target, ResolveKey(templates, p), U, f[U][p]),
         NEW r, r = WalkedOver(f, LoadedBy(templates[k]), [found |-> FALSE, visited |-> V \cup {k}])
  PROVE  Right(next, target, {k}, V, r) \/ k = target
<1>1. PICK n \in Nat : \E list :
             /\ list = LoadedBy(templates[k]) /\ Len(list) = n /\ DOMAIN list = 1 .. n
             /\ \A i \in 1 .. n : list[i].path \in Seq(STRING)
  BY DEF LoadsNames
<1>2. PICK list : /\ list = LoadedBy(templates[k]) /\ Len(list) = n /\ DOMAIN list = 1 .. n
                  /\ \A i \in 1 .. n : list[i].path \in Seq(STRING)
  BY <1>1
<1>3. PICK start : start = [found |-> FALSE, visited |-> V \cup {k}]
  OBVIOUS
<1>4. start \in Replies /\ ~start.found /\ start.visited = V \cup {k}
  BY <1>3 DEF Replies
<1>5. r = WalkedOver(f, list, start)
  BY <1>2, <1>3
<1>6. PICK a : WalkSteps(f, list, start, n, a)
  BY <1>2, <1>4, WalkHasSteps
<1> DEFINE res(i) == ResolveKey(templates, list[i].path)
           Done(m) == IF a[m].found THEN \E i \in 1 .. m : Leads(next, res(i), target)
                      ELSE /\ \A i \in 1 .. m : res(i) \subseteq a[m].visited /\ target \notin res(i)
                           /\ \A x \in a[m].visited \ (V \cup {k}) : next[x] \subseteq a[m].visited /\ target \notin next[x]
           M == {m \in Nat : m <= n => Done(m)}
<1>7. 0 \in M
  <2>1. a[0] = start
    BY <1>6 DEF WalkSteps
  <2> QED BY <1>4, <2>1
<1>8. ASSUME NEW m \in Nat, m \in M PROVE m + 1 \in M
  <2> SUFFICES ASSUME m + 1 <= n PROVE Done(m + 1)
    OBVIOUS
  <2>1. m + 1 \in 1 .. n /\ (m + 1) - 1 = m /\ m \in 0 .. n
    OBVIOUS
  <2>2. Done(m)
    <3> HIDE DEF Done
    <3> QED BY <1>8, <2>1
  <2> PICK b, c : b = a[m] /\ c = a[m + 1]
    OBVIOUS
  <2>3. c = IF b.found THEN b ELSE f[b.visited][list[m + 1].path]
    BY <1>6, <2>1 DEF WalkSteps
  <2>4. b \in Replies /\ V \cup {k} \subseteq b.visited /\ b.visited \subseteq c.visited
    BY <1>4, <1>6, <2>1 DEF WalkSteps
  <2>5. \A i : i \in 1 .. m + 1 <=> i \in 1 .. m \/ i = m + 1
    OBVIOUS
  <2>6. CASE b.found
    <3>1. c.found /\ \E i \in 1 .. m : Leads(next, res(i), target)
      BY <2>2, <2>3, <2>6
    <3> QED BY <2>5, <3>1
  <2>7. CASE ~b.found
    <3> PICK U, p : U = b.visited /\ p = list[m + 1].path
      OBVIOUS
    <3>1. U \in SUBSET Templates /\ Left(U) < Left(V) /\ p \in Seq(STRING)
      BY <1>2, <2>1, <2>4, LeftShrinks DEF Replies
    <3>2. Right(next, target, res(m + 1), U, c)
      BY <2>3, <2>7, <3>1
    <3>3. \A i \in 1 .. m : res(i) \subseteq U /\ target \notin res(i)
      BY <2>2, <2>7
    <3>4. \A x \in U \ (V \cup {k}) : next[x] \subseteq U /\ target \notin next[x]
      BY <2>2, <2>7
    <3> HIDE DEF res
    <3>5. CASE c.found
      <4>1. Leads(next, res(m + 1), target)
        BY <3>2, <3>5 DEF Right
      <4> QED BY <2>5, <3>5, <4>1
    <3>6. CASE ~c.found
      <4>1. /\ res(m + 1) \subseteq c.visited /\ target \notin res(m + 1)
            /\ \A x \in c.visited \ U : next[x] \subseteq c.visited /\ target \notin next[x]
        BY <3>2, <3>6 DEF Right
      <4>2. \A i \in 1 .. m + 1 : res(i) \subseteq c.visited /\ target \notin res(i)
        BY <2>4, <2>5, <3>3, <4>1
      <4>3. \A x \in c.visited \ (V \cup {k}) : next[x] \subseteq c.visited /\ target \notin next[x]
        BY <2>4, <3>4, <4>1
      <4> QED BY <3>6, <4>2, <4>3
    <3> QED BY <3>5, <3>6
  <2> QED BY <2>6, <2>7
<1>9. Nat \subseteq M
  <2> HIDE DEF M
  <2> QED BY <1>7, <1>8, Induction
<1>10. Done(n)
  <2> HIDE DEF Done
  <2> QED BY <1>9
<1>11. r = a[n] /\ V \cup {k} \subseteq r.visited
  <2>1. n \in 0 .. n
    OBVIOUS
  <2> QED BY <1>4, <1>5, <1>6, <2>1 DEF WalkSteps
<1>12. \A q : q \in next[k] <=> \E i \in 1 .. n : q \in res(i)
  BY <1>2, LoadsAre
<1>13. CASE r.found
  <2>1. PICK i \in 1 .. n : Leads(next, res(i), target)
    BY <1>10, <1>11, <1>13
  <2> HIDE DEF res
  <2>2. PICK q \in res(i) : Reaches(next, q, target)
    BY <2>1 DEF Leads
  <2>3. q \in next[k]
    BY <1>12
  <2>4. Leads(next, {k}, target)
    BY <2>2, <2>3, LoadedLeads DEF Leads
  <2> QED BY <1>13, <2>4 DEF Right
<1>14. CASE ~r.found /\ k # target
  <2>1. /\ \A i \in 1 .. n : res(i) \subseteq r.visited /\ target \notin res(i)
        /\ \A x \in r.visited \ (V \cup {k}) : next[x] \subseteq r.visited /\ target \notin next[x]
    BY <1>10, <1>11, <1>14
  <2> HIDE DEF res
  <2>2. next[k] \subseteq r.visited /\ target \notin next[k]
    BY <1>12, <2>1
  <2>3. \A x \in r.visited \ V : next[x] \subseteq r.visited /\ target \notin next[x]
    BY <2>1, <2>2
  <2> QED BY <1>11, <1>14, <2>3 DEF Right
<1> QED BY <1>13, <1>14

\* The walk of E404 is right.
LEMMA VisitIsRight ==
  ASSUME NEW templates, LoadsNames(templates), NEW target, NEW f, f = Visit(templates, target),
         NEW next, next = LoadsIn(templates)
  PROVE  \A V \in SUBSET Templates : \A p \in Seq(STRING) : Right(next, target, ResolveKey(templates, p), V, f[V][p])
<1> DEFINE Good(V) == \A p \in Seq(STRING) : Right(next, target, ResolveKey(templates, p), V, f[V][p])
           M == {m \in Nat : \A V \in SUBSET Templates : Left(V) < m => Good(V)}
<1>1. f \in Walks /\ \A V \in SUBSET Templates : \A p \in Seq(STRING) : f[V][p] = Visited(templates, target, f, V, p)
  BY VisitIs
<1>2. \A V : Left(V) \in Nat
  BY LeftShrinks
<1>3. 0 \in M
  BY <1>2
<1>4. ASSUME NEW V \in SUBSET Templates, \A U \in SUBSET Templates : Left(U) < Left(V) => Good(U), NEW p \in Seq(STRING)
      PROVE  Right(next, target, ResolveKey(templates, p), V, f[V][p])
  <2> PICK k, r, R : k = Only(ResolveKey(templates, p)) /\ r = f[V][p] /\ R = ResolveKey(templates, p)
    OBVIOUS
  <2> DEFINE walked == WalkedOver(f, LoadedBy(templates[k]), [found |-> FALSE, visited |-> V \cup {k}])
  <2>1. r = IF R = {} THEN [found |-> FALSE, visited |-> V]
            ELSE IF k = target THEN [found |-> TRUE, visited |-> V]
            ELSE IF k \in V THEN [found |-> FALSE, visited |-> V]
            ELSE walked
    <3>1. r = Visited(templates, target, f, V, p)
      BY <1>1
    <3> QED BY <3>1, VisitedIs
  <2>2. R # {} => R = {k} /\ k \in Templates
    BY ResolvesToOne DEF LoadsNames
  <2> SUFFICES Right(next, target, R, V, r)
    OBVIOUS
  <2> HIDE DEF walked
  <2>3. CASE R = {}
    <3>1. ~r.found /\ r.visited = V
      BY <2>1, <2>3
    <3> QED BY <2>3, <3>1 DEF Right
  <2>4. CASE R # {} /\ k = target
    <3>1. r.found
      BY <2>1, <2>4
    <3>2. Reaches(next, k, target) /\ k \in R
      BY <2>2, <2>4 DEF Reaches
    <3> QED BY <3>1, <3>2 DEF Right, Leads
  <2>5. CASE R # {} /\ k # target /\ k \in V
    <3>1. ~r.found /\ r.visited = V
      BY <2>1, <2>5
    <3> QED BY <2>2, <2>5, <3>1 DEF Right
  <2>6. CASE R # {} /\ k # target /\ k \notin V
    <3>1. r = walked
      BY <2>1, <2>6
    <3>2. \A U \in SUBSET Templates : Left(U) < Left(V) =>
            \A q \in Seq(STRING) : Right(next, target, ResolveKey(templates, q), U, f[U][q])
      BY <1>4
    <3>3. /\ k \in Templates /\ k \notin V /\ f \in Walks
          /\ r = WalkedOver(f, LoadedBy(templates[k]), [found |-> FALSE, visited |-> V \cup {k}])
      BY <1>1, <2>2, <2>6, <3>1 DEF walked
    <3>4. Right(next, target, {k}, V, r) \/ k = target
      BY <3>2, <3>3, WalkIsRight
    <3> QED BY <2>2, <2>6, <3>4
  <2> QED BY <2>3, <2>4, <2>5, <2>6
<1>5. ASSUME NEW m \in Nat, m \in M PROVE m + 1 \in M
  <2> SUFFICES ASSUME NEW V \in SUBSET Templates, Left(V) < m + 1 PROVE Good(V)
    OBVIOUS
  <2>1. ASSUME NEW U \in SUBSET Templates, Left(U) < Left(V) PROVE Good(U)
    <3>1. Left(U) < m
      <4> PICK u, v : u = Left(U) /\ v = Left(V)
        OBVIOUS
      <4>1. u \in Nat /\ v \in Nat /\ u < v /\ v < m + 1
        BY <1>2, <2>1
      <4>2. u < m
        BY <4>1
      <4> QED BY <4>2
    <3> HIDE DEF Good
    <3> QED BY <1>5, <3>1
  <2>2. \A U \in SUBSET Templates : Left(U) < Left(V) => Good(U)
    <3> HIDE DEF Good
    <3> QED BY <2>1
  <2> QED BY <1>4, <2>2
<1>6. Nat \subseteq M
  <2> HIDE DEF M
  <2> QED BY <1>3, <1>5, Induction
<1>7. ASSUME NEW V \in SUBSET Templates PROVE Good(V)
  <2> PICK v : v = Left(V)
    OBVIOUS
  <2>1. v \in Nat /\ v + 1 \in Nat /\ v < v + 1
    BY <1>2
  <2>2. v + 1 \in M
    <3> HIDE DEF M
    <3> QED BY <1>6, <2>1
  <2> HIDE DEF Good
  <2> QED BY <2>1, <2>2
<1> QED BY <1>7

\* A reference leads back to its template exactly when the walk of E404 finds it.
LEMMA ContainsReaches ==
  ASSUME NEW templates, LoadsNames(templates), NEW k \in Templates, NEW p \in Seq(STRING)
  PROVE  ImportChainContains(templates, p, k, {k})
           <=> \E q \in ResolveKey(templates, p) : Reaches(LoadsIn(templates), q, k)
<1> PICK f, next, r, R : /\ f = Visit(templates, k) /\ next = LoadsIn(templates) /\ r = f[{k}][p]
                         /\ R = ResolveKey(templates, p)
  OBVIOUS
<1>1. ImportChainContains(templates, p, k, {k}) = r.found
  BY ContainsIsVisit
<1>2. f \in Walks
  BY VisitIs
<1>3. {k} \in SUBSET Templates
  OBVIOUS
<1>4. Right(next, k, R, {k}, r)
  BY <1>3, VisitIsRight
<1>5. r \in Replies
  <2>1. f \in [SUBSET Templates -> [Seq(STRING) -> Replies]]
    BY <1>2 DEF Walks
  <2>2. f[{k}] \in [Seq(STRING) -> Replies]
    BY <1>3, <2>1
  <2> QED BY <2>2
<1>6. r.found \in BOOLEAN /\ r.visited \in SUBSET Templates
  BY <1>5 DEF Replies
<1>7. CASE r.found
  BY <1>1, <1>4, <1>7 DEF Right, Leads
<1>8. CASE ~r.found
  <2>1. /\ R \subseteq r.visited /\ k \notin R
        /\ \A x \in r.visited \ {k} : next[x] \subseteq r.visited /\ k \notin next[x]
    BY <1>4, <1>8 DEF Right
  <2>2. ASSUME NEW q \in R, Reaches(next, q, k) PROVE FALSE
    <3> PICK C : C = r.visited \ {k}
      OBVIOUS
    <3>1. C \in SUBSET Templates /\ q \in C /\ k \notin C
      BY <1>6, <2>1
    <3>2. \A x \in C : next[x] \subseteq C
      BY <2>1, ZenonT(40)
    <3> QED BY <2>2, <3>1, <3>2 DEF Reaches
  <2> QED BY <1>1, <1>8, <2>2
<1> QED BY <1>6, <1>7, <1>8

\* The index has the references of every text.
LEMMA IndexLoadsNames ==
  ASSUME IInv
  PROVE  /\ LoadsNames(index)
         /\ \A k \in Templates : /\ IsText(texts[k])
                                 /\ Elements(LoadedBy(index[k])) = {r \in RefSet(texts[k]) : Loads(r)}
<1>1. ASSUME NEW k \in Templates
      PROVE  /\ IsText(texts[k]) /\ LoadedBy(index[k]) \in Seq(RefSet(texts[k]))
             /\ Elements(LoadedBy(index[k])) = {r \in RefSet(texts[k]) : Loads(r)}
  <2>1. IsText(texts[k]) /\ index[k] = Extract(texts[k])
    BY IndexIs
  <2>2. index[k].templateRefs = TemplateRefs(texts[k])
    BY <2>1 DEF Extract
  <2> QED BY <2>1, <2>2, LoadedByIs
<1>2. DOMAIN index = Templates
  BY DEF IInv, IsProject
<1>3. ASSUME NEW k \in Templates
      PROVE  \E n \in Nat : \E list :
               /\ list = LoadedBy(index[k]) /\ Len(list) = n /\ DOMAIN list = 1 .. n
               /\ \A i \in 1 .. n : list[i].path \in Seq(STRING)
  <2> PICK list, S : list = LoadedBy(index[k]) /\ S = RefSet(texts[k])
    OBVIOUS
  <2>1. list \in Seq(S)
    BY <1>1
  <2>2. PICK n \in Nat : Len(list) = n /\ DOMAIN list = 1 .. n
    BY <2>1
  <2>3. \A i \in 1 .. n : list[i] \in S
    BY <2>1, <2>2
  <2>4. \A r \in S : r.path \in Seq(STRING)
    BY <1>1, RefIs
  <2> QED BY <2>2, <2>3, <2>4
<1> QED BY <1>1, <1>2, <1>3 DEF LoadsNames

\* E404 is reported at a reference exactly when it leads back to its template.
LEMMA ReportedAtCycle ==
  ASSUME IInv, NEW k \in Templates, NEW r \in Elements(LoadedBy(index[k]))
  PROVE  Finding("E404", r.span) \in E404(index, k) <=> \E q \in ResolveKey(index, r.path) : Reaches(LoadsOf, q, k)
<1>1. /\ LoadsNames(index) /\ IsText(texts[k])
      /\ Elements(LoadedBy(index[k])) = {l \in RefSet(texts[k]) : Loads(l)}
  BY IndexLoadsNames
<1>2. LoadsOf = LoadsIn(index)
  BY Zenon DEF LoadsOf, LoadsIn
<1>3. r \in RefSet(texts[k])
  BY <1>1
<1>4. r.path \in Seq(STRING)
  BY <1>1, <1>3, RefIs
<1>5. Finding("E404", r.span) \in E404(index, k)
        <=> \E l \in Elements(LoadedBy(index[k])) :
              /\ ImportChainContains(index, l.path, k, {k}) /\ Finding("E404", r.span) = Finding("E404", l.span)
  BY DEF E404
<1>6. ASSUME NEW l \in Elements(LoadedBy(index[k])), Finding("E404", r.span) = Finding("E404", l.span) PROVE l = r
  <2>1. Finding("E404", r.span).span = r.span /\ Finding("E404", l.span).span = l.span
    BY DEF Finding, Named
  <2>2. r.span = l.span
    BY <1>6, <2>1
  <2> QED BY <1>1, <1>3, <2>2, RefsDiffer
<1>7. Finding("E404", r.span) \in E404(index, k) <=> ImportChainContains(index, r.path, k, {k})
  BY <1>5, <1>6
<1> QED BY <1>1, <1>2, <1>4, <1>7, ContainsReaches

\* So what is reported is on a cycle, and a reference that stays in a cycle is reported.
LEMMA ProjectReportsCycles == IInv => CyclesAreReported
<1> SUFFICES ASSUME IInv PROVE CyclesAreReported
  OBVIOUS
<1> DEFINE reported(k) == {r \in Elements(LoadedBy(index[k])) : Finding("E404", r.span) \in E404(index, k)}
<1>1. ASSUME NEW k \in Templates, NEW r \in reported(k)
      PROVE  \E q \in ResolveKey(index, r.path) : Reaches(LoadsOf, q, k)
  BY <1>1, ReportedAtCycle
<1>2. ASSUME NEW cycle \in SUBSET Templates, IsCycle(cycle)
      PROVE  \E k \in cycle : \E r \in reported(k) : ResolveKey(index, r.path) \cap cycle # {}
  <2>1. PICK k \in cycle : LoadsOf[k] \cap cycle # {} /\ \A j \in cycle : Reaches(LoadsOf, j, k)
    BY <1>2 DEF IsCycle
  <2>2. PICK q \in cycle : q \in LoadsOf[k] /\ Reaches(LoadsOf, q, k)
    BY <2>1
  <2>3. PICK r \in Elements(LoadedBy(index[k])) : q \in ResolveKey(index, r.path)
    BY <2>2 DEF LoadsOf
  <2>4. r \in reported(k)
    BY <2>2, <2>3, ReportedAtCycle
  <2> QED BY <2>2, <2>3, <2>4
<1> HIDE DEF reported
<1> QED BY Zenon, <1>1, <1>2 DEF CyclesAreReported, reported

\* In every state what E404 is reported at is on a cycle, and every cycle is reported at one of its references.
THEOREM CyclesReported == Spec => []CyclesAreReported
BY AlwaysProject, ProjectReportsCycles, PTL

(***************************************************************************)
(* Inheritance: the walks up the parents.                                  *)
(***************************************************************************)
\* The parents of each template, and that it has one name for them at most.
ParentsIn(templates) == [k \in Templates |-> UNION {ResolveKey(templates, r.path) : r \in Extends(templates[k])}]
HasParents(templates) ==
  /\ DOMAIN templates = Templates
  /\ \A k \in Templates : AtMostOne(Extends(templates[k])) /\ \A r \in Extends(templates[k]) : r.path \in Seq(STRING)

\* A step of the walk of TemplateChain, as it has it.
Climbed(templates, walk, chain, path) ==
  LET next == ResolveKey(templates, path) \ Elements(chain)
      k == Only(next)
      parent == Extends(templates[k])
  IN  IF next = {} THEN chain
      ELSE IF parent = {} THEN Append(chain, k)
      ELSE walk[Append(chain, k)][Only(parent).path]
Chains == Seq(Seq(STRING))
AllClimbed(templates, walk) == [chain \in Chains |-> [path \in Seq(STRING) |-> Climbed(templates, walk, chain, path)]]
Climb(templates) == CHOOSE walk : walk = AllClimbed(templates, walk)
Climbs == [Chains -> [Seq(STRING) -> Chains]]

\* The chain of a template is the walk from nothing.
LEMMA ChainIsClimb ==
  \A templates, key : TemplateChain(templates, key) = Climb(templates)[<<>>][key]
BY Zenon DEF TemplateChain, Climb, AllClimbed, Climbed, Chains

\* Templates are names.
LEMMA TemplatesAreNames == Templates \subseteq Seq(STRING)
BY KeysAssumption DEF Templates, Elements

\* A template that is added to a chain.
LEMMA OneMore ==
  ASSUME NEW c \in Chains, NEW k \in Seq(STRING)
  PROVE  /\ Append(c, k) \in Chains /\ Elements(Append(c, k)) = Elements(c) \cup {k}
         /\ Len(Append(c, k)) = Len(c) + 1 /\ Append(c, k)[Len(c) + 1] = k /\ Len(c) \in Nat
         /\ \A i \in 1 .. Len(c) : Append(c, k)[i] = c[i]
<1> PICK d : d = Append(c, k)
  OBVIOUS
<1> PICK n \in Nat : n = Len(c) /\ DOMAIN c = 1 .. n
  BY DEF Chains
<1>1. d \in Chains
  BY DEF Chains
<1>2. Len(d) = n + 1 /\ d[n + 1] = k /\ DOMAIN d = 1 .. n + 1 /\ \A i \in 1 .. n : d[i] = c[i]
  BY DEF Chains
<1>3. \A x : (\E i \in 1 .. n + 1 : x = d[i]) <=> x = k \/ (\E i \in 1 .. n : x = c[i])
  <2>1. \A i : i \in 1 .. n + 1 <=> i = n + 1 \/ i \in 1 .. n
    OBVIOUS
  <2> QED BY <1>2, <2>1
<1>4. Elements(d) = Elements(c) \cup {k}
  <2>1. \A x : x \in Elements(d) <=> \E i \in 1 .. n + 1 : x = d[i]
    BY <1>2 DEF Elements
  <2>2. \A x : x \in Elements(c) <=> \E i \in 1 .. n : x = c[i]
    BY DEF Elements
  <2> QED BY <1>3, <2>1, <2>2
<1> QED BY <1>1, <1>2, <1>4

\* Where a step of the walk up goes.
GoesOn(templates, c, p, k, parent) ==
  /\ k \in Templates /\ k \in Seq(STRING) /\ k \notin Elements(c) /\ ResolveKey(templates, p) = {k}
  /\ parent # {} => /\ Only(parent).path \in Seq(STRING)
                    /\ ParentsIn(templates)[k] = ResolveKey(templates, Only(parent).path)
  /\ parent = {} => ParentsIn(templates)[k] = {}
  /\ Left(Elements(Append(c, k))) < Left(Elements(c))

\* It goes to the next template, from where its parent leads on.
LEMMA NextIs ==
  ASSUME NEW templates, HasParents(templates), NEW c \in Chains, NEW p \in Seq(STRING),
         ResolveKey(templates, p) \ Elements(c) # {}, NEW k, k = Only(ResolveKey(templates, p) \ Elements(c)),
         NEW parent, parent = Extends(templates[k])
  PROVE  GoesOn(templates, c, p, k, parent)
<1> PICK next : next = ResolveKey(templates, p) \ Elements(c)
  OBVIOUS
<1>1. AtMostOne(ResolveKey(templates, p)) /\ ResolveKey(templates, p) \subseteq Templates
  BY ResolvedKeyIsOne DEF HasParents
<1>2. PICK x : x \in next
  OBVIOUS
<1>3. ResolveKey(templates, p) = {x} /\ next = {x} /\ x \in Templates /\ x \notin Elements(c)
  BY <1>1, <1>2 DEF AtMostOne
<1>4. k = x
  BY <1>3 DEF Only
<1>5. k \in Seq(STRING)
  BY <1>3, <1>4, TemplatesAreNames
<1>6. AtMostOne(parent) /\ \A r \in parent : r.path \in Seq(STRING)
  BY <1>3, <1>4 DEF HasParents
<1>7. ParentsIn(templates)[k] = UNION {ResolveKey(templates, r.path) : r \in parent}
  BY <1>3, <1>4 DEF ParentsIn
<1>8. ASSUME parent # {}
      PROVE  /\ parent = {Only(parent)} /\ Only(parent).path \in Seq(STRING)
             /\ ParentsIn(templates)[k] = ResolveKey(templates, Only(parent).path)
  <2>1. PICK r : r \in parent
    BY <1>8
  <2>2. parent = {r}
    BY <1>6, <2>1 DEF AtMostOne
  <2>3. Only(parent) = r
    BY <2>2 DEF Only
  <2>4. UNION {ResolveKey(templates, l.path) : l \in {r}} = ResolveKey(templates, r.path)
    OBVIOUS
  <2> QED BY <1>6, <1>7, <2>1, <2>2, <2>3, <2>4
<1>9. Left(Elements(Append(c, k))) < Left(Elements(c))
  <2>1. Elements(Append(c, k)) = Elements(c) \cup {k}
    BY <1>5, OneMore
  <2>2. k \in Templates /\ k \notin Elements(c)
    BY <1>3, <1>4
  <2> QED BY <2>1, <2>2, LeftShrinks
<1>10. parent = {} => ParentsIn(templates)[k] = {}
  BY <1>7
<1>11. k \in Templates /\ k \notin Elements(c) /\ ResolveKey(templates, p) = {k}
  BY <1>3, <1>4
<1> QED BY <1>5, <1>8, <1>9, <1>10, <1>11 DEF GoesOn

\* A step gives a chain, and looks only where the chain is longer.
LEMMA ClimbStep ==
  ASSUME NEW templates, HasParents(templates), NEW c \in Chains, NEW g \in Climbs, NEW p \in Seq(STRING)
  PROVE  /\ Climbed(templates, g, c, p) \in Chains
         /\ \A f : (\A d \in Chains : Left(Elements(d)) < Left(Elements(c)) => f[d] = g[d])
                     => Climbed(templates, f, c, p) = Climbed(templates, g, c, p)
<1> PICK next, k : next = ResolveKey(templates, p) \ Elements(c) /\ k = Only(next)
  OBVIOUS
<1> PICK parent, d : parent = Extends(templates[k]) /\ d = Append(c, k)
  OBVIOUS
<1> PICK q : q = Only(parent).path
  OBVIOUS
<1>1. \A f : Climbed(templates, f, c, p) = IF next = {} THEN c ELSE IF parent = {} THEN d ELSE f[d][q]
  BY Zenon DEF Climbed
<1>2. next # {} => /\ d \in Chains /\ Left(Elements(d)) < Left(Elements(c))
                   /\ parent # {} => q \in Seq(STRING)
  <2> SUFFICES ASSUME next # {} PROVE d \in Chains /\ Left(Elements(d)) < Left(Elements(c)) /\ (parent # {} => q \in Seq(STRING))
    OBVIOUS
  <2>0. GoesOn(templates, c, p, k, parent)
    BY NextIs
  <2>1. k \in Seq(STRING) /\ Left(Elements(Append(c, k))) < Left(Elements(c))
    BY <2>0 DEF GoesOn
  <2>2. parent # {} => Only(parent).path \in Seq(STRING)
    BY <2>0 DEF GoesOn
  <2>3. d \in Chains
    BY <2>1, OneMore
  <2> QED BY <2>1, <2>2, <2>3
<1>3. next # {} /\ parent # {} => g[d][q] \in Chains
  BY <1>2 DEF Climbs
<1>4. Climbed(templates, g, c, p) \in Chains
  BY <1>1, <1>2, <1>3
<1>5. ASSUME NEW f, \A e \in Chains : Left(Elements(e)) < Left(Elements(c)) => f[e] = g[e]
      PROVE  Climbed(templates, f, c, p) = Climbed(templates, g, c, p)
  <2>1. next # {} => f[d] = g[d]
    BY <1>2, <1>5
  <2> QED BY <1>1, <2>1
<1> QED BY <1>4, <1>5

\* The walk up exists.
LEMMA ClimbIs ==
  ASSUME NEW templates, HasParents(templates), NEW f, f = Climb(templates)
  PROVE  /\ f \in Climbs
         /\ \A c \in Chains : \A p \in Seq(STRING) : f[c][p] = Climbed(templates, f, c, p)
<1> PICK N : N = Cardinality(Templates)
  OBVIOUS
<1> DEFINE rank == [c \in Chains |-> Left(Elements(c))]
           all(g) == [c \in Chains |-> [p \in Seq(STRING) |-> Climbed(templates, g, c, p)]]
           F == [g \in Climbs |-> all(g)]
<1>1. N \in Nat /\ rank \in [Chains -> 0 .. N] /\ \A c \in Chains : rank[c] = Left(Elements(c))
  <2>1. N \in Nat /\ \A V : Left(V) \in 0 .. N
    BY LeftShrinks
  <2> QED BY <2>1
<1>2. Climbs # {}
  <2> DEFINE g == [c \in Chains |-> [p \in Seq(STRING) |-> c]]
  <2>1. g \in Climbs
    BY DEF Climbs
  <2> QED BY <2>1
<1>3. ASSUME NEW g \in Climbs PROVE all(g) \in Climbs
  <2>1. ASSUME NEW c \in Chains, NEW p \in Seq(STRING) PROVE Climbed(templates, g, c, p) \in Chains
    BY ClimbStep
  <2> QED BY <2>1 DEF Climbs
<1>4. F \in [Climbs -> Climbs]
  <2> HIDE DEF all
  <2> QED BY <1>3
<1>5. ASSUME NEW g \in Climbs, NEW h \in Climbs, NEW c \in Chains,
             \A d \in Chains : rank[d] < rank[c] => g[d] = h[d]
      PROVE  F[g][c] = F[h][c]
  <2>1. \A d \in Chains : Left(Elements(d)) < Left(Elements(c)) => g[d] = h[d]
    BY <1>1, <1>5
  <2>2. \A p \in Seq(STRING) : Climbed(templates, g, c, p) = Climbed(templates, h, c, p)
    BY <2>1, ClimbStep
  <2>3. all(g)[c] = all(h)[c]
    BY <2>2
  <2> HIDE DEF all
  <2> QED BY <2>3
<1>6. \A g, h \in Climbs : \A c \in Chains :
        (\A d \in Chains : rank[d] < rank[c] => g[d] = h[d]) => F[g][c] = F[h][c]
  <2> HIDE DEF rank, F
  <2> QED BY <1>5
<1>7. \A g \in Climbs : DOMAIN g = Chains /\ g = [c \in Chains |-> g[c]]
  BY DEF Climbs
<1>8. PICK g \in Climbs : F[g] = g
  <2> PICK D, W, rk, G : D = Chains /\ W = Climbs /\ rk = rank /\ G = F
    OBVIOUS
  <2> HIDE DEF rank, F
  <2>1. N \in Nat /\ rk \in [D -> 0 .. N] /\ W # {} /\ G \in [W -> W]
    BY <1>1, <1>2, <1>4
  <2>2. \A h \in W : DOMAIN h = D /\ h = [x \in D |-> h[x]]
    BY <1>7
  <2>3. \A e, h \in W : \A x \in D : (\A y \in D : rk[y] < rk[x] => e[y] = h[y]) => G[e][x] = G[h][x]
    BY <1>6
  <2>4. Contracts(D, rk, W, G)
    BY <2>2, <2>3 DEF Contracts
  <2>5. \E h \in W : G[h] = h
    BY <2>1, <2>4, Fixpoint
  <2> QED BY <2>5
<1>9. g = all(g)
  <2> HIDE DEF all
  <2> QED BY <1>8
<1>10. f = all(f)
  <2> DEFINE P(h) == h = AllClimbed(templates, h)
  <2>1. \A h : AllClimbed(templates, h) = all(h)
    BY DEF AllClimbed
  <2>2. f = CHOOSE h : P(h)
    BY Zenon DEF Climb
  <2>3. P(g)
    <3> HIDE DEF all
    <3> QED BY <1>9, <2>1
  <2>4. P(f)
    <3> HIDE DEF P, all
    <3> QED BY <2>2, <2>3
  <2> HIDE DEF all
  <2> QED BY <2>1, <2>4
<1>11. ASSUME NEW h, h = all(h), NEW c \in Chains
       PROVE  /\ h[c] = [p \in Seq(STRING) |-> h[c][p]]
              /\ \A p \in Seq(STRING) : h[c][p] = Climbed(templates, h, c, p)
  BY <1>11
<1> DEFINE M == {m \in Nat : \A c \in Chains : Left(Elements(c)) < m => f[c] = g[c]}
<1>12. \A V : Left(V) \in Nat
  BY LeftShrinks
<1>13. 0 \in M
  BY <1>12
<1>14. ASSUME NEW m \in Nat, m \in M PROVE m + 1 \in M
  <2> SUFFICES ASSUME NEW c \in Chains, Left(Elements(c)) < m + 1 PROVE f[c] = g[c]
    OBVIOUS
  <2>1. ASSUME NEW d \in Chains, Left(Elements(d)) < Left(Elements(c)) PROVE f[d] = g[d]
    <3>1. Left(Elements(d)) < m
      <4> PICK u, v : u = Left(Elements(d)) /\ v = Left(Elements(c))
        OBVIOUS
      <4>1. u \in Nat /\ v \in Nat /\ u < v /\ v < m + 1
        BY <1>12, <2>1
      <4>2. u < m
        BY <4>1
      <4> QED BY <4>2
    <3> QED BY <1>14, <3>1
  <2> HIDE DEF all
  <2>2. \A p \in Seq(STRING) : Climbed(templates, f, c, p) = Climbed(templates, g, c, p)
    BY <2>1, ClimbStep
  <2>3. f[c] = [p \in Seq(STRING) |-> f[c][p]] /\ g[c] = [p \in Seq(STRING) |-> g[c][p]]
    BY <1>9, <1>10, <1>11
  <2>4. ASSUME NEW p \in Seq(STRING) PROVE f[c][p] = g[c][p]
    <3>1. f[c][p] = Climbed(templates, f, c, p)
      BY <1>10, <1>11
    <3>2. g[c][p] = Climbed(templates, g, c, p)
      BY <1>9, <1>11
    <3> QED BY <2>2, <3>1, <3>2
  <2> QED BY <2>3, <2>4
<1>15. Nat \subseteq M
  <2> HIDE DEF M
  <2> QED BY <1>13, <1>14, Induction
<1>16. \A c \in Chains : f[c] = g[c]
  <2> TAKE c \in Chains
  <2> PICK v : v = Left(Elements(c))
    OBVIOUS
  <2>1. v \in Nat /\ v + 1 \in Nat /\ v < v + 1
    BY <1>12
  <2>2. v + 1 \in M
    <3> HIDE DEF M
    <3> QED BY <1>15, <2>1
  <2> QED BY <2>1, <2>2
<1>17. f = g
  <2>1. f = [c \in Chains |-> f[c]] /\ g = [c \in Chains |-> g[c]]
    <3>1. ASSUME NEW h, h = all(h) PROVE h = [c \in Chains |-> h[c]]
      BY <3>1
    <3> HIDE DEF all
    <3> QED BY <1>9, <1>10, <3>1
  <2> HIDE DEF all
  <2> QED BY <1>16, <2>1
<1>18. \A c \in Chains : \A p \in Seq(STRING) : f[c][p] = Climbed(templates, f, c, p)
  <2> HIDE DEF all
  <2> QED BY <1>10, <1>11
<1> QED BY <1>17, <1>18

\* A chain that continues another: from one of some templates, from parent to parent until there is none that is new.
Continues(next, from, c, r) ==
  /\ r \in Seq(Templates) /\ Len(c) <= Len(r) /\ \A i \in 1 .. Len(c) : r[i] = c[i]
  /\ \A i, j \in 1 .. Len(r) : r[i] = r[j] => i = j
  /\ Len(c) = Len(r) => from \subseteq Elements(c)
  /\ Len(c) < Len(r) => r[Len(c) + 1] \in from /\ next[r[Len(r)]] \subseteq Elements(r)
  /\ \A i \in Len(c) + 1 .. Len(r) - 1 : r[i + 1] \in next[r[i]]
Distinct(c) == c \in Seq(Templates) /\ \A i, j \in 1 .. Len(c) : c[i] = c[j] => i = j
IsChain(next, from, r) == Continues(next, from, <<>>, r)

\* One more template before what continues.
LEMMA ContinuesFromNext ==
  ASSUME NEW next, NEW c, Distinct(c), NEW k \in Templates, k \notin Elements(c), NEW d, d = Append(c, k)
  PROVE  /\ Distinct(d)
         /\ \A r : Continues(next, next[k], d, r) => Continues(next, {k}, c, r)
         /\ next[k] = {} => Continues(next, {k}, c, d)
<1> PICK m \in Nat : m = Len(c) /\ DOMAIN c = 1 .. m
  BY DEF Distinct
<1>0. c \in Seq(Templates) /\ \A i, j \in 1 .. m : c[i] = c[j] => i = j
  BY DEF Distinct
<1>1. d \in Seq(Templates) /\ Len(d) = m + 1 /\ d[m + 1] = k /\ DOMAIN d = 1 .. m + 1 /\ \A i \in 1 .. m : d[i] = c[i]
  BY <1>0
<1>2. \A i : i \in 1 .. m + 1 <=> i \in 1 .. m \/ i = m + 1
  OBVIOUS
<1>3. \A i \in 1 .. m : c[i] # k
  BY DEF Elements
<1>4. \A i, j \in 1 .. m + 1 : d[i] = d[j] => i = j
  BY <1>0, <1>1, <1>2, <1>3
<1>5. Distinct(d)
  BY <1>1, <1>4 DEF Distinct
<1>6. ASSUME NEW r, Continues(next, next[k], d, r) PROVE Continues(next, {k}, c, r)
  <2>1. r \in Seq(Templates) /\ m + 1 <= Len(r) /\ \A i \in 1 .. m + 1 : r[i] = d[i]
    BY <1>1, <1>6 DEF Continues
  <2> PICK n \in Nat : n = Len(r) /\ DOMAIN r = 1 .. n
    BY <2>1
  <2>2. /\ \A i, j \in 1 .. n : r[i] = r[j] => i = j
        /\ m + 1 = n => next[k] \subseteq Elements(d)
        /\ m + 1 < n => r[m + 2] \in next[k] /\ next[r[n]] \subseteq Elements(r)
        /\ \A i \in m + 2 .. n - 1 : r[i + 1] \in next[r[i]]
    <3>1. Len(d) + 1 = m + 2 /\ Len(d) = m + 1 /\ Len(r) = n
      BY <1>1
    <3> QED BY <1>6, <3>1 DEF Continues
  <2>3. r[m + 1] = k
    <3>1. m + 1 \in 1 .. m + 1
      OBVIOUS
    <3> QED BY <1>1, <2>1, <3>1
  <2>4. \A i \in 1 .. m : r[i] = c[i]
    BY <1>1, <1>2, <2>1
  <2>5. m < n /\ m <= n
    BY <2>1
  <2>6. next[r[n]] \subseteq Elements(r)
    <3>1. CASE m + 1 = n
      <4>1. next[k] \subseteq Elements(d)
        BY <2>2, <3>1
      <4>2. Elements(d) \subseteq Elements(r)
        BY <1>1, <2>1, <3>1 DEF Elements
      <4> QED BY <2>3, <3>1, <4>1, <4>2
    <3>2. CASE m + 1 # n
      <4>1. m + 1 < n
        BY <2>1, <3>2
      <4> QED BY <2>2, <4>1
    <3> QED BY <3>1, <3>2
  <2>7. ASSUME NEW i \in m + 1 .. n - 1 PROVE r[i + 1] \in next[r[i]]
    <3>1. CASE i = m + 1
      <4>1. m + 1 < n /\ i + 1 = m + 2
        BY <3>1
      <4> QED BY <2>2, <2>3, <3>1, <4>1
    <3>2. CASE i # m + 1
      <4>1. i \in m + 2 .. n - 1
        BY <3>2
      <4> QED BY <2>2, <4>1
    <3> QED BY <3>1, <3>2
  <2> QED BY <2>1, <2>2, <2>3, <2>4, <2>5, <2>6, <2>7 DEF Continues
<1>7. ASSUME next[k] = {} PROVE Continues(next, {k}, c, d)
  <2>1. Len(c) = m /\ Len(d) = m + 1 /\ m <= m + 1 /\ m < m + 1 /\ m # m + 1
    BY <1>1
  <2>2. d[m + 1] \in {k} /\ next[d[m + 1]] \subseteq Elements(d)
    BY <1>1, <1>7
  <2>3. ~\E i : i \in m + 1 .. (m + 1) - 1
    OBVIOUS
  <2> QED BY <1>1, <1>4, <2>1, <2>2, <2>3 DEF Continues
<1> QED BY <1>5, <1>6, <1>7

\* Nothing is added where there is nothing new.
LEMMA ContinuesItself ==
  ASSUME NEW next, NEW c, Distinct(c), NEW from, from \subseteq Elements(c)
  PROVE  Continues(next, from, c, c)
<1> PICK m \in Nat : m = Len(c)
  BY DEF Distinct
<1>1. ~(m < m) /\ m <= m /\ ~\E i : i \in m + 1 .. m - 1
  OBVIOUS
<1>2. c \in Seq(Templates) /\ \A i, j \in 1 .. m : c[i] = c[j] => i = j
  BY DEF Distinct
<1> QED BY <1>1, <1>2 DEF Continues

\* The walk up continues the chain it is given.
LEMMA ClimbContinues ==
  ASSUME NEW templates, HasParents(templates), NEW f, f = Climb(templates), NEW next, next = ParentsIn(templates)
  PROVE  \A c : Distinct(c) => \A p \in Seq(STRING) : Continues(next, ResolveKey(templates, p), c, f[c][p])
<1> DEFINE Good(c) == \A p \in Seq(STRING) : Continues(next, ResolveKey(templates, p), c, f[c][p])
           M == {m \in Nat : \A c : Distinct(c) /\ Left(Elements(c)) < m => Good(c)}
<1>1. f \in Climbs /\ \A c \in Chains : \A p \in Seq(STRING) : f[c][p] = Climbed(templates, f, c, p)
  BY ClimbIs
<1>2. \A V : Left(V) \in Nat
  BY LeftShrinks
<1>3. 0 \in M
  BY <1>2
<1>4. ASSUME NEW c, Distinct(c), \A d : Distinct(d) /\ Left(Elements(d)) < Left(Elements(c)) => Good(d),
             NEW p \in Seq(STRING)
      PROVE  Continues(next, ResolveKey(templates, p), c, f[c][p])
  <2> PICK new, k, R, r : /\ new = ResolveKey(templates, p) \ Elements(c) /\ k = Only(new)
                          /\ R = ResolveKey(templates, p) /\ r = f[c][p]
    OBVIOUS
  <2> PICK parent, d : parent = Extends(templates[k]) /\ d = Append(c, k)
    OBVIOUS
  <2> PICK q : q = Only(parent).path
    OBVIOUS
  <2>0. c \in Chains
    <3> PICK S : S = Seq(STRING)
      OBVIOUS
    <3>1. c \in Seq(Templates) /\ \A x \in Templates : x \in S
      BY <1>4, TemplatesAreNames DEF Distinct
    <3>2. c \in Seq(S)
      BY <3>1
    <3> QED BY <3>2 DEF Chains
  <2>1. r = IF new = {} THEN c ELSE IF parent = {} THEN d ELSE f[d][q]
    <3>1. Climbed(templates, f, c, p) = IF new = {} THEN c ELSE IF parent = {} THEN d ELSE f[d][q]
      BY Zenon DEF Climbed
    <3> QED BY <1>1, <2>0, <3>1
  <2> SUFFICES Continues(next, R, c, r)
    OBVIOUS
  <2>2. CASE new = {}
    <3>1. R \subseteq Elements(c) /\ r = c
      BY <2>1, <2>2
    <3> QED BY <1>4, <3>1, ContinuesItself
  <2>3. CASE new # {}
    <3>0. GoesOn(templates, c, p, k, parent)
      BY <2>0, <2>3, NextIs
    <3>1. k \in Templates /\ k \notin Elements(c) /\ R = {k}
      BY <3>0 DEF GoesOn
    <3>2. parent # {} => q \in Seq(STRING) /\ next[k] = ResolveKey(templates, q)
      BY <3>0 DEF GoesOn
    <3>3. parent = {} => next[k] = {}
      BY <3>0 DEF GoesOn
    <3>4. Left(Elements(d)) < Left(Elements(c))
      BY <3>0 DEF GoesOn
    <3>5. /\ Distinct(d)
          /\ Continues(next, next[k], d, r) => Continues(next, {k}, c, r)
          /\ next[k] = {} => Continues(next, {k}, c, d)
      BY <1>4, <3>1, ContinuesFromNext
    <3>6. CASE parent = {}
      BY <2>1, <2>3, <3>1, <3>3, <3>5, <3>6
    <3>7. CASE parent # {}
      <4>1. r = f[d][q]
        BY <2>1, <2>3, <3>7
      <4>2. Good(d)
        <5> HIDE DEF Good
        <5> QED BY <1>4, <3>4, <3>5
      <4>3. Continues(next, next[k], d, r)
        BY <3>2, <3>7, <4>1, <4>2
      <4> QED BY <3>1, <3>5, <4>3
    <3> QED BY <3>6, <3>7
  <2> QED BY <2>2, <2>3
<1>5. ASSUME NEW m \in Nat, m \in M PROVE m + 1 \in M
  <2> SUFFICES ASSUME NEW c, Distinct(c), Left(Elements(c)) < m + 1 PROVE Good(c)
    OBVIOUS
  <2>1. ASSUME NEW d, Distinct(d), Left(Elements(d)) < Left(Elements(c)) PROVE Good(d)
    <3>1. Left(Elements(d)) < m
      <4> PICK u, v : u = Left(Elements(d)) /\ v = Left(Elements(c))
        OBVIOUS
      <4>1. u \in Nat /\ v \in Nat /\ u < v /\ v < m + 1
        BY <1>2, <2>1
      <4>2. u < m
        BY <4>1
      <4> QED BY <4>2
    <3> HIDE DEF Good
    <3> QED BY <1>5, <2>1, <3>1
  <2>2. \A d : Distinct(d) /\ Left(Elements(d)) < Left(Elements(c)) => Good(d)
    <3> HIDE DEF Good
    <3> QED BY <2>1
  <2> QED BY <1>4, <2>2
<1>6. Nat \subseteq M
  <2> HIDE DEF M
  <2> QED BY <1>3, <1>5, Induction
<1>7. ASSUME NEW c, Distinct(c) PROVE Good(c)
  <2> PICK v : v = Left(Elements(c))
    OBVIOUS
  <2>1. v \in Nat /\ v + 1 \in Nat /\ v < v + 1
    BY <1>2
  <2>2. v + 1 \in M
    <3> HIDE DEF M
    <3> QED BY <1>6, <2>1
  <2> HIDE DEF Good
  <2> QED BY <1>7, <2>1, <2>2
<1> QED BY <1>7

\* The chain of a name goes from its template up.
LEMMA ChainOf ==
  ASSUME NEW templates, HasParents(templates), NEW p \in Seq(STRING)
  PROVE  IsChain(ParentsIn(templates), ResolveKey(templates, p), TemplateChain(templates, p))
<1>1. Distinct(<<>>)
  BY DEF Distinct
<1>2. TemplateChain(templates, p) = Climb(templates)[<<>>][p]
  BY ChainIsClimb
<1> QED BY <1>1, <1>2, ClimbContinues DEF IsChain

\* There is one at most to go to.
OneWay(next) == next \in [Templates -> SUBSET Templates] /\ \A k \in Templates : AtMostOne(next[k])

\* What a chain is, on its own.
LEMMA ChainIs ==
  ASSUME NEW next, NEW from, NEW r, IsChain(next, from, r)
  PROVE  \E n \in Nat :
           /\ r \in Seq(Templates) /\ n = Len(r) /\ DOMAIN r = 1 .. n
           /\ \A i, j \in 1 .. n : r[i] = r[j] => i = j
           /\ n = 0 => from = {}
           /\ n > 0 => r[1] \in from /\ next[r[n]] \subseteq Elements(r)
           /\ \A i \in 1 .. n - 1 : r[i + 1] \in next[r[i]]
           /\ \A i \in 1 .. n : r[i] \in Templates
<1>1. Continues(next, from, <<>>, r) /\ Len(<<>>) = 0 /\ Elements(<<>>) = {}
  BY DEF IsChain, Elements
<1>2. r \in Seq(Templates)
  BY <1>1 DEF Continues
<1> PICK n \in Nat : n = Len(r) /\ DOMAIN r = 1 .. n
  BY <1>2
<1>3. n = 0 => from = {}
  BY <1>1 DEF Continues
<1>4. n > 0 => r[1] \in from /\ next[r[n]] \subseteq Elements(r)
  BY <1>1 DEF Continues
<1>5. \A i \in 1 .. n - 1 : r[i + 1] \in next[r[i]]
  BY <1>1 DEF Continues
<1>6. \A i, j \in 1 .. n : r[i] = r[j] => i = j
  BY <1>1 DEF Continues
<1> QED BY <1>2, <1>3, <1>4, <1>5, <1>6

\* A chain in a form to reason about: it has n templates.
Chained(next, from, r, n) ==
  /\ r \in Seq(Templates) /\ n = Len(r) /\ DOMAIN r = 1 .. n
  /\ \A i, j \in 1 .. n : r[i] = r[j] => i = j
  /\ n = 0 => from = {}
  /\ n > 0 => r[1] \in from /\ next[r[n]] \subseteq Elements(r)
  /\ \A i \in 1 .. n - 1 : r[i + 1] \in next[r[i]]
  /\ \A i \in 1 .. n : r[i] \in Templates

\* Every chain has that form.
LEMMA ChainedIs ==
  ASSUME NEW next, NEW from, NEW r, IsChain(next, from, r)
  PROVE  \E n \in Nat : Chained(next, from, r, n)
BY ChainIs DEF Chained

\* There is only one way up.
LEMMA ChainIsUnique ==
  ASSUME NEW next, OneWay(next), NEW from, AtMostOne(from), NEW r, NEW s, IsChain(next, from, r), IsChain(next, from, s)
  PROVE  r = s
<1>1. PICK n \in Nat : Chained(next, from, r, n)
  BY ChainedIs
<1>2. PICK m \in Nat : Chained(next, from, s, m)
  BY ChainedIs
<1>3. ASSUME NEW u, NEW v, NEW a \in Nat, NEW b \in Nat, Chained(next, from, u, a), Chained(next, from, v, b), a <= b
      PROVE  a = b /\ \A i \in 1 .. a : u[i] = v[i]
  <2> DEFINE M == {j \in Nat : j + 1 <= a => u[j + 1] = v[j + 1]}
  <2>1. 0 \in M
    <3> SUFFICES ASSUME 1 <= a PROVE u[1] = v[1]
      OBVIOUS
    <3>1. u[1] \in from /\ v[1] \in from
      BY <1>3 DEF Chained
    <3> QED BY <3>1 DEF AtMostOne
  <2>2. ASSUME NEW j \in Nat, j \in M PROVE j + 1 \in M
    <3> SUFFICES ASSUME j + 2 <= a PROVE u[j + 2] = v[j + 2]
      OBVIOUS
    <3>1. u[j + 1] = v[j + 1]
      BY <2>2
    <3>2. j + 1 \in 1 .. a - 1 /\ j + 1 \in 1 .. b - 1 /\ (j + 1) + 1 = j + 2 /\ j + 1 \in 1 .. a
      BY <1>3
    <3>3. u[j + 2] \in next[u[j + 1]] /\ v[j + 2] \in next[v[j + 1]] /\ u[j + 1] \in Templates
      <4> HIDE DEF M
      <4> QED BY <1>3, <3>2 DEF Chained
    <3> QED BY <3>1, <3>3 DEF OneWay, AtMostOne
  <2>3. Nat \subseteq M
    <3> HIDE DEF M
    <3> QED BY <2>1, <2>2, Induction
  <2>4. ASSUME NEW i \in 1 .. a PROVE u[i] = v[i]
    <3>1. i - 1 \in Nat /\ (i - 1) + 1 = i /\ i <= a
      OBVIOUS
    <3>2. i - 1 \in M
      <4> HIDE DEF M
      <4> QED BY <2>3, <3>1
    <3> QED BY <3>1, <3>2
  <2> HIDE DEF M
  <2>5. ASSUME a < b PROVE FALSE
    <3>1. CASE a = 0
      <4>1. from = {} /\ v[1] \in from
        BY <1>3, <2>5, <3>1 DEF Chained
      <4> QED BY <4>1
    <3>2. CASE a > 0
      <4>1. a \in 1 .. a /\ a \in 1 .. b - 1 /\ a + 1 \in 1 .. b
        BY <1>3, <2>5, <3>2
      <4>2. v[a + 1] \in next[v[a]] /\ u[a] = v[a] /\ next[u[a]] \subseteq Elements(u)
        BY <1>3, <2>4, <3>2, <4>1 DEF Chained
      <4>3. PICK i \in 1 .. a : v[a + 1] = u[i]
        BY <1>3, <4>2 DEF Elements, Chained
      <4>4. v[a + 1] = v[i] /\ i \in 1 .. b
        BY <1>3, <2>4, <4>3
      <4>5. a + 1 = i
        BY <1>3, <4>1, <4>4 DEF Chained
      <4> QED BY <4>5
    <3> QED BY <1>3, <3>1, <3>2
  <2> QED BY <1>3, <2>4, <2>5
<1>4. n = m /\ \A i \in 1 .. n : r[i] = s[i]
  <2>1. n <= m \/ m <= n
    OBVIOUS
  <2> QED BY <1>1, <1>2, <1>3, <2>1
<1>5. r = [i \in 1 .. n |-> r[i]] /\ s = [i \in 1 .. m |-> s[i]]
  BY <1>1, <1>2 DEF Chained
<1> QED BY <1>4, <1>5

\* What the chain of a template has is what its parents reach.
LEMMA ChainReaches ==
  ASSUME NEW next, OneWay(next), NEW k \in Templates, NEW r, IsChain(next, {k}, r)
  PROVE  /\ \A x \in Templates : x \in Elements(r) <=> Reaches(next, k, x)
         /\ Elements(r) \subseteq Templates
<1>1. PICK n \in Nat : Chained(next, {k}, r, n)
  BY ChainedIs
<1>2. n > 0 /\ r[1] = k
  BY <1>1 DEF Chained
<1>3. Elements(r) \subseteq Templates /\ \A x : x \in Elements(r) <=> \E i \in 1 .. n : x = r[i]
  BY <1>1 DEF Elements, Chained
<1>4. \A x \in Elements(r) : next[x] \subseteq Elements(r)
  <2> SUFFICES ASSUME NEW i \in 1 .. n PROVE next[r[i]] \subseteq Elements(r)
    BY <1>3
  <2>1. CASE i = n
    BY <1>1, <1>2, <2>1 DEF Chained
  <2>2. CASE i # n
    <3>1. i \in 1 .. n - 1 /\ i + 1 \in 1 .. n
      BY <2>2
    <3>2. r[i + 1] \in next[r[i]] /\ r[i] \in Templates
      BY <1>1, <3>1 DEF Chained
    <3>3. next[r[i]] \subseteq {r[i + 1]}
      BY <3>2 DEF OneWay, AtMostOne
    <3> QED BY <1>3, <3>1, <3>3
  <2> QED BY <2>1, <2>2
<1>5. k \in Elements(r)
  <2>1. 1 \in 1 .. n
    BY <1>2
  <2> QED BY <1>2, <1>3, <2>1
<1>6. ASSUME NEW x \in Templates, Reaches(next, k, x) PROVE x \in Elements(r)
  BY <1>3, <1>4, <1>5, <1>6 DEF Reaches
<1>7. ASSUME NEW i \in 1 .. n PROVE Reaches(next, k, r[i])
  <2> SUFFICES ASSUME NEW C \in SUBSET Templates, k \in C, \A x \in C : next[x] \subseteq C PROVE r[i] \in C
    BY DEF Reaches
  <2> DEFINE M == {j \in Nat : j + 1 <= n => r[j + 1] \in C}
  <2>1. 0 \in M
    BY <1>2
  <2>2. ASSUME NEW j \in Nat, j \in M PROVE j + 1 \in M
    <3> SUFFICES ASSUME j + 2 <= n PROVE r[j + 2] \in C
      OBVIOUS
    <3>1. r[j + 1] \in C
      BY <2>2
    <3>2. j + 1 \in 1 .. n - 1 /\ (j + 1) + 1 = j + 2
      OBVIOUS
    <3>3. r[j + 2] \in next[r[j + 1]]
      <4> HIDE DEF M
      <4> QED BY <1>1, <3>2 DEF Chained
    <3> QED BY <3>1, <3>3
  <2>3. Nat \subseteq M
    <3> HIDE DEF M
    <3> QED BY <2>1, <2>2, Induction
  <2>4. i - 1 \in Nat /\ (i - 1) + 1 = i /\ i <= n
    OBVIOUS
  <2>5. i - 1 \in M
    <3> HIDE DEF M
    <3> QED BY <2>3, <2>4
  <2> QED BY <2>4, <2>5
<1> QED BY <1>3, <1>6, <1>7

\* What follows the first of n templates.
Rest(r, n, t) ==
  /\ t \in Seq(Templates) /\ Len(t) = n - 1 /\ DOMAIN t = 1 .. n - 1
  /\ \A i \in 1 .. n - 1 : t[i] = r[i + 1]

\* What follows the first template of a chain.
LEMMA RestOfChain ==
  ASSUME NEW next, OneWay(next), NEW k \in Templates, NEW r, NEW n \in Nat, Chained(next, {k}, r, n),
         NEW t, Rest(r, n, t)
  PROVE  /\ k \notin Elements(t) /\ Elements(t) \subseteq Elements(r) /\ n > 0
         /\ (~\E q \in next[k] : Reaches(next, q, k)) => IsChain(next, next[k], t)
<1>1. Chained(next, {k}, r, n)
  OBVIOUS
<1>2. n > 0 /\ r[1] = k /\ r \in Seq(Templates)
  BY <1>1 DEF Chained
<1> PICK m : m = n - 1
  OBVIOUS
<1>3. m \in Nat /\ t \in Seq(Templates) /\ Len(t) = m /\ DOMAIN t = 1 .. m /\ (\A i \in 1 .. m : t[i] = r[i + 1])
  BY <1>2 DEF Rest
<1>4. \A i \in 1 .. m : i + 1 \in 1 .. n
  OBVIOUS
<1>5. \A i, j \in 1 .. m : t[i] = t[j] => i = j
  <2> TAKE i, j \in 1 .. m
  <2>1. r[i + 1] = r[j + 1] => i + 1 = j + 1
    BY <1>1, <1>4 DEF Chained
  <2> QED BY <1>3, <2>1
<1>6. k \notin Elements(t)
  <2> SUFFICES ASSUME NEW i \in 1 .. m, t[i] = k PROVE FALSE
    BY <1>3 DEF Elements
  <2>1. r[i + 1] = r[1] /\ 1 \in 1 .. n /\ i + 1 \in 1 .. n
    BY <1>2, <1>3, <1>4
  <2>2. i + 1 = 1
    BY <1>1, <2>1 DEF Chained
  <2> QED BY <2>2
<1>7. \A x : x \in Elements(r) <=> x = k \/ x \in Elements(t)
  <2>1. \A i : i \in 1 .. n <=> i = 1 \/ \E j \in 1 .. m : i = j + 1
    <3> TAKE i
    <3>1. i \in 1 .. n /\ i # 1 => i - 1 \in 1 .. m /\ i = (i - 1) + 1
      OBVIOUS
    <3> QED BY <1>2, <3>1
  <2>2. \A x : x \in Elements(r) <=> \E i \in 1 .. n : x = r[i]
    BY <1>1 DEF Elements, Chained
  <2>3. \A x : x \in Elements(t) <=> \E j \in 1 .. m : x = r[j + 1]
    BY <1>3 DEF Elements
  <2> TAKE x
  <2>4. ASSUME x \in Elements(r) PROVE x = k \/ x \in Elements(t)
    <3>1. PICK i \in 1 .. n : x = r[i]
      BY <2>2, <2>4
    <3> QED BY <1>2, <2>1, <2>3, <3>1
  <2>5. x = k => x \in Elements(r)
    <3>1. 1 \in 1 .. n
      BY <1>2
    <3> QED BY <1>2, <2>2, <3>1
  <2>6. ASSUME x \in Elements(t) PROVE x \in Elements(r)
    <3>1. PICK j \in 1 .. m : x = r[j + 1]
      BY <2>3, <2>6
    <3> QED BY <1>4, <2>2, <3>1
  <2> QED BY <2>4, <2>5, <2>6
<1>8. ASSUME ~\E q \in next[k] : Reaches(next, q, k) PROVE IsChain(next, next[k], t)
  <2>1. m = 0 => next[k] \subseteq {}
    <3> SUFFICES ASSUME m = 0, NEW x \in next[k] PROVE FALSE
      OBVIOUS
    <3>1. n = 1 /\ next[k] \subseteq Elements(r)
      BY <1>1, <1>2 DEF Chained
    <3>2. x = k
      BY <1>3, <1>7, <3>1 DEF Elements
    <3>3. Reaches(next, x, k)
      BY <3>2 DEF Reaches
    <3> QED BY <1>8, <3>3
  <2>2. m > 0 => t[1] \in next[k]
    <3> SUFFICES ASSUME m > 0 PROVE t[1] \in next[k]
      OBVIOUS
    <3>1. 1 \in 1 .. n - 1 /\ 1 \in 1 .. m /\ 1 + 1 = 2
      OBVIOUS
    <3>2. r[2] \in next[r[1]] /\ t[1] = r[2]
      BY <1>1, <1>3, <3>1 DEF Chained
    <3> QED BY <1>2, <3>2
  <2>3. ASSUME m > 0 PROVE next[t[m]] \subseteq Elements(t)
    <3>1. m \in 1 .. m /\ m + 1 = n
      BY <2>3
    <3>2. t[m] = r[n] /\ next[r[n]] \subseteq Elements(r)
      BY <1>1, <1>2, <1>3, <3>1 DEF Chained
    <3>3. ASSUME k \in next[t[m]] PROVE FALSE
      <4>1. PICK q : q \in next[k] /\ q = t[1]
        BY <2>2, <2>3
      <4>2. Reaches(next, q, k)
        <5> SUFFICES ASSUME NEW C \in SUBSET Templates, q \in C, \A x \in C : next[x] \subseteq C PROVE k \in C
          BY DEF Reaches
        <5> DEFINE M == {j \in Nat : j + 1 <= m => t[j + 1] \in C}
        <5>1. 0 \in M
          BY <4>1
        <5>2. ASSUME NEW j \in Nat, j \in M PROVE j + 1 \in M
          <6> SUFFICES ASSUME j + 2 <= m PROVE t[j + 2] \in C
            OBVIOUS
          <6>1. t[j + 1] \in C
            BY <5>2
          <6>2. j + 1 \in 1 .. m /\ j + 2 \in 1 .. m /\ j + 2 \in 1 .. n - 1 /\ (j + 1) + 1 = j + 2 /\ (j + 2) + 1 = j + 3
            OBVIOUS
          <6>3. t[j + 1] = r[j + 2] /\ t[j + 2] = r[j + 3] /\ r[j + 3] \in next[r[j + 2]]
            <7> HIDE DEF M
            <7> QED BY <1>1, <1>3, <6>2 DEF Chained
          <6> QED BY <6>1, <6>3
        <5>3. Nat \subseteq M
          <6> HIDE DEF M
          <6> QED BY <5>1, <5>2, Induction
        <5>4. m - 1 \in Nat /\ (m - 1) + 1 = m
          BY <2>3
        <5>5. m - 1 \in M
          <6> HIDE DEF M
          <6> QED BY <5>3, <5>4
        <5>6. t[m] \in C
          BY <5>4, <5>5
        <5> QED BY <3>3, <5>6
      <4> QED BY <1>8, <4>1, <4>2
    <3> QED BY <1>7, <3>2, <3>3
  <2>4. \A i \in 1 .. m - 1 : t[i + 1] \in next[t[i]]
    <3> TAKE i \in 1 .. m - 1
    <3>1. i \in 1 .. m /\ i + 1 \in 1 .. m /\ i + 1 \in 1 .. n - 1 /\ (i + 1) + 1 = i + 2
      OBVIOUS
    <3>2. t[i] = r[i + 1] /\ t[i + 1] = r[i + 2] /\ r[i + 2] \in next[r[i + 1]]
      BY <1>1, <1>3, <3>1 DEF Chained
    <3> QED BY <3>2
  <2>5. Len(<<>>) = 0 /\ Elements(<<>>) = {} /\ ~\E i : i \in 1 .. 0
    BY DEF Elements
  <2>6. m \in Nat
    BY <1>3
  <2>7. \A i \in 0 + 1 .. m - 1 : t[i + 1] \in next[t[i]]
    BY <2>4
  <2> QED BY <1>3, <1>5, <2>1, <2>2, <2>3, <2>5, <2>6, <2>7 DEF IsChain, Continues
<1> QED BY <1>2, <1>6, <1>7, <1>8

\* Above a template that is in no cycle is the chain of its parent.
LEMMA ChainTail ==
  ASSUME NEW next, OneWay(next), NEW k \in Templates, NEW r, IsChain(next, {k}, r), NEW t, t = Tail(r)
  PROVE  /\ k \notin Elements(t) /\ Elements(t) \subseteq Elements(r) /\ r # <<>>
         /\ (~\E q \in next[k] : Reaches(next, q, k)) => IsChain(next, next[k], t)
<1>1. PICK n \in Nat : Chained(next, {k}, r, n)
  BY ChainedIs
<1>2. r \in Seq(Templates) /\ n = Len(r) /\ n > 0
  BY <1>1 DEF Chained
<1>3. r # <<>>
  BY <1>2
<1>4. Rest(r, n, t)
  BY <1>2 DEF Rest
<1>5. k \notin Elements(t) /\ Elements(t) \subseteq Elements(r)
  BY <1>1, <1>4, RestOfChain
<1>6. (~\E q \in next[k] : Reaches(next, q, k)) => IsChain(next, next[k], t)
  BY <1>1, <1>4, RestOfChain
<1> QED BY <1>3, <1>5, <1>6

\* A step of the walk of IsDescendantOf, as it has it.
Descends(templates, ancestor, walk, seen, key) ==
  \E r \in Extends(templates[key]) :
    \/ r.path = ancestor
    \/ \E parent \in ResolveKey(templates, r.path) :
         \/ parent = ancestor
         \/ parent \notin seen /\ walk[seen \cup {parent}][parent]
AllDescend(templates, ancestor, walk) ==
  [seen \in SUBSET DOMAIN templates |-> [key \in DOMAIN templates |-> Descends(templates, ancestor, walk, seen, key)]]
Descent(templates, ancestor) == CHOOSE walk : walk = AllDescend(templates, ancestor, walk)
Descents == [SUBSET Templates -> [Templates -> BOOLEAN]]

\* The question is put to the walk.
LEMMA DescendantIsWalk ==
  \A templates, descendant, ancestor :
    IsDescendantOf(templates, descendant, ancestor) = Descent(templates, ancestor)[{}][descendant]
BY Zenon DEF IsDescendantOf, Descent, AllDescend, Descends

\* A template has its own name.
LEMMA OwnName ==
  ASSUME NEW templates, DOMAIN templates = Templates, NEW k \in Templates
  PROVE  ResolveKey(templates, k) = {k}
BY Zenon DEF ResolveKey

\* The parent is the ancestor, or is asked if it has not been.
Asks(next, ancestor, g, S, k) == \E p \in next[k] : p = ancestor \/ (p \notin S /\ g[S \cup {p}][p])

\* A step asks the parent.
LEMMA DescendsIs ==
  ASSUME NEW templates, HasParents(templates), NEW ancestor \in Templates, NEW next, next = ParentsIn(templates),
         NEW g, NEW S, NEW k \in Templates
  PROVE  Descends(templates, ancestor, g, S, k) <=> Asks(next, ancestor, g, S, k)
<1>1. next[k] = UNION {ResolveKey(templates, r.path) : r \in Extends(templates[k])}
  BY DEF ParentsIn
<1>2. ResolveKey(templates, ancestor) = {ancestor}
  BY OwnName DEF HasParents
<1>3. \A p : p \in next[k] <=> \E r \in Extends(templates[k]) : p \in ResolveKey(templates, r.path)
  BY <1>1
<1>4. ASSUME Descends(templates, ancestor, g, S, k)
      PROVE  \E p \in next[k] : p = ancestor \/ (p \notin S /\ g[S \cup {p}][p])
  <2>1. PICK r \in Extends(templates[k]) :
                \/ r.path = ancestor
                \/ \E parent \in ResolveKey(templates, r.path) :
                     parent = ancestor \/ (parent \notin S /\ g[S \cup {parent}][parent])
    BY <1>4 DEF Descends
  <2>2. CASE r.path = ancestor
    <3>1. ancestor \in next[k]
      BY <1>2, <1>3, <2>2
    <3> QED BY <3>1
  <2>3. CASE r.path # ancestor
    BY <1>3, <2>1, <2>3
  <2> QED BY <2>2, <2>3
<1>5. ASSUME NEW p \in next[k], p = ancestor \/ (p \notin S /\ g[S \cup {p}][p])
      PROVE  Descends(templates, ancestor, g, S, k)
  <2>1. PICK r \in Extends(templates[k]) : p \in ResolveKey(templates, r.path)
    BY <1>3
  <2> QED BY <1>5, <2>1 DEF Descends
<1> QED BY <1>4, <1>5 DEF Asks

\* The parents are templates.
LEMMA ParentsAre ==
  ASSUME NEW templates, HasParents(templates)
  PROVE  OneWay(ParentsIn(templates))
<1> PICK next : next = ParentsIn(templates)
  OBVIOUS
<1>1. ASSUME NEW k \in Templates PROVE AtMostOne(next[k]) /\ next[k] \subseteq Templates
  <2> PICK parent : parent = Extends(templates[k])
    OBVIOUS
  <2>1. AtMostOne(parent)
    BY DEF HasParents
  <2>2. next[k] = UNION {ResolveKey(templates, r.path) : r \in parent}
    BY DEF ParentsIn
  <2>3. ASSUME NEW r \in parent
        PROVE  AtMostOne(ResolveKey(templates, r.path)) /\ ResolveKey(templates, r.path) \subseteq Templates
    BY ResolvedKeyIsOne DEF HasParents
  <2>4. \A x : x \in next[k] <=> \E r \in parent : x \in ResolveKey(templates, r.path)
    BY <2>2
  <2>5. next[k] \subseteq Templates
    BY <2>3, <2>4
  <2>6. ASSUME NEW x \in next[k], NEW y \in next[k] PROVE x = y
    <3>1. PICK r \in parent : x \in ResolveKey(templates, r.path)
      BY <2>4
    <3>2. PICK l \in parent : y \in ResolveKey(templates, l.path)
      BY <2>4
    <3>3. r = l
      BY <2>1 DEF AtMostOne
    <3> QED BY <2>3, <3>1, <3>2, <3>3 DEF AtMostOne
  <2> QED BY <2>5, <2>6 DEF AtMostOne
<1>2. next = [k \in Templates |-> next[k]]
  BY DEF ParentsIn
<1>3. next \in [Templates -> SUBSET Templates]
  BY <1>1, <1>2
<1> QED BY <1>1, <1>3 DEF OneWay

\* The walk exists.
LEMMA DescentIs ==
  ASSUME NEW templates, HasParents(templates), NEW ancestor \in Templates, NEW f, f = Descent(templates, ancestor)
  PROVE  /\ f \in Descents
         /\ \A S \in SUBSET Templates : \A k \in Templates : f[S][k] = Descends(templates, ancestor, f, S, k)
<1> PICK N : N = Cardinality(Templates)
  OBVIOUS
<1> PICK next : next = ParentsIn(templates)
  OBVIOUS
<1> DEFINE rank == [S \in SUBSET Templates |-> Left(S)]
           all(g) == [S \in SUBSET Templates |-> [k \in Templates |-> Descends(templates, ancestor, g, S, k)]]
           F == [g \in Descents |-> all(g)]
<1>0. OneWay(next)
  BY ParentsAre
<1>1. N \in Nat /\ rank \in [SUBSET Templates -> 0 .. N] /\ \A S \in SUBSET Templates : rank[S] = Left(S)
  <2>1. N \in Nat /\ \A V : Left(V) \in 0 .. N
    BY LeftShrinks
  <2> QED BY <2>1
<1>2. Descents # {}
  <2> DEFINE g == [S \in SUBSET Templates |-> [k \in Templates |-> FALSE]]
  <2>1. g \in Descents
    BY DEF Descents
  <2> QED BY <2>1
<1>3. ASSUME NEW g PROVE all(g) \in Descents
  <2>1. ASSUME NEW S, NEW k PROVE Descends(templates, ancestor, g, S, k) \in BOOLEAN
    BY DEF Descends
  <2> QED BY <2>1 DEF Descents
<1>4. F \in [Descents -> Descents]
  <2> HIDE DEF all
  <2> QED BY <1>3
<1>5. ASSUME NEW g, NEW h, NEW S \in SUBSET Templates,
             \A U \in SUBSET Templates : Left(U) < Left(S) => g[U] = h[U], NEW k \in Templates
      PROVE  Descends(templates, ancestor, g, S, k) = Descends(templates, ancestor, h, S, k)
  <2>1. ASSUME NEW p \in next[k], p \notin S PROVE g[S \cup {p}] = h[S \cup {p}]
    <3>1. p \in Templates /\ S \cup {p} \in SUBSET Templates
      BY <1>0 DEF OneWay
    <3>2. Left(S \cup {p}) < Left(S)
      BY <2>1, <3>1, LeftShrinks
    <3> QED BY <1>5, <3>1, <3>2
  <2>2. Descends(templates, ancestor, g, S, k) <=> Asks(next, ancestor, g, S, k)
    BY DescendsIs
  <2>3. Descends(templates, ancestor, h, S, k) <=> Asks(next, ancestor, h, S, k)
    BY DescendsIs
  <2>4. Descends(templates, ancestor, g, S, k) <=> Descends(templates, ancestor, h, S, k)
    BY <2>1, <2>2, <2>3 DEF Asks
  <2>5. Descends(templates, ancestor, g, S, k) \in BOOLEAN /\ Descends(templates, ancestor, h, S, k) \in BOOLEAN
    BY DEF Descends
  <2> QED BY <2>4, <2>5
<1>6. ASSUME NEW g \in Descents, NEW h \in Descents, NEW S \in SUBSET Templates,
             \A U \in SUBSET Templates : rank[U] < rank[S] => g[U] = h[U]
      PROVE  F[g][S] = F[h][S]
  <2>1. \A U \in SUBSET Templates : Left(U) < Left(S) => g[U] = h[U]
    BY <1>1, <1>6
  <2>2. \A k \in Templates : Descends(templates, ancestor, g, S, k) = Descends(templates, ancestor, h, S, k)
    <3> HIDE DEF F, all, rank
    <3> QED BY <1>5, <2>1
  <2>3. all(g)[S] = all(h)[S]
    BY <2>2
  <2> HIDE DEF all
  <2> QED BY <2>3
<1>7. \A g, h \in Descents : \A S \in SUBSET Templates :
        (\A U \in SUBSET Templates : rank[U] < rank[S] => g[U] = h[U]) => F[g][S] = F[h][S]
  <2> HIDE DEF rank, F
  <2> QED BY <1>6
<1>8. \A g \in Descents : DOMAIN g = SUBSET Templates /\ g = [S \in SUBSET Templates |-> g[S]]
  BY DEF Descents
<1>9. PICK g \in Descents : F[g] = g
  <2> PICK D, W, rk, G : D = SUBSET Templates /\ W = Descents /\ rk = rank /\ G = F
    OBVIOUS
  <2> HIDE DEF rank, F
  <2>1. N \in Nat /\ rk \in [D -> 0 .. N] /\ W # {} /\ G \in [W -> W]
    BY <1>1, <1>2, <1>4
  <2>2. \A h \in W : DOMAIN h = D /\ h = [x \in D |-> h[x]]
    BY <1>8
  <2>3. \A e, h \in W : \A x \in D : (\A y \in D : rk[y] < rk[x] => e[y] = h[y]) => G[e][x] = G[h][x]
    BY <1>7
  <2>4. Contracts(D, rk, W, G)
    BY <2>2, <2>3 DEF Contracts
  <2>5. \E h \in W : G[h] = h
    BY <2>1, <2>4, Fixpoint
  <2> QED BY <2>5
<1>10. g = all(g)
  <2> HIDE DEF all
  <2> QED BY <1>9
<1>11. f = all(f)
  <2> DEFINE P(h) == h = AllDescend(templates, ancestor, h)
  <2>1. \A h : AllDescend(templates, ancestor, h) = all(h)
    BY DEF AllDescend, HasParents
  <2>2. f = CHOOSE h : P(h)
    BY Zenon DEF Descent
  <2>3. P(g)
    <3> HIDE DEF all
    <3> QED BY <1>10, <2>1
  <2>4. P(f)
    <3> HIDE DEF P, all
    <3> QED BY <2>2, <2>3
  <2> HIDE DEF all
  <2> QED BY <2>1, <2>4
<1>12. f \in Descents
  <2> HIDE DEF all
  <2> QED BY <1>3, <1>11
<1>13. ASSUME NEW h, h = all(h), NEW S \in SUBSET Templates, NEW k \in Templates
       PROVE  h[S][k] = Descends(templates, ancestor, h, S, k)
  BY <1>13
<1>14. \A S \in SUBSET Templates : \A k \in Templates : f[S][k] = Descends(templates, ancestor, f, S, k)
  <2> HIDE DEF all
  <2> QED BY <1>11, <1>13
<1> QED BY <1>12, <1>14

\* It finds the templates above.
LEMMA DescendantReaches ==
  ASSUME NEW templates, HasParents(templates), NEW ancestor \in Templates, NEW k \in Templates,
         NEW next, next = ParentsIn(templates)
  PROVE  IsDescendantOf(templates, k, ancestor) <=> \E p \in next[k] : Reaches(next, p, ancestor)
<1> PICK f : f = Descent(templates, ancestor)
  OBVIOUS
<1>1. /\ f \in Descents
      /\ \A S \in SUBSET Templates : \A x \in Templates : f[S][x] = Descends(templates, ancestor, f, S, x)
  BY DescentIs
<1>2. OneWay(next)
  BY ParentsAre
<1>3. ASSUME NEW S \in SUBSET Templates, NEW x \in Templates
      PROVE  f[S][x] <=> \E p \in next[x] : p = ancestor \/ (p \notin S /\ f[S \cup {p}][p])
  <2>1. f[S][x] = Descends(templates, ancestor, f, S, x)
    BY <1>1
  <2>2. Descends(templates, ancestor, f, S, x) <=> Asks(next, ancestor, f, S, x)
    BY DescendsIs
  <2> QED BY <2>1, <2>2 DEF Asks
<1> DEFINE Found(x) == \E p \in next[x] : Reaches(next, p, ancestor)
           Missed(S, x) == \E T \in SUBSET Templates :
             next[x] \subseteq T \cup S /\ ancestor \notin T /\ \A y \in T : next[y] \subseteq T \cup S
           Good(S) == \A x \in Templates : IF f[S][x] THEN Found(x) ELSE Missed(S, x)
           M == {m \in Nat : \A S \in SUBSET Templates : Left(S) < m => Good(S)}
<1>4. \A V : Left(V) \in Nat
  BY LeftShrinks
<1>5. 0 \in M
  BY <1>4
<1>6. ASSUME NEW S \in SUBSET Templates, \A U \in SUBSET Templates : Left(U) < Left(S) => Good(U), NEW x \in Templates
      PROVE  IF f[S][x] THEN Found(x) ELSE Missed(S, x)
  <2>1. ASSUME NEW p \in next[x], p \notin S
        PROVE  p \in Templates /\ IF f[S \cup {p}][p] THEN Found(p) ELSE Missed(S \cup {p}, p)
    <3>1. p \in Templates /\ S \cup {p} \in SUBSET Templates
      BY <1>2 DEF OneWay
    <3>2. Left(S \cup {p}) < Left(S)
      BY <2>1, <3>1, LeftShrinks
    <3>3. Good(S \cup {p})
      <4> HIDE DEF Good
      <4> QED BY <1>6, <3>1, <3>2
    <3> HIDE DEF Found, Missed
    <3> QED BY <3>1, <3>3
  <2>2. CASE f[S][x]
    <3>1. PICK p \in next[x] : p = ancestor \/ (p \notin S /\ f[S \cup {p}][p])
      BY <1>3, <2>2
    <3>2. CASE p = ancestor
      <4>1. Reaches(next, p, ancestor)
        BY <3>2 DEF Reaches
      <4> QED BY <2>2, <4>1
    <3>3. CASE p # ancestor
      <4>1. p \in Templates /\ Found(p)
        BY <2>1, <3>1, <3>3
      <4>2. Reaches(next, p, ancestor)
        BY <4>1, LoadedLeads
      <4> QED BY <2>2, <4>2
    <3> QED BY <3>2, <3>3
  <2>3. CASE ~f[S][x]
    <3>1. \A p \in next[x] : p # ancestor /\ (p \notin S => ~f[S \cup {p}][p])
      BY <1>3, <2>3
    <3>2. CASE next[x] \subseteq S
      <4>1. {} \in SUBSET Templates /\ next[x] \subseteq {} \cup S /\ ancestor \notin {} /\ \A y \in {} : next[y] \subseteq {} \cup S
        BY <3>2
      <4> QED BY <2>3, <4>1
    <3>3. CASE ~(next[x] \subseteq S)
      <4>1. PICK p \in next[x] : p \notin S
        BY <3>3
      <4>2. next[x] \subseteq {p} /\ p \in Templates
        BY <1>2 DEF OneWay, AtMostOne
      <4>3. Missed(S \cup {p}, p)
        <5> HIDE DEF Found, Missed
        <5> QED BY <2>1, <3>1, <4>1
      <4>4. PICK T \in SUBSET Templates :
                    next[p] \subseteq T \cup (S \cup {p}) /\ ancestor \notin T /\ \A y \in T : next[y] \subseteq T \cup (S \cup {p})
        BY <4>3
      <4> PICK V : V = T \cup {p}
        OBVIOUS
      <4>5. V \in SUBSET Templates /\ next[x] \subseteq V \cup S /\ ancestor \notin V
        BY <3>1, <4>2, <4>4
      <4>6. \A y \in V : next[y] \subseteq V \cup S
        BY <4>4
      <4> QED BY <2>3, <4>5, <4>6
    <3> QED BY <3>2, <3>3
  <2> QED BY <2>2, <2>3
<1>7. ASSUME NEW m \in Nat, m \in M PROVE m + 1 \in M
  <2> SUFFICES ASSUME NEW S \in SUBSET Templates, Left(S) < m + 1 PROVE Good(S)
    OBVIOUS
  <2>1. ASSUME NEW U \in SUBSET Templates, Left(U) < Left(S) PROVE Good(U)
    <3>1. Left(U) < m
      <4> PICK u, v : u = Left(U) /\ v = Left(S)
        OBVIOUS
      <4>1. u \in Nat /\ v \in Nat /\ u < v /\ v < m + 1
        BY <1>4, <2>1
      <4>2. u < m
        BY <4>1
      <4> QED BY <4>2
    <3> HIDE DEF Good
    <3> QED BY <1>7, <3>1
  <2>2. \A U \in SUBSET Templates : Left(U) < Left(S) => Good(U)
    <3> HIDE DEF Good
    <3> QED BY <2>1
  <2>3. \A x \in Templates : IF f[S][x] THEN Found(x) ELSE Missed(S, x)
    <3> HIDE DEF Good, Found, Missed, M
    <3> QED BY <1>6, <2>2
  <2> HIDE DEF Found, Missed
  <2> QED BY <2>3
<1>8. Nat \subseteq M
  <2> HIDE DEF M
  <2> QED BY <1>5, <1>7, Induction
<1>9. Good({})
  <2> PICK v : v = Left({})
    OBVIOUS
  <2>1. v \in Nat /\ v + 1 \in Nat /\ v < v + 1 /\ {} \in SUBSET Templates
    BY <1>4
  <2>2. v + 1 \in M
    <3> HIDE DEF M
    <3> QED BY <1>8, <2>1
  <2> HIDE DEF Good
  <2> QED BY <2>1, <2>2
<1>10. IsDescendantOf(templates, k, ancestor) = f[{}][k]
  BY DescendantIsWalk
<1>11. f[{}][k] \in BOOLEAN
  BY <1>1 DEF Descents
<1>12. CASE f[{}][k]
  <2>1. Found(k)
    <3> HIDE DEF Found, Missed
    <3> QED BY <1>9, <1>12
  <2> QED BY <1>10, <1>12, <2>1
<1>13. CASE ~f[{}][k]
  <2>1. Missed({}, k)
    <3> HIDE DEF Found, Missed
    <3> QED BY <1>9, <1>13
  <2>2. PICK T \in SUBSET Templates :
                next[k] \subseteq T \cup {} /\ ancestor \notin T /\ \A y \in T : next[y] \subseteq T \cup {}
    BY <2>1
  <2>3. next[k] \subseteq T /\ \A y \in T : next[y] \subseteq T
    BY <2>2
  <2>4. ~Found(k)
    BY <2>2, <2>3 DEF Reaches
  <2> HIDE DEF Good, M, Missed
  <2> QED BY <1>10, <1>13, <2>4
<1> QED BY <1>11, <1>12, <1>13

(***************************************************************************)
(* Inheritance as definition, lenses, super() and hover show it.           *)
(***************************************************************************)
\* A template of a project extends one template at most, by a name.
LEMMA IndexHasParents ==
  ASSUME IInv
  PROVE  HasParents(index) /\ ParentOf = ParentsIn(index) /\ OneWay(ParentOf)
<1>1. DOMAIN index = Templates
  BY DEF IInv, IsProject
<1>2. ASSUME NEW k \in Templates
      PROVE  AtMostOne(Extends(index[k])) /\ \A r \in Extends(index[k]) : r.path \in Seq(STRING)
  <2> PICK list : list = index[k].templateRefs
    OBVIOUS
  <2>1. IsText(texts[k]) /\ index[k] = Extract(texts[k])
    BY IndexIs
  <2>2. list = TemplateRefs(texts[k])
    BY <2>1 DEF Extract
  <2>3. list \in Seq(RefSet(texts[k])) /\ Elements(list) = RefSet(texts[k])
    BY <2>1, <2>2, TemplateRefsIs
  <2> PICK hits : hits = {i \in DOMAIN list : list[i].kind = "extends" /\ ~list[i].isDynamic}
    OBVIOUS
  <2>4. Extends(index[k]) = FirstOf(list, {i \in DOMAIN list : list[i].kind = "extends" /\ ~list[i].isDynamic})
    BY Zenon DEF Extends, Some, FirstOf
  <2>5. hits \in SUBSET Nat /\ hits \subseteq DOMAIN list
    BY <2>3
  <2>6. AtMostOne(FirstOf(list, hits))
    BY <2>5, FirstIsOne, SMTT(40) DEF FirstOf
  <2>7. FirstOf(list, hits) \subseteq Elements(list)
    BY <2>5, FoundIsListed
  <2>8. \A r \in RefSet(texts[k]) : r.path \in Seq(STRING)
    BY <2>1, RefIs
  <2> QED BY <2>3, <2>4, <2>6, <2>7, <2>8
<1>3. HasParents(index)
  BY <1>1, <1>2 DEF HasParents
<1>4. ParentOf = ParentsIn(index)
  BY Zenon DEF ParentOf, ParentsIn
<1> QED BY <1>3, <1>4, ParentsAre

\* A block that is found by its name is one of the template, and the name of one of them finds one.
LEMMA BlockNamedIs ==
  ASSUME IInv, NEW k \in Templates, NEW name
  PROVE  /\ BlockNamed(index[k], name) \subseteq Elements(index[k].blocks)
         /\ \A b \in Elements(index[k].blocks) : b.name = name => BlockNamed(index[k], name) # {}
<1> PICK list : list = index[k].blocks
  OBVIOUS
<1> PICK hits : hits = {i \in DOMAIN list : list[i].name = name}
  OBVIOUS
<1>1. BlockNamed(index[k], name) = FirstOf(list, {i \in DOMAIN list : list[i].name = name})
  BY Zenon DEF BlockNamed, Some, FirstOf
<1>2. FirstOf(list, hits) \subseteq Elements(list)
  BY FoundIsListed
<1>3. PICK S : list \in Seq(S)
  <2>1. IsText(texts[k]) /\ list = Blocks(texts[k], BuildScopeRegions(texts[k]))
    BY IndexIs
  <2> QED BY <2>1, BlocksType
<1>4. ASSUME NEW b \in Elements(list), b.name = name PROVE FirstOf(list, hits) # {}
  <2>1. hits # {} /\ hits \subseteq DOMAIN list
    BY <1>4 DEF Elements
  <2>2. IsFirst(list, hits, FirstOf(list, hits))
    BY <1>3, <2>1, FirstOfHits
  <2> QED BY <2>2 DEF IsFirst
<1> QED BY <1>1, <1>2, <1>4

\* What is found up a chain is a block of one of its templates.
LEMMA FoundInChain ==
  ASSUME NEW templates, NEW chain, NEW name, NEW p \in BlockInChain(templates, chain, name)
  PROVE  \E k \in Elements(chain) : \E b \in BlockNamed(templates[k], name) : p = Place(k, b.span)
<1> PICK found : found = Some(chain, LAMBDA c : BlockNamed(templates[c], name) # {})
  OBVIOUS
<1>1. BlockInChain(templates, chain, name) =
        UNION {{Place(k, b.span) : b \in BlockNamed(templates[k], name)} : k \in found}
  BY Zenon DEF BlockInChain
<1>2. Some(chain, LAMBDA c : BlockNamed(templates[c], name) # {})
        = FirstOf(chain, {i \in DOMAIN chain : BlockNamed(templates[chain[i]], name) # {}})
  BY Zenon DEF Some, FirstOf
<1> PICK hits : hits = {i \in DOMAIN chain : BlockNamed(templates[chain[i]], name) # {}}
  OBVIOUS
<1>3. found = FirstOf(chain, hits)
  BY <1>2
<1>4. FirstOf(chain, hits) \subseteq Elements(chain)
  BY FoundIsListed
<1>5. PICK k \in found : p \in {Place(k, b.span) : b \in BlockNamed(templates[k], name)}
  BY <1>1
<1> QED BY <1>3, <1>4, <1>5

\* The chain of a template of a project.
LEMMA ChainOfTemplate ==
  ASSUME IInv, NEW k \in Templates, NEW chain, chain = TemplateChain(index, k)
  PROVE  IsChain(ParentOf, {k}, chain)
<1>1. HasParents(index) /\ ParentOf = ParentsIn(index)
  BY IndexHasParents
<1>2. DOMAIN index = Templates
  BY DEF IInv, IsProject
<1>3. ResolveKey(index, k) = {k}
  BY <1>2, OwnName
<1>4. k \in Seq(STRING)
  BY TemplatesAreNames
<1>5. IsChain(ParentsIn(index), ResolveKey(index, k), TemplateChain(index, k))
  BY <1>1, <1>4, ChainOf
<1> QED BY <1>1, <1>3, <1>5

\* What the lens of a block leads to.
LEMMA LensesLead ==
  ASSUME NEW k, NEW name, NEW chain, chain = TemplateChain(index, k), chain # <<>>, NEW tail, tail = Tail(chain)
  PROVE  /\ LensTargets(index, k, "block", name, "overrides") = BlockInChain(index, tail, name)
         /\ LensTargets(index, k, "block", name, "extended") = DescendantOverrides(index, k, name)
         /\ LensTargets(index, k, "block", name, "references") = DescendantOverrides(index, k, name)
<1>1. AncestorBlock(index, k, name) =
        IF TemplateChain(index, k) = <<>> THEN {} ELSE BlockInChain(index, Tail(TemplateChain(index, k)), name)
  BY Zenon DEF AncestorBlock
<1>2. LensTargets(index, k, "block", name, "overrides") = AncestorBlock(index, k, name)
  BY Zenon DEF LensTargets
<1>3. "extended" # "overrides" /\ "references" # "overrides" /\ "block" # "macro"
  OBVIOUS
<1>4. LensTargets(index, k, "block", name, "extended") = DescendantOverrides(index, k, name)
  BY <1>3, Zenon DEF LensTargets
<1>5. LensTargets(index, k, "block", name, "references") = DescendantOverrides(index, k, name)
  BY <1>3, Zenon DEF LensTargets
<1> QED BY <1>1, <1>2, <1>4, <1>5

\* From another template a goal is reached through a step.
LEMMA ReachesByStep ==
  ASSUME NEW next, OneWay(next), NEW t \in Templates, NEW k \in Templates, t # k
  PROVE  Reaches(next, t, k) <=> \E p \in next[t] : Reaches(next, p, k)
<1>1. AtMostOne(next[t]) /\ next[t] \subseteq Templates
  BY DEF OneWay
<1>2. ASSUME NEW p \in next[t], Reaches(next, p, k) PROVE Reaches(next, t, k)
  BY <1>2 DEF Reaches
<1>3. ASSUME Reaches(next, t, k), ~\E p \in next[t] : Reaches(next, p, k) PROVE FALSE
  <2>1. CASE next[t] = {}
    <3>1. {t} \in SUBSET Templates /\ t \in {t} /\ (\A x \in {t} : next[x] \subseteq {t}) /\ k \notin {t}
      BY <2>1
    <3> QED BY <1>3, <3>1 DEF Reaches
  <2>2. ASSUME NEW p \in next[t] PROVE FALSE
    <3>1. PICK C \in SUBSET Templates : p \in C /\ (\A x \in C : next[x] \subseteq C) /\ k \notin C
      BY <1>3, <2>2 DEF Reaches
    <3>2. next[t] \subseteq C
      BY <1>1, <2>2, <3>1 DEF AtMostOne
    <3> PICK D : D = C \cup {t}
      OBVIOUS
    <3>3. D \in SUBSET Templates /\ t \in D /\ (\A x \in D : next[x] \subseteq D) /\ k \notin D
      BY <3>1, <3>2
    <3> QED BY <1>3, <3>3 DEF Reaches
  <2> QED BY <2>1, <2>2
<1> QED BY <1>2, <1>3

\* The walk of hover and the chain of the lenses find the same descendants, which reach the ancestor.
LEMMA DescendantsAre ==
  ASSUME IInv, NEW k \in Templates, NEW t \in Templates, t # k
  PROVE  /\ k \in Elements(TemplateChain(index, t)) <=> Reaches(ParentOf, t, k)
         /\ IsDescendantOf(index, t, k) <=> k \in Elements(TemplateChain(index, t))
<1>1. HasParents(index) /\ ParentOf = ParentsIn(index) /\ OneWay(ParentOf)
  BY IndexHasParents
<1> PICK next : next = ParentOf
  OBVIOUS
<1> PICK chain : chain = TemplateChain(index, t)
  OBVIOUS
<1>2. IsChain(next, {t}, chain)
  BY ChainOfTemplate
<1>3. k \in Elements(chain) <=> Reaches(next, t, k)
  BY <1>1, <1>2, ChainReaches
<1>4. IsDescendantOf(index, t, k) <=> \E p \in next[t] : Reaches(next, p, k)
  BY <1>1, DescendantReaches
<1>5. Reaches(next, t, k) <=> \E p \in next[t] : Reaches(next, p, k)
  BY <1>1, ReachesByStep
<1> QED BY <1>3, <1>4, <1>5

\* Hover and the lenses show the same overrides.
LEMMA OverridersAre ==
  ASSUME IInv, NEW k \in Templates, NEW name
  PROVE  FindBlockOverriders(index, k, name) = DescendantOverrides(index, k, name)
<1>1. DOMAIN index = Templates
  BY DEF IInv, IsProject
<1> DEFINE walked == {t \in DOMAIN index \ {k} : IsDescendantOf(index, t, k)}
           chained == {t \in DOMAIN index \ {k} : k \in Elements(TemplateChain(index, t))}
<1>2. walked = chained
  BY <1>1, DescendantsAre
<1>3. FindBlockOverriders(index, k, name) =
        UNION {{Place(t, b.span) : b \in BlockNamed(index[t], name)} : t \in walked}
  BY Zenon DEF FindBlockOverriders
<1>4. DescendantOverrides(index, k, name) =
        UNION {{Place(t, b.span) : b \in BlockNamed(index[t], name)} : t \in chained}
  BY Zenon DEF DescendantOverrides
<1> HIDE DEF walked, chained
<1> QED BY <1>2, <1>3, <1>4

\* The walk of super() and of hover from the parent, and that of the lenses from the template.
LEMMA AboveIs ==
  ASSUME IInv, NEW k \in Templates, ~InCycle(k), NEW name, NEW tail, tail = Tail(TemplateChain(index, k))
  PROVE  AboveBlock(index, index[k], name) = BlockInChain(index, tail, name)
<1>1. HasParents(index) /\ ParentOf = ParentsIn(index) /\ OneWay(ParentOf)
  BY IndexHasParents
<1> PICK next : next = ParentOf
  OBVIOUS
<1> PICK chain : chain = TemplateChain(index, k)
  OBVIOUS
<1>2. IsChain(next, {k}, chain)
  BY ChainOfTemplate
<1>3. IsChain(next, next[k], tail)
  <2>1. ~\E q \in next[k] : Reaches(next, q, k)
    BY DEF InCycle
  <2> QED BY <1>1, <1>2, <2>1, ChainTail
<1> PICK parent : parent = Extends(index[k])
  OBVIOUS
<1>4. next[k] = UNION {ResolveKey(index, r.path) : r \in parent}
  BY <1>1 DEF ParentsIn
<1>5. AtMostOne(parent) /\ \A r \in parent : r.path \in Seq(STRING)
  BY <1>1 DEF HasParents
<1>6. AboveBlock(index, index[k], name) = UNION {BlockInChain(index, TemplateChain(index, r.path), name) : r \in parent}
  BY DEF AboveBlock
<1>7. CASE parent = {}
  <2>1. next[k] = {}
    BY <1>4, <1>7
  <2>2. PICK m \in Nat : Chained(next, {}, tail, m)
    BY <1>3, <2>1, ChainedIs
  <2>3. Elements(tail) = {}
    <3>0. m > 0 => tail[1] \in {}
      BY <2>2, Zenon DEF Chained
    <3>1. m = 0
      BY <3>0
    <3>2. DOMAIN tail = 1 .. 0
      BY <2>2, <3>1 DEF Chained
    <3>3. DOMAIN tail = {}
      BY <3>2
    <3> QED BY <3>3 DEF Elements
  <2>4. BlockInChain(index, tail, name) = {}
    BY <2>3, FoundInChain
  <2> QED BY <1>6, <1>7, <2>4
<1>8. ASSUME NEW r \in parent PROVE AboveBlock(index, index[k], name) = BlockInChain(index, tail, name)
  <2>1. parent = {r}
    BY <1>5 DEF AtMostOne
  <2> PICK up : up = TemplateChain(index, r.path)
    OBVIOUS
  <2> PICK from : from = ResolveKey(index, r.path)
    OBVIOUS
  <2>2. next[k] = from
    BY <1>4, <2>1
  <2>3. IsChain(next, from, up)
    BY <1>1, <1>5, ChainOf
  <2>4. AtMostOne(from)
    BY <1>1, <2>2 DEF OneWay
  <2>5. up = tail
    BY <1>1, <1>3, <2>2, <2>3, <2>4, ChainIsUnique
  <2>6. AboveBlock(index, index[k], name) = BlockInChain(index, up, name)
    BY <1>6, <2>1
  <2> QED BY <2>5, <2>6
<1> QED BY <1>7, <1>8

\* The chain of a template starts at it, and what is above is other templates that it reaches.
LEMMA AboveAreOthers ==
  ASSUME IInv, NEW k \in Templates, NEW tail, tail = Tail(TemplateChain(index, k))
  PROVE  /\ TemplateChain(index, k) # <<>>
         /\ \A q \in Elements(tail) : q \in Templates /\ q # k /\ Reaches(ParentOf, k, q)
<1>1. OneWay(ParentOf)
  BY IndexHasParents
<1> PICK next : next = ParentOf
  OBVIOUS
<1> PICK chain : chain = TemplateChain(index, k)
  OBVIOUS
<1>2. IsChain(next, {k}, chain)
  BY ChainOfTemplate
<1>3. k \notin Elements(tail) /\ Elements(tail) \subseteq Elements(chain) /\ chain # <<>>
  BY <1>1, <1>2, ChainTail
<1>4. (\A x \in Templates : x \in Elements(chain) <=> Reaches(next, k, x)) /\ Elements(chain) \subseteq Templates
  BY <1>1, <1>2, ChainReaches
<1> QED BY <1>3, <1>4

\* There are finitely many overrides, each of another template, and they are blocks of the name.
LEMMA OverridesAreFinite ==
  ASSUME IInv, NEW k \in Templates, NEW name
  PROVE  IsFiniteSet(DescendantOverrides(index, k, name))
<1> PICK O : O = DescendantOverrides(index, k, name)
  OBVIOUS
<1>1. DOMAIN index = Templates
  BY DEF IInv, IsProject
<1>2. O = UNION {{Place(t, b.span) : b \in BlockNamed(index[t], name)} :
                   t \in {t \in DOMAIN index \ {k} : k \in Elements(TemplateChain(index, t))}}
  BY Zenon DEF DescendantOverrides
<1>3. ASSUME NEW p \in O
      PROVE  p.key \in Templates /\ \E b \in BlockNamed(index[p.key], name) : p = Place(p.key, b.span)
  <2>1. PICK t \in Templates : p \in {Place(t, b.span) : b \in BlockNamed(index[t], name)}
    BY <1>1, <1>2
  <2>2. p.key = t
    BY <2>1 DEF Place
  <2> QED BY <2>1, <2>2
<1>4. ASSUME NEW t \in Templates PROVE AtMostOne(BlockNamed(index[t], name))
  <2> PICK list : list = index[t].blocks
    OBVIOUS
  <2> PICK hits : hits = {i \in DOMAIN list : list[i].name = name}
    OBVIOUS
  <2>1. BlockNamed(index[t], name) = FirstOf(list, {i \in DOMAIN list : list[i].name = name})
    BY Zenon DEF BlockNamed, Some, FirstOf
  <2>2. hits \in SUBSET Nat
    <3>1. IsText(texts[t]) /\ list = Blocks(texts[t], BuildScopeRegions(texts[t]))
      BY IndexIs
    <3>2. PICK S : list \in Seq(S)
      BY <3>1, BlocksType
    <3> QED BY <3>2
  <2>3. AtMostOne(FirstOf(list, hits))
    BY <2>2, FirstIsOne DEF FirstOf
  <2> QED BY <2>1, <2>3
<1>5. ASSUME NEW p \in O, NEW q \in O, p.key = q.key PROVE p = q
  <2>1. PICK b \in BlockNamed(index[p.key], name) : p = Place(p.key, b.span)
    BY <1>3
  <2>2. PICK d \in BlockNamed(index[p.key], name) : q = Place(p.key, d.span)
    BY <1>3, <1>5
  <2>3. b = d
    BY <1>3, <1>4, <2>1, <2>2 DEF AtMostOne
  <2> QED BY <2>1, <2>2, <2>3
<1> DEFINE f == [p \in O |-> p.key]
<1>6. f \in Injection(O, Templates)
  BY <1>3, <1>5 DEF Injection, IsInjective
<1> HIDE DEF f
<1>7. IsFiniteSet(O)
  BY <1>6, TemplatesAreFinite, FS_Injection
<1> QED BY <1>7

\* What a block overrides counts it among its overrides.
LEMMA OverriddenCounts ==
  ASSUME IInv, NEW k \in Templates, NEW b \in Elements(index[k].blocks),
         NEW p \in LensTargets(index, k, "block", b.name, "overrides")
  PROVE  /\ \E o \in LensTargets(index, p.key, "block", b.name, "extended") : o.key = k
         /\ ReferenceCount(index, p.key, "block", b.name) > 0
<1> PICK name : name = b.name
  OBVIOUS
<1> PICK chain : chain = TemplateChain(index, k)
  OBVIOUS
<1> PICK tail : tail = Tail(chain)
  OBVIOUS
<1>1. DOMAIN index = Templates
  BY DEF IInv, IsProject
<1>2. chain # <<>> /\ \A q \in Elements(tail) : q \in Templates /\ q # k /\ Reaches(ParentOf, k, q)
  BY AboveAreOthers
<1>3. LensTargets(index, k, "block", name, "overrides") = BlockInChain(index, tail, name)
  BY <1>2, LensesLead
<1>4. PICK q \in Elements(tail) : \E d \in BlockNamed(index[q], name) : p = Place(q, d.span)
  <2>1. p \in BlockInChain(index, tail, name)
    BY <1>3
  <2> QED BY <2>1, FoundInChain
<1>5. p.key = q /\ q \in Templates /\ q # k /\ Reaches(ParentOf, k, q)
  BY <1>2, <1>4 DEF Place
<1> PICK O : O = DescendantOverrides(index, q, name)
  OBVIOUS
<1>6. /\ LensTargets(index, q, "block", name, "extended") = O
      /\ LensTargets(index, q, "block", name, "references") = O
  <2>1. TemplateChain(index, q) # <<>>
    BY <1>5, AboveAreOthers
  <2> PICK c, t : c = TemplateChain(index, q) /\ t = Tail(c)
    OBVIOUS
  <2> QED BY <2>1, LensesLead
<1>7. PICK e \in BlockNamed(index[k], name) : TRUE
  BY BlockNamedIs
<1> PICK o : o = Place(k, e.span)
  OBVIOUS
<1>8. o \in O /\ o.key = k
  <2>1. q \in Elements(TemplateChain(index, k))
    BY <1>5, DescendantsAre
  <2>2. k \in {t \in DOMAIN index \ {q} : q \in Elements(TemplateChain(index, t))}
    BY <1>1, <1>5, <2>1
  <2>3. o \in {Place(k, x.span) : x \in BlockNamed(index[k], name)}
    OBVIOUS
  <2>4. o.key = k
    BY DEF Place
  <2> QED BY <2>2, <2>3, <2>4 DEF DescendantOverrides
<1>9. Cardinality(O) \in Nat /\ Cardinality(O) > 0
  <2>1. IsFiniteSet(O)
    BY <1>5, OverridesAreFinite
  <2>2. Cardinality(O) \in Nat
    BY <2>1, FS_CardinalityType
  <2>3. Cardinality(O) # 0
    BY <1>8, <2>1, FS_EmptySet
  <2> QED BY <2>2, <2>3
<1>10. SymbolExists(index, q, "block", name)
  BY <1>1, <1>4, <1>5 DEF SymbolExists
<1>11. ReferenceCount(index, q, "block", name) = Cardinality(O)
  BY <1>6, <1>10 DEF ReferenceCount
<1> QED BY <1>5, <1>6, <1>8, <1>9, <1>11

\* The card of a block and its lenses agree.
LEMMA ProjectHoversAgree == IInv => HoverAgreesWithLenses
<1> SUFFICES ASSUME IInv, NEW k \in Templates, NEW b \in Elements(index[k].blocks)
             PROVE  /\ ~InCycle(k) => FindParentBlock(index, k, b.name) = LensTargets(index, k, "block", b.name, "overrides")
                    /\ FindBlockOverriders(index, k, b.name) = LensTargets(index, k, "block", b.name, "extended")
  BY DEF HoverAgreesWithLenses
<1> PICK name : name = b.name
  OBVIOUS
<1> PICK chain, tail : chain = TemplateChain(index, k) /\ tail = Tail(chain)
  OBVIOUS
<1>1. chain # <<>>
  BY AboveAreOthers
<1>2. /\ LensTargets(index, k, "block", name, "overrides") = BlockInChain(index, tail, name)
      /\ LensTargets(index, k, "block", name, "extended") = DescendantOverrides(index, k, name)
  BY <1>1, LensesLead
<1>3. FindBlockOverriders(index, k, name) = DescendantOverrides(index, k, name)
  BY OverridersAre
<1>4. ASSUME ~InCycle(k) PROVE AboveBlock(index, index[k], name) = BlockInChain(index, tail, name)
  BY <1>4, AboveIs
<1> QED BY <1>2, <1>3, <1>4 DEF FindParentBlock

\* Lists of block facts that stand at the tags that declare them.
Tagged(text, regions) ==
  {s \in Seq(BlockSet(text, regions)) :
     \A b \in DOMAIN s : \E i \in Tags(text, {"block"}) : s[b].span = Statement(i) /\ s[b].name = text[i].names[1]}

\* Closing a block by name leaves every block at its tag.
LEMMA CloseKeepsTags ==
  ASSUME NEW text, IsText(text), NEW regions, NEW i \in Tags(text, {"named_endblock"}), NEW s \in Tagged(text, regions)
  PROVE  CloseByName(text, s, i) \in Tagged(text, regions)
<1> DEFINE B == BlockSet(text, regions)
           waiting == {b \in DOMAIN s :
                         /\ s[b].name = text[i].names[1]
                         /\ s[b].body = NoSpan
                         /\ TagEnd(TagOf(s[b].span.lo)) < TagStart(i)}
           nearest == CHOOSE b \in waiting : \A w \in waiting : w <= b
           body == Span(TagEnd(TagOf(s[nearest].span.lo)), TagStart(i))
           changed == [s[nearest] EXCEPT !.body = body, !.endName = Name(i, 1)]
           new == [s EXCEPT ![nearest] = changed]
<1>1. CloseByName(text, s, i) = IF waiting = {} THEN s ELSE new
  BY Zenon DEF CloseByName
<1>2. s \in Seq(B) /\ \A b \in DOMAIN s : \E j \in Tags(text, {"block"}) :
                        s[b].span = Statement(j) /\ s[b].name = text[j].names[1]
  BY DEF Tagged
<1>3. CloseByName(text, s, i) \in Seq(B)
  BY <1>2, CloseByNameType
<1> HIDE DEF B, waiting, nearest, body
<1>4. ASSUME NEW b \in DOMAIN s PROVE new[b].span = s[b].span /\ new[b].name = s[b].name
  <2>1. CASE b = nearest
    <3>1. s[b] \in B
      BY <1>2
    <3>2. changed.span = s[b].span /\ changed.name = s[b].name
      BY <2>1, <3>1, ClosedBlockKeeps DEF B, BlockSet
    <3> HIDE DEF changed
    <3> QED BY <2>1, <3>2
  <2>2. CASE b # nearest
    BY <2>2
  <2> QED BY <2>1, <2>2
<1>5. DOMAIN new = DOMAIN s
  OBVIOUS
<1> HIDE DEF new
<1>6. CASE waiting = {}
  BY <1>1, <1>6
<1>7. CASE waiting # {}
  <2>1. new \in Seq(B) /\ CloseByName(text, s, i) = new
    BY <1>1, <1>3, <1>7
  <2>2. \A b \in DOMAIN new : \E j \in Tags(text, {"block"}) :
          new[b].span = Statement(j) /\ new[b].name = text[j].names[1]
    BY <1>2, <1>4, <1>5
  <2> QED BY <2>1, <2>2 DEF Tagged, B
<1> QED BY <1>6, <1>7

\* A block is at the tag that declares it.
LEMMA BlockIs ==
  ASSUME IInv, NEW k \in Templates, NEW b \in Elements(index[k].blocks)
  PROVE  \E i \in Tags(texts[k], {"block"}) : i \in Nat /\ b.span = Statement(i) /\ b.name = texts[k][i].names[1]
<1> PICK text : text = texts[k]
  OBVIOUS
<1> PICK regions : regions = BuildScopeRegions(text)
  OBVIOUS
<1> PICK T : T = Tagged(text, regions)
  OBVIOUS
<1>1. IsText(text) /\ index[k].blocks = Blocks(text, regions)
  BY IndexIs
<1>2. PICK n \in Nat : n = Len(text) /\ DOMAIN text = 1 .. n
  BY <1>1 DEF IsText
<1>3. PICK closed : Closing(text, regions, n, closed)
  BY <1>1, <1>2, BlocksByTag
<1>4. closed[0] \in T
  <2> PICK s : s = DeclaredBlocks(text, regions)
    OBVIOUS
  <2> PICK A, F : A = Tags(text, {"block"}) /\ F = [i \in DOMAIN text |-> DeclaredBlock(text, regions, i)]
    OBVIOUS
  <2>1. s \in Seq(BlockSet(text, regions))
    BY <1>1, DeclaredBlocksType
  <2>2. PICK m, at : Lists(s, m, at, A, F)
    BY <1>1, DeclaredAreListed
  <2>3. ASSUME NEW c \in DOMAIN s PROVE \E i \in A : s[c] = F[i]
    BY <2>2, <2>3 DEF Lists
  <2>4. \A i \in A : F[i].span = Statement(i) /\ F[i].name = text[i].names[1]
    BY DEF DeclaredBlock, Tags
  <2>5. \A c \in DOMAIN s : \E i \in A : s[c].span = Statement(i) /\ s[c].name = text[i].names[1]
    BY <2>3, <2>4
  <2>6. s \in Tagged(text, regions)
    BY <2>1, <2>5 DEF Tagged
  <2> QED BY <1>3, <2>6 DEF Closing
<1>5. ASSUME NEW i \in 1 .. n, closed[i - 1] \in T PROVE closed[i] \in T
  <2>1. closed[i] = IF text[i].kind = "named_endblock" THEN CloseByName(text, closed[i - 1], i) ELSE closed[i - 1]
    BY <1>3 DEF Closing
  <2>2. ASSUME text[i].kind = "named_endblock" PROVE CloseByName(text, closed[i - 1], i) \in T
    <3>1. i \in Tags(text, {"named_endblock"})
      BY <1>2, <2>2 DEF Tags
    <3> QED BY <1>1, <1>5, <3>1, CloseKeepsTags
  <2> QED BY <1>5, <2>1, <2>2
<1>6. closed[n] \in T
  BY <1>4, <1>5, RecursionType
<1>7. index[k].blocks \in T
  BY <1>1, <1>3, <1>6 DEF Closing
<1>8. PICK i \in Tags(text, {"block"}) : b.span = Statement(i) /\ b.name = text[i].names[1]
  BY <1>7 DEF Tagged, Elements
<1>9. i \in Nat
  BY <1>1 DEF Tags, IsText
<1> QED BY <1>8, <1>9

\* A name of no import has no imported definition.
LEMMA NotImported ==
  ASSUME NEW k, NEW name, ~ImportedHere(k, name), NEW facts, facts = index[k]
  PROVE  ImportedDefinition(index, facts, name) = {}
<1> PICK list : list = facts.fromImports
  OBVIOUS
<1> DEFINE imported(fi) == Some(fi.names, LAMBDA n : n.name = name \/ n.alias = name)
           fis == Some(list, LAMBDA f : \E n \in Elements(f.names) : n.name = name \/ n.alias = name)
           hits == {i \in DOMAIN list : \E n \in Elements(list[i].names) : n.name = name \/ n.alias = name}
<1>1. ImportedDefinition(index, facts, name) =
        UNION {UNION {{Place(m.key, m.macro.span) : m \in Imported(index, fi, n.name)} : n \in imported(fi)} : fi \in fis}
  BY Zenon DEF ImportedDefinition
<1>2. fis = FirstOf(list, hits)
  BY Zenon DEF Some, FirstOf
<1>3. hits = {}
  BY DEF ImportedHere, Elements
<1> HIDE DEF fis, hits, imported
<1>4. fis = {}
  BY <1>2, <1>3 DEF FirstOf
<1> QED BY <1>1, <1>4

\* What one block overrides.
LEMMA OverridesOfOne ==
  ASSUME NEW templates, NEW x
  PROVE  /\ \A chain : UNION {BlockInChain(templates, chain, d.name) : d \in {x}} = BlockInChain(templates, chain, x.name)
         /\ \A facts : UNION {AboveBlock(templates, facts, d.name) : d \in {x}} = AboveBlock(templates, facts, x.name)
OBVIOUS

\* The byte is that of a name of the tag.
InTag(i, byte) == i \in Nat /\ \E n \in 1 .. 6 : byte = 8 * i + n

\* At a byte in the tag of a block the jump goes to what that block overrides, elsewhere nowhere.
LEMMA OverriddenAtTag ==
  ASSUME IInv, NEW k \in Templates, NEW i, NEW byte, InTag(i, byte),
         NEW tail, tail = Tail(TemplateChain(index, k))
  PROVE  /\ \A b \in Elements(index[k].blocks) :
              b.span = Statement(i) => OverriddenBlock(index, k, byte) = BlockInChain(index, tail, b.name)
         /\ texts[k][i].kind # "block" => OverriddenBlock(index, k, byte) = {}
<1>0. PICK n \in 1 .. 6 : i \in Nat /\ byte = 8 * i + n
  BY DEF InTag
<1> PICK list : list = index[k].blocks
  OBVIOUS
<1> PICK within : within = Some(index[k].blocks, LAMBDA c : ByteIn(byte, c.span))
  OBVIOUS
<1> PICK hits : hits = {j \in DOMAIN list : ByteIn(byte, list[j].span)}
  OBVIOUS
<1>1. OverriddenBlock(index, k, byte) =
        UNION {BlockInChain(index, Tail(TemplateChain(index, k)), b.name) : b \in within}
  BY Zenon DEF OverriddenBlock
<1>2. within = FirstOf(list, hits)
  <2>1. Some(index[k].blocks, LAMBDA c : ByteIn(byte, c.span))
          = FirstOf(index[k].blocks, {j \in DOMAIN index[k].blocks : ByteIn(byte, index[k].blocks[j].span)})
    BY Zenon DEF Some, FirstOf
  <2> QED BY <2>1
<1>3. ASSUME NEW b \in Elements(list)
      PROVE  /\ ByteIn(byte, b.span) <=> b.span = Statement(i)
             /\ b.span = Statement(i) => texts[k][i].kind = "block" /\ b.name = texts[k][i].names[1]
  <2>1. PICK h \in Tags(texts[k], {"block"}) : h \in Nat /\ b.span = Statement(h) /\ b.name = texts[k][h].names[1]
    BY BlockIs
  <2>2. Statement(h).lo = 8 * h /\ Statement(h).hi = 8 * h + 7 /\ (Statement(i) = Statement(h) => i = h)
    BY <1>0, <2>1, PlacesDiffer
  <2>3. ByteIn(byte, Statement(h)) => h = i
    BY <1>0, <2>1, <2>2 DEF ByteIn
  <2>4. h = i => ByteIn(byte, Statement(h))
    BY <1>0, <2>1, <2>2 DEF ByteIn
  <2> QED BY <2>1, <2>2, <2>3, <2>4 DEF Tags
<1>4. hits \subseteq DOMAIN list /\ \A j \in hits : list[j] \in Elements(list) /\ ByteIn(byte, list[j].span)
  BY DEF Elements
<1>5. ASSUME NEW b \in Elements(list), b.span = Statement(i)
      PROVE  OverriddenBlock(index, k, byte) = BlockInChain(index, tail, b.name)
  <2>1. hits # {}
    <3>1. PICK j \in DOMAIN list : list[j] = b
      BY DEF Elements
    <3> QED BY <1>3, <1>5, <3>1
  <2>2. PICK S : list \in Seq(S)
    <3>1. IsText(texts[k]) /\ list = Blocks(texts[k], BuildScopeRegions(texts[k]))
      BY IndexIs
    <3> QED BY <3>1, BlocksType
  <2>3. IsFirst(list, hits, FirstOf(list, hits))
    BY <1>4, <2>1, <2>2, FirstOfHits
  <2>4. PICK j \in hits : within = {list[j]}
    BY <1>2, <2>3 DEF IsFirst
  <2>5. list[j].name = b.name
    BY <1>3, <1>4, <1>5
  <2>6. OverriddenBlock(index, k, byte) = BlockInChain(index, tail, list[j].name)
    <3> PICK x, T : x = list[j] /\ T = Tail(TemplateChain(index, k))
      OBVIOUS
    <3>1. UNION {BlockInChain(index, T, d.name) : d \in {x}} = BlockInChain(index, T, x.name)
      BY OverridesOfOne
    <3>2. OverriddenBlock(index, k, byte) = UNION {BlockInChain(index, T, d.name) : d \in within}
      BY <1>1
    <3>3. within = {x}
      BY <2>4
    <3>4. OverriddenBlock(index, k, byte) = UNION {BlockInChain(index, T, d.name) : d \in {x}}
      BY <3>2, <3>3
    <3> QED BY <3>1, <3>4
  <2> QED BY <2>5, <2>6
<1>6. ASSUME texts[k][i].kind # "block" PROVE OverriddenBlock(index, k, byte) = {}
  <2>1. hits = {}
    BY <1>3, <1>4, <1>6
  <2>2. within = {}
    BY <1>2, <2>1 DEF FirstOf
  <2> QED BY <1>1, <2>2
<1> QED BY <1>5, <1>6

\* The parts of go to definition.
JumpKinds(c) == {r.kind : r \in Elements(UsesAt(index[c.key], Byte(c)))}
JumpPlain(c) ==
  IF JumpKinds(c) \cap {"function", "identifier"} = {} THEN {}
  ELSE ResolveIdent(index, c.key, Word(texts[c.key], c), Byte(c))
JumpMember(c) ==
  IF "attribute" \notin JumpKinds(c) THEN {}
  ELSE IF texts[c.key][c.tag].names[1] = "self" THEN ResolveSelfBlock(index, c.key, Word(texts[c.key], c))
  ELSE ResolveAliasAttr(index, index[c.key], texts[c.key][c.tag].names[1], Word(texts[c.key], c))
AfterSelf(c) ==
  texts[c.key][c.tag].kind = "invoke_member" /\ texts[c.key][c.tag].names[1] = "self" /\ c.token = 2
JumpOnward(c) ==
  FirstFound(<<ImportedDefinition(index, index[c.key], Word(texts[c.key], c)),
               OverriddenBlock(index, c.key, Byte(c))>>)

\* Go to definition tries them in order.
LEMMA JumpInOrder ==
  ASSUME NEW c
  PROVE  GoToDefinition(texts, index, c) =
           IF JumpKinds(c) \cap {"filter", "test"} # {} THEN {}
           ELSE IF JumpPlain(c) \cup JumpMember(c) # {} THEN FirstFound(<<JumpPlain(c), JumpMember(c)>>)
           ELSE IF AfterSelf(c) THEN ResolveSelfBlock(index, c.key, Word(texts[c.key], c))
           ELSE JumpOnward(c)
BY DEF GoToDefinition, JumpKinds, JumpPlain, JumpMember, AfterSelf, JumpOnward

\* The cursor on the name in the tag of a block is on no use.
LEMMA BlockHeader ==
  ASSUME IInv, NEW k \in Templates, NEW i \in Tags(texts[k], {"block"}), i \in Nat,
         NEW c, c = [key |-> k, tag |-> i, token |-> 1]
  PROVE  Elements(UsesAt(index[k], Byte(c))) = {} /\ Word(texts[k], c) = texts[k][i].names[1] /\ Byte(c) = 8 * i + 1
<1> PICK text : text = texts[k]
  OBVIOUS
<1>1. IsText(text) /\ index[k].references = References(text)
  BY IndexIs
<1>2. i \in DOMAIN text /\ text[i].kind = "block"
  BY DEF Tags
<1>3. Written(text[i])
  BY <1>1, <1>2, TagsAreWritten
<1>4. Len(text[i].names) \in Nat /\ Len(text[i].aliases) \in Nat /\ Len(text[i].names) > 0
  <2>1. text[i].names \in Seq(STRING) /\ text[i].names # <<>>
    BY <1>2, <1>3 DEF Written, NamingKinds
  <2>2. Len(text[i].names) \in Nat /\ Len(text[i].aliases) \in Nat
    BY <1>3, TokensFit
  <2> QED BY <2>1, <2>2
<1>5. Word(text, c) = text[i].names[1] /\ 1 \in Tokens(text[i])
  <2>1. 1 <= Len(text[i].names) /\ 1 \in 1 .. Len(text[i].names) + Len(text[i].aliases)
    BY <1>4, TokenPlaces
  <2>2. Word(text, c) = Token(text[i], 1)
    BY DEF Word
  <2> QED BY <2>1, <2>2, Zenon DEF Token, Tokens
<1>6. c \in CursorsIn(k)
  <2> DEFINE P == {p \in (DOMAIN text) \X (1 .. Width - 3) : p[2] \in Tokens(text[p[1]])}
             t == <<i, 1>>
  <2>1. t \in P /\ t[1] = i /\ t[2] = 1
    BY <1>2, <1>5 DEF Width
  <2>2. CursorsIn(k) = {[key |-> k, tag |-> p[1], token |-> p[2]] : p \in P}
    BY DEF CursorsIn
  <2> HIDE DEF P, t
  <2> QED BY <2>1, <2>2
<1>7. 1 \in 1 .. 7 /\ c.key = k /\ c.tag = i /\ c.token = 1
  OBVIOUS
<1>8. Name(i, 1).lo = 8 * i + 1
  BY <1>7, TagOfName
<1>9. Byte(c) = 8 * i + 1
  BY <1>7, <1>8 DEF Byte
<1>10. ASSUME NEW u \in Elements(UsesAt(index[k], Byte(c))) PROVE FALSE
  <2>1. u \in Elements(References(text)) /\ u.span = Name(i, 1)
    BY <1>1, <1>6, <1>7, CursorUse
  <2>2. PICK q \in Tags(text, ReferenceKinds), j \in 1 .. 6 : u.span = Name(q, j)
    BY <1>1, <2>1, ReferenceIs
  <2>3. q \in Nat /\ text[q].kind \in ReferenceKinds /\ j \in 1 .. 7
    BY <1>1 DEF Tags, IsText
  <2>4. Name(q, j).lo = 8 * q + j
    BY <2>3, TagOfName
  <2>5. q = i
    BY <1>8, <2>1, <2>2, <2>3, <2>4
  <2> QED BY <1>2, <2>3, <2>5 DEF ReferenceKinds, Qualified, CallKinds
<1> QED BY <1>5, <1>9, <1>10

\* The jump from the name of a block goes to what it overrides.
LEMMA HeaderJumps ==
  ASSUME IInv, NEW k \in Templates, NEW b \in Elements(index[k].blocks), ~ImportedHere(k, b.name),
         NEW span, span = DefinitionName(b),
         NEW c, c = [key |-> k, tag |-> TagOf(span.lo), token |-> TokenOf(span.lo)],
         NEW tail, tail = Tail(TemplateChain(index, k))
  PROVE  GoToDefinition(texts, index, c) = BlockInChain(index, tail, b.name)
<1>1. PICK i \in Tags(texts[k], {"block"}) : i \in Nat /\ b.span = Statement(i) /\ b.name = texts[k][i].names[1]
  BY BlockIs
<1>2. span.lo = 8 * i + 1
  <2>1. Statement(i).lo = 8 * i
    BY <1>1, PlacesDiffer
  <2> QED BY <1>1, <2>1 DEF DefinitionName, Span
<1>3. c = [key |-> k, tag |-> i, token |-> 1]
  <2>1. (8 * i + 1) \div 8 = i /\ (8 * i + 1) % 8 = 1
    BY <1>1
  <2> QED BY <1>2, <2>1 DEF TagOf, TokenOf, Width
<1>4. Elements(UsesAt(index[k], Byte(c))) = {} /\ Word(texts[k], c) = b.name /\ Byte(c) = 8 * i + 1
  BY <1>1, <1>3, BlockHeader
<1>5. c.key = k /\ c.tag = i /\ c.token = 1
  BY <1>3
<1>6. JumpKinds(c) = {}
  BY <1>4, <1>5 DEF JumpKinds
<1>7. JumpPlain(c) = {} /\ JumpMember(c) = {}
  BY <1>6 DEF JumpPlain, JumpMember
<1>8. ~AfterSelf(c)
  BY <1>5 DEF AfterSelf
<1>9. GoToDefinition(texts, index, c) = JumpOnward(c)
  <2>1. JumpKinds(c) \cap {"filter", "test"} = {} /\ JumpPlain(c) \cup JumpMember(c) = {}
    BY <1>6, <1>7
  <2> QED BY <1>8, <2>1, JumpInOrder
<1> PICK byte : byte = Byte(c)
  OBVIOUS
<1>10. ImportedDefinition(index, index[k], b.name) = {}
  BY NotImported
<1>11. OverriddenBlock(index, k, byte) = BlockInChain(index, tail, b.name)
  <2>1. InTag(i, byte)
    BY <1>1, <1>4 DEF InTag
  <2>2. \A d \in Elements(index[k].blocks) :
          d.span = Statement(i) => OverriddenBlock(index, k, byte) = BlockInChain(index, tail, d.name)
    BY <2>1, OverriddenAtTag
  <2> QED BY <1>1, <2>2
<1>12. JumpOnward(c) = FirstFound(<<ImportedDefinition(index, index[k], b.name), OverriddenBlock(index, k, byte)>>)
  BY <1>4, <1>5 DEF JumpOnward
<1> QED BY <1>9, <1>10, <1>11, <1>12, FirstOfPair

\* The first block with a byte in its body.
BlocksAround(list, byte) == Some(list, LAMBDA d : ByteIn(byte, d.body))

\* What resolves a call of super() is what the block around it overrides.
LEMMA SuperIsAbove ==
  ASSUME IInv, NEW k \in Templates, NEW byte, NEW b \in BlocksAround(index[k].blocks, byte)
  PROVE  ResolveSuper(index, k, byte) = AboveBlock(index, index[k], b.name)
<1> PICK list : list = index[k].blocks
  OBVIOUS
<1> PICK within : within = BlocksAround(list, byte)
  OBVIOUS
<1> PICK hits : hits = {j \in DOMAIN list : ByteIn(byte, list[j].body)}
  OBVIOUS
<1>1. ResolveSuper(index, k, byte) =
        UNION {AboveBlock(index, index[k], d.name) : d \in BlocksAround(index[k].blocks, byte)}
  BY Zenon DEF ResolveSuper, BlocksAround
<1>2. BlocksAround(list, byte) = FirstOf(list, {j \in DOMAIN list : ByteIn(byte, list[j].body)})
  BY Zenon DEF BlocksAround, Some, FirstOf
<1>3. hits \in SUBSET Nat
  <2>1. IsText(texts[k]) /\ list = Blocks(texts[k], BuildScopeRegions(texts[k]))
    BY IndexIs
  <2>2. PICK S : list \in Seq(S)
    BY <2>1, BlocksType
  <2> QED BY <2>2
<1>4. AtMostOne(FirstOf(list, hits))
  BY <1>3, FirstIsOne DEF FirstOf
<1>5. within = {b}
  BY <1>2, <1>4 DEF AtMostOne
<1> PICK facts : facts = index[k]
  OBVIOUS
<1>6. ResolveSuper(index, k, byte) = UNION {AboveBlock(index, facts, d.name) : d \in within}
  BY <1>1
<1>7. UNION {AboveBlock(index, facts, d.name) : d \in {b}} = AboveBlock(index, facts, b.name)
  BY OverridesOfOne
<1> QED BY <1>5, <1>6, <1>7

\* The cursor is on a call of super() in the body of a block.
AtSuper(k, b, r, c) ==
  /\ k \in Templates /\ b \in BlocksAround(index[k].blocks, r.span.lo)
  /\ r \in Refs(index[k], {"function"}) /\ r.name = "super" /\ texts[k][TagOf(r.span.lo)].kind # "invoke_member"
  /\ c = [key |-> k, tag |-> TagOf(r.span.lo), token |-> TokenOf(r.span.lo)]

\* The jump from super() goes to what the block around it overrides.
LEMMA SuperJumps ==
  ASSUME IInv, NEW k, NEW b, NEW r, NEW c, AtSuper(k, b, r, c), ~InCycle(k), ~ImportedHere(k, "super"),
         NEW tail, tail = Tail(TemplateChain(index, k))
  PROVE  GoToDefinition(texts, index, c) = BlockInChain(index, tail, b.name)
<1>0. /\ k \in Templates /\ b \in BlocksAround(index[k].blocks, r.span.lo)
      /\ r \in Refs(index[k], {"function"}) /\ r.name = "super" /\ texts[k][TagOf(r.span.lo)].kind # "invoke_member"
      /\ c = [key |-> k, tag |-> TagOf(r.span.lo), token |-> TokenOf(r.span.lo)]
  BY DEF AtSuper
<1>1. CallAt(k, c, r)
  BY <1>0, CallHasCursor
<1>2. /\ Elements(UsesAt(index[k], Byte(c))) = {r} /\ Word(texts[k], c) = "super" /\ r.span = Here(c)
      /\ texts[k][c.tag].kind \in CallKinds /\ r.kind = "function" /\ c \in CursorsIn(k)
      /\ r \in Elements(UsesAt(index[k], Byte(c)))
  <2>1. r.name = Word(texts[k], c) /\ r.span = Here(c) /\ texts[k][c.tag].kind \in CallKinds
    BY <1>1, CallIsAlone
  <2>2. Elements(UsesAt(index[k], Byte(c))) = {r}
    BY <1>1, CallIsAlone
  <2>3. r.kind = "function" /\ c \in CursorsIn(k)
    BY <1>1 DEF CallAt
  <2> QED BY <1>0, <2>1, <2>2, <2>3
<1> PICK byte : byte = Byte(c)
  OBVIOUS
<1>3. byte = r.span.lo /\ c.key = k
  BY <1>0, <1>2 DEF Here, Byte
<1>4. JumpKinds(c) = {"function"}
  BY <1>2, <1>3 DEF JumpKinds
<1>5. JumpMember(c) = {} /\ JumpPlain(c) = ResolveIdent(index, k, "super", byte)
  BY <1>2, <1>3, <1>4 DEF JumpMember, JumpPlain
<1>6. ~AfterSelf(c)
  BY <1>0, <1>3 DEF AfterSelf
<1> PICK above : above = BlockInChain(index, tail, b.name)
  OBVIOUS
<1>7. ResolveIdent(index, k, "super", byte) = ResolveSuper(index, k, byte)
  BY Zenon DEF ResolveIdent
<1>8. ResolveSuper(index, k, byte) = AboveBlock(index, index[k], b.name)
  <2>1. b \in BlocksAround(index[k].blocks, byte)
    BY <1>0, <1>3
  <2> QED BY <1>0, <2>1, SuperIsAbove
<1> PICK name : name = b.name
  OBVIOUS
<1>9. AboveBlock(index, index[k], name) = above
  BY <1>0, AboveIs
<1>10. JumpPlain(c) = above
  BY <1>5, <1>7, <1>8, <1>9
<1>11. JumpKinds(c) \cap {"filter", "test"} = {}
  BY <1>4
<1>12. CASE above # {}
  <2>1. FirstFound(<<JumpPlain(c), JumpMember(c)>>) = JumpPlain(c)
    BY <1>10, <1>12, FirstOfPair
  <2> QED BY <1>10, <1>11, <1>12, <2>1, JumpInOrder
<1>13. CASE above = {}
  <2>1. GoToDefinition(texts, index, c) = JumpOnward(c)
    BY <1>5, <1>6, <1>10, <1>11, <1>13, JumpInOrder
  <2>2. ImportedDefinition(index, index[k], "super") = {}
    BY NotImported
  <2>3. OverriddenBlock(index, k, byte) = {}
    <3> PICK i, n : i = c.tag /\ n = c.token
      OBVIOUS
    <3>1. i \in Nat /\ n \in 1 .. 6 /\ n \in 1 .. 7 /\ byte = Name(i, n).lo
      BY <1>0, <1>2, CursorUse
    <3>2. byte = 8 * i + n
      BY <3>1, TagOfName
    <3>3. texts[k][i].kind # "block"
      BY <1>2 DEF CallKinds
    <3>4. InTag(i, byte)
      BY <3>1, <3>2 DEF InTag
    <3> QED BY <1>0, <3>3, <3>4, OverriddenAtTag
  <2>4. JumpOnward(c) = FirstFound(<<ImportedDefinition(index, index[k], "super"), OverriddenBlock(index, k, byte)>>)
    BY <1>2, <1>3 DEF JumpOnward
  <2>5. JumpOnward(c) = {}
    BY <2>2, <2>3, <2>4, FirstOfPair
  <2> QED BY <1>13, <2>1, <2>5
<1> QED BY <1>12, <1>13

\* What overrides and what is overridden see each other.
LEMMA ProjectInheritsMutually == IInv => InheritanceIsMutual
<1> SUFFICES ASSUME IInv, NEW k \in Templates, NEW b \in Elements(index[k].blocks),
                    NEW above, above = LensTargets(index, k, "block", b.name, "overrides")
             PROVE  /\ \A p \in above :
                         /\ \E o \in LensTargets(index, p.key, "block", b.name, "extended") : o.key = k
                         /\ ReferenceCount(index, p.key, "block", b.name) > 0
                    /\ ~ImportedHere(k, b.name) =>
                         GoToDefinition(texts, index, [key |-> k, tag |-> TagOf(DefinitionName(b).lo),
                                                       token |-> TokenOf(DefinitionName(b).lo)]) = above
                    /\ ~InCycle(k) /\ ~ImportedHere(k, "super") =>
                         \A r \in {u \in Refs(index[k], {"function"}) :
                                     /\ u.name = "super" /\ texts[k][TagOf(u.span.lo)].kind # "invoke_member"
                                     /\ \E o \in BlocksAround(index[k].blocks, u.span.lo) : o = b} :
                           GoToDefinition(texts, index, [key |-> k, tag |-> TagOf(r.span.lo),
                                                         token |-> TokenOf(r.span.lo)]) = above
  BY ZenonT(40) DEF InheritanceIsMutual, BlocksAround
<1> PICK chain, tail : chain = TemplateChain(index, k) /\ tail = Tail(chain)
  OBVIOUS
<1>1. above = BlockInChain(index, tail, b.name)
  <2> PICK name : name = b.name
    OBVIOUS
  <2>1. chain # <<>>
    BY AboveAreOthers
  <2>2. LensTargets(index, k, "block", name, "overrides") = BlockInChain(index, tail, name)
    BY <2>1, LensesLead
  <2> QED BY <2>2
<1>2. ASSUME NEW p \in above
      PROVE  /\ \E o \in LensTargets(index, p.key, "block", b.name, "extended") : o.key = k
             /\ ReferenceCount(index, p.key, "block", b.name) > 0
  BY OverriddenCounts
<1>3. ASSUME ~ImportedHere(k, b.name),
             NEW c, c = [key |-> k, tag |-> TagOf(DefinitionName(b).lo), token |-> TokenOf(DefinitionName(b).lo)]
      PROVE  GoToDefinition(texts, index, c) = above
  <2> PICK span : span = DefinitionName(b)
    OBVIOUS
  <2>1. c = [key |-> k, tag |-> TagOf(span.lo), token |-> TokenOf(span.lo)]
    BY <1>3
  <2>2. GoToDefinition(texts, index, c) = BlockInChain(index, tail, b.name)
    BY <1>3, <2>1, HeaderJumps, ZenonT(40)
  <2> QED BY <1>1, <2>2
<1>4. ASSUME ~InCycle(k), ~ImportedHere(k, "super"), NEW r \in Refs(index[k], {"function"}), r.name = "super",
             texts[k][TagOf(r.span.lo)].kind # "invoke_member",
             \E o \in BlocksAround(index[k].blocks, r.span.lo) : o = b,
             NEW c, c = [key |-> k, tag |-> TagOf(r.span.lo), token |-> TokenOf(r.span.lo)]
      PROVE  GoToDefinition(texts, index, c) = above
  <2>1. AtSuper(k, b, r, c)
    BY <1>4 DEF AtSuper
  <2>2. tail = Tail(TemplateChain(index, k))
    OBVIOUS
  <2>3. GoToDefinition(texts, index, c) = BlockInChain(index, tail, b.name)
    BY <1>4, <2>1, <2>2, SuperJumps, ZenonT(40)
  <2> QED BY <1>1, <2>3
<1> QED BY <1>2, <1>3, <1>4

\* Definition, lenses, super() and cards show one inheritance.
LEMMA ProjectInherits == IInv => InheritanceIsOne
BY ProjectInheritsMutually, ProjectHoversAgree DEF InheritanceIsOne

\* In every reachable project definition, lenses, super() and the card of a block, each with a walk of
\* its own over the parents, show one inheritance, also where templates extend each other in a cycle.
THEOREM InheritanceShown == Spec => []InheritanceIsOne
BY AlwaysProject, ProjectInherits, PTL

(***************************************************************************)
(* Help at a call.  Signature help and parameter hints go through the      *)
(* imports and their entries for the first macro that exists.              *)
(***************************************************************************)
\* What the entries of a from-import lead to, and what the from-imports do.
EntryOf(fi, name) ==
  [k \in DOMAIN fi.names |-> IF Effective(fi.names[k]) = name THEN Imported(index, fi, fi.names[k].name) ELSE {}]
NamedEntryOf(fi, name) ==
  [k \in DOMAIN fi.names |->
    IF fi.names[k].name = name \/ fi.names[k].alias = name THEN Imported(index, fi, fi.names[k].name) ELSE {}]
EntriesOf(list, name) == [i \in DOMAIN list |-> FirstFound(EntryOf(list[i], name))]
NamedEntriesOf(list, name) == [i \in DOMAIN list |-> FirstFound(NamedEntryOf(list[i], name))]

\* The walks, with their lookups under these names.
LEMMA HelpUnfolds ==
  ASSUME NEW k, NEW name, NEW facts, facts = index[k]
  PROVE  /\ ResolveSignature(index, k, name) =
              FirstFound(<<At(k, MacroNamed(facts, name)), FirstFound(NamedEntriesOf(facts.fromImports, name))>>)
         /\ ResolveMacroParams(index, k, name) =
              FirstFound(<<At(k, MacroNamed(facts, name)), FirstFound(EntriesOf(facts.fromImports, name))>>)
<1>1. ResolveSignature(index, k, name) =
        FirstFound(<<At(k, MacroNamed(facts, name)), FirstFound(NamedEntriesOf(facts.fromImports, name))>>)
  BY Zenon DEF ResolveSignature, ImportedCallee, NamedEntriesOf, NamedEntryOf
<1>2. ResolveMacroParams(index, k, name) =
        FirstFound(<<At(k, MacroNamed(facts, name)), FirstFound(EntriesOf(facts.fromImports, name))>>)
  BY Zenon DEF ResolveMacroParams, ImportedCallee, EntriesOf, EntryOf
<1> QED BY <1>1, <1>2

\* Lookups that all find nothing.
LEMMA NothingFound ==
  ASSUME NEW s, \A i \in DOMAIN s : s[i] = {}
  PROVE  FirstFound(s) = {}
<1> DEFINE hits == {i \in DOMAIN s : s[i] # {}}
<1>1. hits = {}
  OBVIOUS
<1>2. Some(s, LAMBDA found : found # {}) = {s[i] : i \in {i \in hits : \A h \in hits : i <= h}}
  BY Zenon DEF Some
<1>3. Some(s, LAMBDA found : found # {}) = {}
  BY <1>1, <1>2
<1>4. FirstFound(s) = UNION Some(s, LAMBDA found : found # {})
  BY Zenon DEF FirstFound
<1> QED BY <1>3, <1>4

\* Several lookups that find the same or nothing.
LEMMA FoundAlike ==
  ASSUME NEW s, DOMAIN s \in SUBSET Nat, NEW X, \A i \in DOMAIN s : s[i] \in {X, {}}, \E i \in DOMAIN s : s[i] = X
  PROVE  FirstFound(s) = X
<1>1. CASE X = {}
  <2>1. \A i \in DOMAIN s : s[i] = {}
    BY <1>1
  <2> QED BY <1>1, <2>1, NothingFound
<1>2. CASE X # {}
  <2> DEFINE hits == {i \in DOMAIN s : s[i] = X}
  <2>1. hits \in SUBSET Nat /\ hits # {}
    OBVIOUS
  <2>2. PICK i \in hits : \A j \in hits : i <= j
    <3> HIDE DEF hits
    <3> QED BY <2>1, LeastExists
  <2>3. \A j \in DOMAIN s : j < i => s[j] = {}
    BY <2>1, <2>2
  <2>4. FirstFound(s) = s[i]
    BY <1>2, <2>2, <2>3, FirstFoundIs
  <2> QED BY <2>2, <2>4
<1> QED BY <1>1, <1>2

\* Only an entry that gives the name finds something.
LEMMA EntryFinds ==
  ASSUME NEW fi, NEW T, fi.names \in Seq(T), NEW name
  PROVE  /\ (\A n \in Elements(fi.names) : Effective(n) # name) => FirstFound(EntryOf(fi, name)) = {}
         /\ (\A m, n \in Elements(fi.names) : Effective(m) = name /\ Effective(n) = name => m = n) =>
              FirstFound(EntryOf(fi, name)) = SourceOf(index, fi, name)
<1> PICK list : list = fi.names
  OBVIOUS
<1> PICK s : s = EntryOf(fi, name)
  OBVIOUS
<1>1. /\ DOMAIN s = DOMAIN list /\ DOMAIN list \in SUBSET Nat
      /\ \A i \in DOMAIN list : s[i] = IF Effective(list[i]) = name THEN Imported(index, fi, list[i].name) ELSE {}
      /\ \A i \in DOMAIN list : list[i] \in Elements(list)
      /\ \A n \in Elements(list) : \E i \in DOMAIN list : n = list[i]
  BY DEF EntryOf, Elements
<1>2. (\A n \in Elements(list) : Effective(n) # name) => FirstFound(s) = {}
  BY <1>1, NothingFound
<1>3. ASSUME \A m, n \in Elements(list) : Effective(m) = name /\ Effective(n) = name => m = n
      PROVE  FirstFound(s) = SourceOf(index, fi, name)
  <2>1. CASE \A n \in Elements(list) : Effective(n) # name
    <3>1. GivenBy(fi, name) = {}
      BY <2>1, GivenIsOne
    <3>2. SourceOf(index, fi, name) = {}
      BY <3>1 DEF SourceOf
    <3> QED BY <1>2, <2>1, <3>2
  <2>2. CASE \E n \in Elements(list) : Effective(n) = name
    <3>1. GivenBy(fi, name) # {}
      BY <2>2, GivenIsOne
    <3>2. PICK n \in Elements(list) : GivenBy(fi, name) = {n} /\ Effective(n) = name
      BY <3>1, GivenIsOne
    <3> PICK X : X = Imported(index, fi, n.name)
      OBVIOUS
    <3>3. SourceOf(index, fi, name) = X
      BY <3>2 DEF SourceOf
    <3>4. \A i \in DOMAIN s : s[i] \in {X, {}}
      BY <1>1, <1>3, <3>2
    <3>5. \E i \in DOMAIN s : s[i] = X
      BY <1>1, <3>2
    <3> QED BY <1>1, <3>3, <3>4, <3>5, FoundAlike
  <2> QED BY <2>1, <2>2
<1> QED BY <1>2, <1>3

\* A call site names something, and passes a number of arguments.
LEMMA CallNames ==
  ASSUME IInv, NEW k \in Templates, NEW c \in Elements(index[k].macroCalls)
  PROVE  c.callee # None /\ c.positional \in Nat
<1>1. IsText(texts[k]) /\ index[k].macroCalls = MacroCalls(texts[k])
  <2>1. IsText(texts[k]) /\ index[k] = Extract(texts[k])
    BY IndexIs
  <2> QED BY <2>1 DEF Extract
<1> DEFINE S == {MacroCall(texts[k], i) : i \in Tags(texts[k], {"invoke"})}
<1>2. c \in S
  <2>1. MacroCalls(texts[k]) \in Seq(S)
    BY <1>1, CallsOfTags
  <2> HIDE DEF S
  <2> QED BY <1>1, <2>1 DEF Elements
<1>3. PICK i \in Tags(texts[k], {"invoke"}) : c = MacroCall(texts[k], i)
  BY <1>2
<1>4. Written(texts[k][i]) /\ texts[k][i].kind = "invoke"
  BY <1>1, TagsAreWritten DEF Tags
<1>5. texts[k][i].names # <<>> /\ texts[k][i].names \in Seq(STRING) /\ None \notin Elements(texts[k][i].names)
  BY <1>4 DEF Written, NamingKinds
<1>6. texts[k][i].names[1] # None
  BY <1>5 DEF Elements
<1>7. c.callee = texts[k][i].names[1]
  BY <1>3 DEF MacroCall
<1> QED BY <1>1, <1>6, <1>7, CallsByPlace

\* Under what names the imports of a template go.
ImportsOf(k) == index[k].fromImports

\* Where no import has the name under another one, help by name and help by what is given find alike.
LEMMA EntriesAreAlike ==
  ASSUME IInv, NEW k \in Templates, NEW name, name # None, ~ImportedElsewise(k, name)
  PROVE  NamedEntriesOf(ImportsOf(k), name) = EntriesOf(ImportsOf(k), name)
<1> PICK list : list = ImportsOf(k)
  OBVIOUS
<1>1. ASSUME NEW i \in DOMAIN list PROVE NamedEntryOf(list[i], name) = EntryOf(list[i], name)
  <2> PICK fi : fi = list[i]
    OBVIOUS
  <2>1. fi \in Elements(index[k].fromImports)
    BY DEF ImportsOf, Elements
  <2>2. \A n \in Elements(fi.names) : (n.name = name \/ n.alias = name) <=> Effective(n) = name
    BY <2>1, NamedIsGiven
  <2>3. \A j \in DOMAIN fi.names : fi.names[j] \in Elements(fi.names)
    BY DEF Elements
  <2>4. \A j \in DOMAIN fi.names : (fi.names[j].name = name \/ fi.names[j].alias = name) <=> Effective(fi.names[j]) = name
    BY <2>2, <2>3
  <2> QED BY <2>4 DEF NamedEntryOf, EntryOf
<1>2. NamedEntriesOf(list, name) = [i \in DOMAIN list |-> FirstFound(NamedEntryOf(list[i], name))]
  BY DEF NamedEntriesOf
<1>3. EntriesOf(list, name) = [i \in DOMAIN list |-> FirstFound(EntryOf(list[i], name))]
  BY DEF EntriesOf
<1> QED BY <1>1, <1>2, <1>3

\* What the imports give is what the checks find, if none gives the name twice.
LEMMA EntriesAreChecked ==
  ASSUME IInv, NEW k \in Templates, NEW name, NEW A, A = FirstFound(EntriesOf(ImportsOf(k), name))
  PROVE  /\ GivenOnce(k, name) => A = CheckedImport(index, index[k], name)
         /\ A # {} => name \in EffectiveNames(index[k])
         /\ \A m \in A : \E q \in Templates : m.macro \in Elements(Macros(texts[q]))
<1> PICK list : list = ImportsOf(k)
  OBVIOUS
<1>1. /\ \E S : list \in Seq(S)
      /\ \A fi \in Elements(list) : \E T : fi.names \in Seq(T)
      /\ \A i \in DOMAIN list : list[i] \in Elements(list) /\ list[i] \in Elements(index[k].fromImports)
  BY ImportsAreLists DEF ImportsOf, Elements
<1>2. DOMAIN list \in SUBSET Nat
  BY <1>1
<1> PICK s : s = EntriesOf(list, name)
  OBVIOUS
<1>3. DOMAIN s = DOMAIN list /\ \A i \in DOMAIN list : s[i] = FirstFound(EntryOf(list[i], name))
  BY DEF EntriesOf
<1> DEFINE hits == {i \in DOMAIN s : s[i] # {}}
<1>4. CASE hits = {}
  <2>1. A = {}
    BY <1>4, NothingFound
  <2>2. ASSUME GivenOnce(k, name) PROVE CheckedImport(index, index[k], name) = {}
    <3>1. \A i \in DOMAIN list : SourceOf(index, list[i], name) = {}
      <4> TAKE i \in DOMAIN list
      <4>1. s[i] = {}
        BY <1>3, <1>4
      <4>2. \A m, n \in Elements(list[i].names) : Effective(m) = name /\ Effective(n) = name => m = n
        BY <1>1, <2>2 DEF GivenOnce
      <4>3. PICK T : list[i].names \in Seq(T)
        BY <1>1
      <4> QED BY <1>3, <4>1, <4>2, <4>3, EntryFinds
    <3>2. CheckedImport(index, index[k], name) =
            UNION {SourceOf(index, f, name) : f \in FirstOf(list, {i \in DOMAIN list : SourceOf(index, list[i], name) # {}})}
      BY Zenon DEF CheckedImport, Some, FirstOf, ImportsOf
    <3>3. {i \in DOMAIN list : SourceOf(index, list[i], name) # {}} = {}
      BY <3>1
    <3>4. FirstOf(list, {}) = {}
      BY DEF FirstOf
    <3> QED BY <3>2, <3>3, <3>4
  <2> QED BY <2>1, <2>2
<1>5. CASE hits # {}
  <2>1. PICK j \in hits : \A i \in hits : j <= i
    <3>1. hits \in SUBSET Nat
      BY <1>2, <1>3
    <3> HIDE DEF hits
    <3> QED BY <1>5, <3>1, LeastExists
  <2>2. A = s[j] /\ j \in DOMAIN list
    <3>1. \A i \in DOMAIN s : i < j => s[i] = {}
      BY <1>2, <1>3, <2>1
    <3>2. DOMAIN s \in SUBSET Nat /\ j \in DOMAIN s /\ s[j] # {}
      BY <1>2, <1>3, <2>1
    <3>3. FirstFound(s) = s[j]
      BY <3>1, <3>2, FirstFoundIs
    <3> QED BY <1>3, <3>2, <3>3
  <2> PICK fi : fi = list[j]
    OBVIOUS
  <2>3. A = FirstFound(EntryOf(fi, name)) /\ A # {}
    BY <1>3, <2>1, <2>2
  <2>4. PICK T : fi.names \in Seq(T)
    BY <1>1, <2>2
  <2>5. fi \in Elements(index[k].fromImports)
    BY <1>1, <2>2
  <2>6. name \in EffectiveNames(index[k])
    <3>1. \E n \in Elements(fi.names) : Effective(n) = name
      BY <2>3, <2>4, EntryFinds
    <3> QED BY <2>5, <3>1 DEF EffectiveNames
  <2>7. ASSUME GivenOnce(k, name) PROVE A = CheckedImport(index, index[k], name)
    <3>1. \A i \in DOMAIN list : SourceOf(index, list[i], name) = s[i]
      <4> TAKE i \in DOMAIN list
      <4>1. \A m, n \in Elements(list[i].names) : Effective(m) = name /\ Effective(n) = name => m = n
        BY <1>1, <2>7 DEF GivenOnce
      <4>2. PICK U : list[i].names \in Seq(U)
        BY <1>1
      <4> QED BY <1>3, <4>1, <4>2, EntryFinds
    <3> PICK H : H = {i \in DOMAIN list : SourceOf(index, list[i], name) # {}}
      OBVIOUS
    <3>2. CheckedImport(index, index[k], name) =
            UNION {SourceOf(index, f, name) : f \in FirstOf(list, {i \in DOMAIN list : SourceOf(index, list[i], name) # {}})}
      BY Zenon DEF CheckedImport, Some, FirstOf, ImportsOf
    <3>3. H = hits
      BY <1>3, <3>1
    <3>4. FirstOf(list, H) = {fi}
      <4>1. \A h \in H : h \in Nat
        BY <1>2
      <4>2. {i \in H : \A h \in H : i <= h} = {j}
        <5> HIDE DEF hits
        <5> QED BY <2>1, <3>3, <4>1
      <4> QED BY <4>2 DEF FirstOf
    <3>5. SourceOf(index, fi, name) = A
      BY <2>2, <3>1
    <3>6. CheckedImport(index, index[k], name) = UNION {SourceOf(index, f, name) : f \in FirstOf(list, H)}
      BY <3>2
    <3>7. CheckedImport(index, index[k], name) = UNION {SourceOf(index, f, name) : f \in {fi}}
      BY <3>4, <3>6
    <3> QED BY <3>5, <3>7
  <2>8. \A m \in A : \E q \in Templates : m.macro \in Elements(Macros(texts[q]))
    <3>1. \A i \in DOMAIN fi.names : OneOf(texts, EntryOf(fi, name)[i])
      <4> TAKE i \in DOMAIN fi.names
      <4>1. IsProject(texts, index)
        BY DEF IInv
      <4>2. OneOf(texts, Imported(index, fi, fi.names[i].name))
        BY <4>1, ImportedIsOne
      <4>3. OneOf(texts, {})
        BY DEF OneOf, AtMostOne
      <4>4. EntryOf(fi, name)[i] = IF Effective(fi.names[i]) = name THEN Imported(index, fi, fi.names[i].name) ELSE {}
        BY DEF EntryOf
      <4> QED BY <4>2, <4>3, <4>4
    <3>2. \A m \in A : \E i \in DOMAIN EntryOf(fi, name) : m \in EntryOf(fi, name)[i]
      <4> PICK e : e = EntryOf(fi, name)
        OBVIOUS
      <4>1. FirstFound(e) = UNION Some(e, LAMBDA found : found # {})
        BY Zenon DEF FirstFound
      <4>2. Some(e, LAMBDA found : found # {}) = FirstOf(e, {i \in DOMAIN e : e[i] # {}})
        BY Zenon DEF Some, FirstOf
      <4>3. \A H \in SUBSET DOMAIN e : \A x \in FirstOf(e, H) : \E i \in DOMAIN e : x = e[i]
        BY DEF FirstOf
      <4>4. {i \in DOMAIN e : e[i] # {}} \in SUBSET DOMAIN e
        OBVIOUS
      <4>5. \A x \in Some(e, LAMBDA found : found # {}) : \E i \in DOMAIN e : x = e[i]
        BY <4>2, <4>3, <4>4
      <4>6. A = UNION Some(e, LAMBDA found : found # {})
        BY <2>3, <4>1
      <4> PICK Y : Y = Some(e, LAMBDA found : found # {})
        OBVIOUS
      <4>7. \A x \in Y : \E i \in DOMAIN e : x = e[i]
        BY <4>5
      <4>8. A = UNION Y
        BY <4>6
      <4> QED BY <4>7, <4>8
    <3>3. DOMAIN EntryOf(fi, name) = DOMAIN fi.names
      BY DEF EntryOf
    <3> QED BY <3>1, <3>2, <3>3 DEF OneOf
  <2> QED BY <2>6, <2>7, <2>8
<1> QED BY <1>4, <1>5

\* All arguments of a call that fits are labelled, but those that match their parameters.
LEMMA AllAreLabelled ==
  ASSUME NEW macro, Declared(macro), NEW call, call.positional \in Nat, ~WrongArguments(macro, call), NEW matching
  PROVE  {h.argument : h \in ParamHints(macro, call, matching)} = (1 .. call.positional) \ matching
<1> PICK ps : ps = macro.parameters
  OBVIOUS
<1>1. PICK arity \in Nat : ps = [i \in 1 .. arity |-> ps[i]]
  BY DEF Declared
<1>2. call.positional <= arity
  <2>1. ~(call.positional > Len(macro.parameters))
    BY DEF WrongArguments
  <2>2. Len(ps) = arity
    BY <1>1
  <2> QED BY <1>1, <2>1, <2>2
<1> PICK n \in Nat : n = call.positional
  OBVIOUS
<1>3. {k \in DOMAIN ps \ matching : k <= n} = (1 .. n) \ matching
  BY <1>1, <1>2
<1>4. ParamHints(macro, call, matching) = {[argument |-> i, label |-> ps[i].name] : i \in (1 .. n) \ matching}
  BY <1>3 DEF ParamHints
<1>5. \A h \in ParamHints(macro, call, matching) : h.argument \in (1 .. n) \ matching
  BY <1>4
<1>6. ASSUME NEW i \in (1 .. n) \ matching PROVE \E h \in ParamHints(macro, call, matching) : h.argument = i
  <2>1. [argument |-> i, label |-> ps[i].name] \in ParamHints(macro, call, matching)
    BY <1>4
  <2> QED BY <2>1
<1> QED BY ONLY n = call.positional, <1>5, <1>6, Zenon

\* Help shows the macro that is checked.
LEMMA ProjectHelps == IInv => HelpShowsCheckedMacro
<1> SUFFICES ASSUME IInv, NEW k \in Templates, NEW c \in Elements(index[k].macroCalls),
                    ~ImportedElsewise(k, c.callee)
             PROVE  LET checked == ResolveMacro(index, k, c.callee)
                        known == c.callee \in MacroNames(index[k]) \cup EffectiveNames(index[k])
                        signature == ResolveSignature(index, k, c.callee)
                        hinted == ResolveMacroParams(index, k, c.callee)
                    IN  /\ signature = hinted
                        /\ signature # {} /\ GivenOnce(k, c.callee) => known /\ signature = checked
                        /\ \A m \in hinted :
                             ~WrongArguments(m.macro, c) =>
                               \A matching \in SUBSET (1 .. c.positional) :
                                 {h.argument : h \in ParamHints(m.macro, c, matching)}
                                   = (1 .. c.positional) \ matching
  BY DEF HelpShowsCheckedMacro
<1> PICK name : name = c.callee
  OBVIOUS
<1>1. name # None /\ c.positional \in Nat
  BY CallNames
<1> PICK A : A = FirstFound(EntriesOf(ImportsOf(k), name))
  OBVIOUS
<1> PICK local : local = At(k, MacroNamed(index[k], name))
  OBVIOUS
<1>2. /\ ResolveSignature(index, k, name) = FirstFound(<<local, FirstFound(NamedEntriesOf(ImportsOf(k), name))>>)
      /\ ResolveMacroParams(index, k, name) = FirstFound(<<local, A>>)
  BY HelpUnfolds DEF ImportsOf
<1>3. FirstFound(NamedEntriesOf(ImportsOf(k), name)) = A
  BY <1>1, EntriesAreAlike
<1> PICK X : X = FirstFound(<<local, A>>)
  OBVIOUS
<1>4. X = IF local # {} THEN local ELSE A
  BY FirstOfPair
<1>5. ResolveSignature(index, k, c.callee) = X /\ ResolveMacroParams(index, k, c.callee) = X
  BY <1>2, <1>3
<1>6. IsText(texts[k]) /\ index[k] = Extract(texts[k]) /\ index[k].macros = Macros(texts[k])
  BY IndexIs
<1>7. ASSUME local # {} PROVE name \in MacroNames(index[k]) /\ MacroNamed(index[k], name) # {}
  <2>1. MacroNamed(index[k], name) # {}
    BY <1>7 DEF At
  <2>2. PICK m \in MacroNamed(index[k], name) : TRUE
    BY <2>1
  <2>3. m \in Elements(index[k].macros) /\ m.name = name
    BY <1>6, MacroIsFound
  <2> QED BY <2>1, <2>3 DEF MacroNames
<1>8. local = {} => MacroNamed(index[k], name) = {}
  BY DEF At
<1>9. /\ GivenOnce(k, name) => A = CheckedImport(index, index[k], name)
      /\ A # {} => name \in EffectiveNames(index[k])
      /\ \A m \in A : \E q \in Templates : m.macro \in Elements(Macros(texts[q]))
  BY EntriesAreChecked
<1>10. ASSUME X # {}, GivenOnce(k, name)
       PROVE  name \in MacroNames(index[k]) \cup EffectiveNames(index[k]) /\ X = ResolveMacro(index, k, name)
  <2>1. ResolveMacro(index, k, name) =
          IF MacroNamed(index[k], name) # {} THEN local
          ELSE IF CheckedImport(index, index[k], name) # {} THEN CheckedImport(index, index[k], name)
          ELSE FindMacroWithPath(index, name)
    BY WalksUnfold
  <2>2. CASE local # {}
    BY <1>4, <1>7, <2>1, <2>2
  <2>3. CASE local = {}
    BY <1>4, <1>8, <1>9, <1>10, <2>1, <2>3
  <2> QED BY <2>2, <2>3
<1>11. ASSUME NEW m \in X PROVE \E q \in Templates : m.macro \in Elements(Macros(texts[q]))
  <2>1. CASE m \in local
    <3>1. m.macro \in MacroNamed(index[k], name)
      BY <2>1 DEF At
    <3>2. m.macro \in Elements(Macros(texts[k]))
      BY <1>6, <3>1, MacroIsFound
    <3> QED BY <3>2
  <2>2. CASE m \notin local
    BY <1>4, <1>9, <1>11, <2>2
  <2> QED BY <2>1, <2>2
<1>12. \A m \in X :
         ~WrongArguments(m.macro, c) =>
           \A matching \in SUBSET (1 .. c.positional) :
             {h.argument : h \in ParamHints(m.macro, c, matching)} = (1 .. c.positional) \ matching
  <2> SUFFICES ASSUME NEW m \in X, ~WrongArguments(m.macro, c), NEW matching \in SUBSET (1 .. c.positional)
               PROVE  {h.argument : h \in ParamHints(m.macro, c, matching)} = (1 .. c.positional) \ matching
    OBVIOUS
  <2>1. PICK q \in Templates : m.macro \in Elements(Macros(texts[q]))
    BY <1>11
  <2>2. Declared(m.macro)
    BY <2>1, IndexIs, MacrosAreDeclared
  <2> QED BY <1>1, <2>2, AllAreLabelled
<1> QED BY <1>5, <1>10, <1>12

\* What the classes of uses are.
LEMMA ClassesAre ==
  ASSUME NEW templates, NEW facts, NEW r
  PROVE  /\ r.kind = "identifier" => Classify(templates, facts, r) = ClassifyIdentifier(facts, r.name)
         /\ r.kind = "function" => Classify(templates, facts, r) = ClassifyCall(templates, facts, r.name)
<1>1. ASSUME r.kind = "identifier" PROVE Classify(templates, facts, r) = ClassifyIdentifier(facts, r.name)
  <2>1. r.kind # "filter" /\ r.kind # "test" /\ r.kind # "function"
    BY <1>1
  <2> QED BY <2>1, Zenon DEF Classify
<1>2. ASSUME r.kind = "function" PROVE Classify(templates, facts, r) = ClassifyCall(templates, facts, r.name)
  <2>1. r.kind # "filter" /\ r.kind # "test" /\ r.kind = "function"
    BY <1>2
  <2> QED BY <2>1, Zenon DEF Classify
<1> QED BY <1>1, <1>2

\* What is unknown is neither of the registry nor of the user.
LEMMA ModifiersDiffer ==
  /\ \A type : Class(type, Unknown).modifiers = Unknown
  /\ \A type : Class(type, OfUser).modifiers # Unknown
  /\ \A type : Class(type, OfRegistry).modifiers # Unknown
<1>1. \A type, m : Class(type, m).modifiers = m
  BY DEF Class
<1>2. OfUser # Unknown /\ OfRegistry # Unknown
  <2>1. "defined" \in OfUser /\ "defined" \in OfRegistry /\ "defined" \notin Unknown
    BY DEF OfUser, OfRegistry, Unknown
  <2> QED BY <2>1
<1> QED BY <1>1, <1>2

\* An unknown identifier has no binding, and nothing else of its name is in scope.
LEMMA UnknownIdentifier ==
  ASSUME IInv, NEW k \in Templates, NEW r, Classify(index, index[k], r).modifiers = Unknown, r.kind = "identifier"
  PROVE  /\ r.name \notin Registry.variable \cup DOMAIN Registry.context \cup AliasNames(index[k])
         /\ InnermostBinding(index[k], r) = {}
<1>1. ClassifyIdentifier(index[k], r.name).modifiers = Unknown
  BY ClassesAre
<1>2. r.name \notin Registry.variable \cup DOMAIN Registry.context
  BY <1>1, ModifiersDiffer DEF ClassifyIdentifier
<1>3. r.name \notin AliasNames(index[k]) /\ \A v \in Elements(index[k].variables) : v.name # r.name
  BY <1>1, <1>2, ModifiersDiffer DEF ClassifyIdentifier
<1>4. PICK S : index[k].variables \in Seq(S)
  <2> PICK regions : regions = BuildScopeRegions(texts[k])
    OBVIOUS
  <2>1. IsText(texts[k]) /\ index[k].variables = Variables(texts[k], regions)
    BY IndexIs
  <2> QED BY <2>1, VariablesOfTags
<1> PICK C : C = {v \in Elements(index[k].variables) : v.name = r.name /\ Covers(v.validRange, r.span)}
  OBVIOUS
<1>5. C = {}
  BY <1>3
<1>6. \A v \in C : Length(v.validRange) \in Nat
  BY <1>5
<1>7. InnermostBinding(index[k], r) = {}
  BY <1>4, <1>5, <1>6, InnermostIs
<1> QED BY <1>2, <1>3, <1>7

\* Uses that begin together are at one place.
LEMMA SpansByStart ==
  ASSUME IInv, NEW k \in Templates, NEW r \in Elements(index[k].references), NEW q \in Elements(index[k].references),
         q.span.lo = r.span.lo
  PROVE  q.span = r.span
<1>1. IsText(texts[k]) /\ index[k].references = References(texts[k])
  BY IndexIs
<1>2. \A u \in Elements(References(texts[k])) : \E i \in Nat, j \in 1 .. 6 : u.span = Name(i, j)
  <2> TAKE u \in Elements(References(texts[k]))
  <2>1. PICK i \in Tags(texts[k], ReferenceKinds), j \in 1 .. 6 : u.span = Name(i, j)
    BY <1>1, ReferenceIs
  <2>2. i \in Nat
    BY <1>1 DEF Tags, IsText
  <2> QED BY <2>1, <2>2
<1>3. \A i \in Nat, j \in 1 .. 6 : Name(i, j) = Span(Name(i, j).lo, Name(i, j).lo + 1)
  BY DEF Name, Span, TagStart, Width
<1>4. \A u \in Elements(References(texts[k])) : u.span = Span(u.span.lo, u.span.lo + 1)
  BY <1>2, <1>3
<1> QED BY <1>1, <1>4

\* A call that is reported names no macro that any template has.
LEMMA ReportedCall ==
  ASSUME IInv, NEW k \in Templates, NEW r, Named("E103", r.span, r.name) \in E103(index, k)
  PROVE  /\ r.name \notin Registry.function
         /\ \A q \in Templates : r.name \notin MacroNames(index[q])
<1>1. PICK f \in Refs(index[k], {"function"}) :
        /\ HostOwned(index, k, f) /\ f.name \notin Registry.function \cup Registry.filter
        /\ Named("E103", r.span, r.name) = Named("E103", f.span, f.name)
  BY DEF E103
<1>2. f.name = r.name /\ f.kind = "function"
  BY <1>1 DEF Named, Refs
<1> PICK name : name = r.name
  OBVIOUS
<1>3. CalledMacro(index, k, name) = {}
  <2>1. f.kind # "identifier" /\ f.kind = "function"
    BY <1>2
  <2>2. HostOwned(index, k, f) <=> CalledMacro(index, k, f.name) = {}
    BY <2>1, Zenon DEF HostOwned
  <2> QED BY <1>1, <1>2, <2>2
<1>4. FindMacroWithPath(index, name) = {}
  <2>1. CalledMacro(index, k, name) =
          IF At(k, MacroNamed(index[k], name)) # {} THEN At(k, MacroNamed(index[k], name))
          ELSE IF ImportedMacro(index, index[k], name) # {} THEN ImportedMacro(index, index[k], name)
          ELSE FindMacroWithPath(index, name)
    BY WalksUnfold
  <2> QED BY <1>3, <2>1
<1>5. \A q \in Templates : MacroNamed(index[q], name) = {}
  <2>1. IsProject(texts, index)
    BY DEF IInv
  <2> QED BY <1>4, <2>1, MacroIsSomewhere
<1>6. ASSUME NEW q \in Templates, name \in MacroNames(index[q]) PROVE FALSE
  <2>1. PICK m \in Elements(index[q].macros) : m.name = name
    BY <1>6 DEF MacroNames
  <2>2. IsText(texts[q]) /\ index[q] = Extract(texts[q]) /\ index[q].macros = Macros(texts[q])
    BY IndexIs
  <2>3. MacroNamed(index[q], name) # {}
    BY <2>1, <2>2, MacroIsFound
  <2> QED BY <1>5, <2>3
<1> QED BY <1>1, <1>2, <1>6

\* Colours follow the checks.
LEMMA ProjectColours == IInv => ColoursFollowChecks
<1> SUFFICES ASSUME IInv, NEW k \in Templates
             PROVE  /\ \A r \in Refs(index[k], {"identifier"}) :
                         /\ Classify(index, index[k], r).modifiers = Unknown
                         /\ ~\E q \in Refs(index[k], {"filter", "test"}) : q.span = r.span
                         => /\ InnermostBinding(index[k], r) = {}
                            /\ Finding("E101", r.span) \in E101(index, k)
                               \/ r.name \in MacroNames(index[k]) \cup EffectiveNames(index[k]) \/ IsParameter(index[k], r)
                    /\ \A r \in Refs(index[k], {"function"}) :
                         Named("E103", r.span, r.name) \in E103(index, k) =>
                           Classify(index, index[k], r).modifiers = Unknown
  BY DEF ColoursFollowChecks
<1>1. ASSUME NEW r \in Refs(index[k], {"identifier"}), Classify(index, index[k], r).modifiers = Unknown,
             ~\E q \in Refs(index[k], {"filter", "test"}) : q.span = r.span
      PROVE  /\ InnermostBinding(index[k], r) = {}
             /\ Finding("E101", r.span) \in E101(index, k)
                \/ r.name \in MacroNames(index[k]) \cup EffectiveNames(index[k]) \/ IsParameter(index[k], r)
  <2>1. r \in Elements(index[k].references) /\ r.kind = "identifier"
    BY <1>1 DEF Refs
  <2>2. /\ r.name \notin Registry.variable \cup DOMAIN Registry.context \cup AliasNames(index[k])
        /\ InnermostBinding(index[k], r) = {}
    BY <1>1, <2>1, UnknownIdentifier
  <2>3. ~\E q \in Refs(index[k], {"filter", "test"}) : q.span.lo = r.span.lo
    <3>1. \A q \in Refs(index[k], {"filter", "test"}) : q \in Elements(index[k].references)
      BY DEF Refs
    <3> QED BY <1>1, <2>1, <3>1, SpansByStart
  <2>4. HostOwned(index, k, r)
    <3>1. HostOwned(index, k, r) <=> InnermostBinding(index[k], r) = {}
      BY <2>1, Zenon DEF HostOwned
    <3> QED BY <2>2, <3>1
  <2>5. ~HintApplies(k, r.name)
    BY <2>2 DEF HintApplies
  <2>6. ASSUME r.name \notin MacroNames(index[k]) \cup EffectiveNames(index[k]), ~IsParameter(index[k], r)
        PROVE  Undefined(index, k, r)
    BY <2>2, <2>3, <2>4, <2>5, <2>6 DEF Undefined
  <2>7. Undefined(index, k, r) => Finding("E101", r.span) \in E101(index, k)
    BY <1>1 DEF E101
  <2> QED BY <2>2, <2>6, <2>7
<1>2. ASSUME NEW r \in Refs(index[k], {"function"}), Named("E103", r.span, r.name) \in E103(index, k)
      PROVE  Classify(index, index[k], r).modifiers = Unknown
  <2>1. r.kind = "function"
    BY DEF Refs
  <2>2. r.name \notin Registry.function /\ \A q \in Templates : r.name \notin MacroNames(index[q])
    BY <1>2, ReportedCall
  <2>3. ~IsMacro(index, index[k], r.name)
    <3>1. DOMAIN index = Templates
      BY DEF IInv, IsProject
    <3> QED BY <2>2, <3>1 DEF IsMacro
  <2>4. ClassifyCall(index, index[k], r.name) = Class("variable", Unknown)
    BY <2>2, <2>3 DEF ClassifyCall
  <2> QED BY <2>1, <2>4, ClassesAre, ModifiersDiffer
<1> QED BY <1>1, <1>2

\* Calls are shown as they are checked.
LEMMA ProjectShowsCalls == IInv => CallsAreShownAlike
BY ProjectHelps, ProjectColours DEF CallsAreShownAlike

\* In every reachable project the parameters shown at a call are those of the macro its arguments are
\* checked against (signature_help, inlay_hints), a name coloured as unknown is one the checks report
\* and a call they report is coloured as unknown (semantic_tokens).
THEOREM CallsShown == Spec => []CallsAreShownAlike
BY AlwaysProject, ProjectShowsCalls, PTL

(***************************************************************************)
(* Undefined identifiers.                                                  *)
(***************************************************************************)
\* A text without error nodes has no syntax errors.
LEMMA NoErrors ==
  ASSUME NEW text, IsText(text), Tags(text, ErrorKinds) = {}
  PROVE  SyntaxErrors(text) = <<>>
<1> DEFINE seqs == [i \in DOMAIN text |-> IF text[i].kind \in ErrorKinds THEN <<Statement(i)>> ELSE <<>>]
<1>1. SyntaxErrors(text) = FlattenSeq(seqs)
  BY DEF SyntaxErrors, Each
<1>2. DOMAIN seqs = DOMAIN text /\ \A i \in DOMAIN text : seqs[i] = <<>>
  BY DEF Tags
<1>3. PICK n \in Nat : DOMAIN text = 1 .. n
  BY DEF IsText
<1>4. seqs = [i \in 1 .. n |-> seqs[i]] /\ \A i \in 1 .. n : seqs[i] \in Seq(Nat)
  BY <1>2, <1>3
<1> HIDE DEF seqs
<1>5. seqs \in Seq(Seq(Nat))
  BY <1>4
<1> QED BY <1>1, <1>2, <1>5, FlattenSeqLast

\* The use at a print is the only reference there.
LEMMA PrintUse ==
  ASSUME IInv, NEW k \in Templates, NEW i \in Tags(texts[k], {"print"})
  PROVE  /\ i \in DOMAIN texts[k] /\ i \in Nat
         /\ \E r \in Refs(index[k], {"identifier"}) :
              /\ r.name = texts[k][i].names[1] /\ r.kind = "identifier" /\ r.span = Name(i, 1)
              /\ \A q \in Elements(index[k].references) : q.span.lo = r.span.lo => q = r
<1> PICK text : text = texts[k]
  OBVIOUS
<1>1. IsText(text) /\ index[k].references = References(text)
  BY IndexIs
<1>2. i \in DOMAIN text /\ i \in Nat /\ text[i].kind = "print"
  BY <1>1 DEF Tags, IsText
<1> PICK r : r = Reference(text, i, 1, "identifier")
  OBVIOUS
<1>3. ReferencesOf(text, i) = {r}
  <2>1. "print" \notin CallKinds /\ "print" \notin DOMAIN Qualified
    BY DEF CallKinds, Qualified
  <2> QED BY <1>2, <2>1 DEF ReferencesOf
<1>4. r.name = text[i].names[1] /\ r.kind = "identifier" /\ r.span = Name(i, 1)
  <2>1. Written(text[i])
    BY <1>1, <1>2, TagsAreWritten
  <2>2. text[i].names \in Seq(STRING) /\ text[i].names # <<>>
    BY <1>2, <2>1 DEF Written, NamingKinds
  <2>3. 1 <= Len(text[i].names)
    BY <2>2
  <2> QED BY <2>3 DEF Reference, Token
<1>5. r \in Elements(References(text))
  <2>1. i \in Tags(text, ReferenceKinds)
    BY <1>2 DEF Tags, ReferenceKinds
  <2> QED BY <1>1, <1>3, <2>1, ReferencesOfTags
<1>6. ASSUME NEW q \in Elements(References(text)), q.span.lo = r.span.lo PROVE q = r
  <2>1. PICK j \in Tags(text, ReferenceKinds), l \in 1 .. 6 : q \in ReferencesOf(text, j) /\ q.span = Name(j, l)
    BY <1>1, ReferenceIs
  <2>2. j \in Nat /\ l \in 1 .. 7 /\ 1 \in 1 .. 7
    BY <1>1 DEF Tags, IsText
  <2>3. Name(j, l).lo = 8 * j + l /\ Name(i, 1).lo = 8 * i + 1
    BY <1>2, <2>2, TagOfName
  <2>4. 8 * j + l = 8 * i + 1
    BY <1>4, <1>6, <2>1, <2>3
  <2>5. j = i
    BY <1>2, <2>2, <2>4
  <2> QED BY <1>3, <2>1, <2>5
<1> QED BY <1>1, <1>2, <1>4, <1>5, <1>6 DEF Refs

\* No other check reports under the code of undefined identifiers.
LEMMA OneCode ==
  ASSUME NEW k, index[k].syntaxErrors = <<>>, NEW span
  PROVE  Finding("E101", span) \in RunChecks(texts[k], index, k) <=> Finding("E101", span) \in E101(index, k)
<1> PICK facts : facts = index[k]
  OBVIOUS
<1> PICK f : f = Finding("E101", span)
  OBVIOUS
<1>1. f.code = "E101"
  BY DEF Finding, Named
<1>2. f \notin W106(texts[k], k, facts)
  BY <1>1 DEF W106, Finding, Named
<1>3. f \notin E103(index, k)
  BY <1>1 DEF E103, Named
<1>4. f \notin E102(facts) /\ f \notin E104(facts)
  BY <1>1 DEF E102, E104, Named
<1>5. f \notin W201(facts) /\ f \notin W202(index, k)
  BY <1>1 DEF W201, W202, Finding, Named
<1>6. f \notin W203(texts[k], facts)
  BY <1>1 DEF W203, Named
<1>7. \A code, s : code # "E101" => f \notin Repeated(code, s)
  BY <1>1 DEF Repeated, Named
<1>8. f \notin Duplicates(facts)
  <2>1. PICK a, b : Duplicates(facts) = Repeated("W301", facts.blocks) \cup Repeated("W302", facts.macros)
                                        \cup Repeated("W303", a) \cup Repeated("W304", b)
    BY Zenon DEF Duplicates
  <2>2. "W301" # "E101" /\ "W302" # "E101" /\ "W303" # "E101" /\ "W304" # "E101"
    OBVIOUS
  <2> QED BY <1>7, <2>1, <2>2
<1>9. f \notin W305(facts)
  BY <1>1 DEF W305, Named
<1>10. f \notin E403(index, k)
  <2>1. PICK S : E403(index, k) = {Named("E403", NoSpan, b.name) : b \in S}
    BY Zenon DEF E403
  <2> QED BY <1>1, <2>1 DEF Named
<1>11. f \notin E404(index, k)
  <2>1. PICK S : E404(index, k) = {Finding("E404", r.span) : r \in S}
    BY Zenon DEF E404
  <2> QED BY <1>1, <2>1 DEF Finding, Named
<1>12. f \notin E501(index, k) /\ f \notin E601(index, k)
  BY <1>1 DEF E501, E601, Finding, Named
<1>13. f \notin W402(facts) /\ f \notin E401(facts)
  BY <1>1 DEF W402, E401, Finding, Named
<1>14. RunChecks(texts[k], index, k) =
         UNION {W106(texts[k], k, facts), E101(index, k), E103(index, k),
                E102(facts), E104(facts), W201(facts), W202(index, k), W203(texts[k], facts),
                Duplicates(facts), W305(facts), E403(index, k), E404(index, k),
                E501(index, k), W402(facts), E401(facts), E601(index, k)}
  BY Zenon DEF RunChecks
<1> QED BY <1>2, <1>3, <1>4, <1>5, <1>6, <1>8, <1>9, <1>10, <1>11, <1>12, <1>13, <1>14, Zenon

\* The parameters of a macro are what its tag names after it.
LEMMA ParametersAre ==
  ASSUME NEW text, IsText(text), NEW j \in Tags(text, {"macro"}), NEW name
  PROVE  (\E q \in Elements(Macro(text, j).parameters) : q.name = name) <=> name \in Elements(Tail(text[j].names))
<1> PICK names : names = text[j].names
  OBVIOUS
<1>1. names \in Seq(STRING) /\ Len(names) \in Nat /\ 0 < Len(names)
  <2>1. j \in DOMAIN text /\ text[j].kind = "macro"
    BY DEF Tags
  <2>2. Written(text[j])
    BY <2>1, TagsAreWritten
  <2>3. names \in Seq(STRING) /\ text[j].count \in Nat /\ text[j].count < Len(names)
    BY <2>1, <2>2 DEF Written
  <2> QED BY <2>3
<1>2. PICK n \in Nat : Len(names) = n + 1 /\ n = Len(names) - 1
  <2>1. Len(names) - 1 \in Nat /\ Len(names) = (Len(names) - 1) + 1
    BY <1>1
  <2> QED BY <2>1
<1> PICK ps : ps = Macro(text, j).parameters
  OBVIOUS
<1>3. DOMAIN ps = 1 .. n /\ \A m \in 1 .. n : ps[m].name = names[m + 1]
  BY <1>2 DEF Macro
<1>4. DOMAIN Tail(names) = 1 .. n /\ \A m \in 1 .. n : Tail(names)[m] = names[m + 1]
  BY <1>1, <1>2
<1> QED BY <1>3, <1>4, ZenonT(40) DEF Elements

\* A parameter of a macro is in scope where the macro is around.
LEMMA ParameterIs ==
  ASSUME IInv, NEW k \in Templates, Intact(texts[k]), NEW i \in DOMAIN texts[k], NEW r, r.span = Name(i, 1)
  PROVE  IsParameter(index[k], r) <=>
           \E j \in Around(texts[k], i) \cap Tags(texts[k], {"macro"}) : r.name \in Elements(Tail(texts[k][j].names))
<1> PICK text : text = texts[k]
  OBVIOUS
<1>1. IsText(text) /\ index[k].macros = Macros(text)
  BY IndexIs
<1>2. PICK p : IsPairing(text, p)
  BY <1>1, PairsOf DEF Intact
<1>3. DefinitionsAre(text, p, Tags(text, {"macro"}), Macros(text))
  BY <1>1, <1>2, MacrosAre
<1>4. \A a, b \in Nat : Statement(a) = Statement(b) => a = b
  BY DEF Statement, Span, TagStart, Width
<1>5. Tags(text, {"macro"}) \subseteq Openers(text) /\ Tags(text, {"macro"}) \subseteq Nat
  BY <1>1 DEF Tags, Openers, ScopeKinds, IsText
<1>6. ASSUME NEW m \in Elements(Macros(text))
      PROVE  \E j \in Tags(text, {"macro"}) : m = Macro(text, j) /\ m.body = OwnBody(text, p, j)
  <2>1. PICK j \in Tags(text, {"macro"}) : m = Macro(text, j) /\ m.span = Statement(j)
    BY <1>1, MacroIs
  <2>2. PICK h \in Tags(text, {"macro"}) : m.span = Statement(h) /\ m.body = OwnBody(text, p, h)
    BY <1>3 DEF DefinitionsAre
  <2>3. j = h
    BY <1>4, <1>5, <2>1, <2>2
  <2> QED BY <2>1, <2>2, <2>3
<1>7. ASSUME NEW j \in Tags(text, {"macro"})
      PROVE  \E m \in Elements(Macros(text)) : m = Macro(text, j)
  <2>1. PICK m \in Elements(Macros(text)) : m.span = Statement(j)
    BY <1>3 DEF DefinitionsAre
  <2>2. PICK h \in Tags(text, {"macro"}) : m = Macro(text, h) /\ m.span = Statement(h)
    BY <1>1, MacroIs
  <2>3. j = h
    BY <1>4, <1>5, <2>1, <2>2
  <2> QED BY <2>2, <2>3
<1>8. \A j \in Tags(text, {"macro"}) : Covers(OwnBody(text, p, j), r.span) <=> j \in Around(text, i)
  <2>1. 1 \in 1 .. 6
    OBVIOUS
  <2> QED BY <1>1, <1>2, <1>5, <2>1, BodiesNest
<1>9. ASSUME IsParameter(index[k], r)
      PROVE  \E j \in Around(text, i) \cap Tags(text, {"macro"}) : r.name \in Elements(Tail(text[j].names))
  <2>1. PICK m \in Elements(Macros(text)) : Covers(m.body, r.span) /\ \E q \in Elements(m.parameters) : q.name = r.name
    BY <1>1, <1>9 DEF IsParameter
  <2>2. PICK j \in Tags(text, {"macro"}) : m = Macro(text, j) /\ m.body = OwnBody(text, p, j)
    BY <1>6
  <2>3. r.name \in Elements(Tail(text[j].names))
    BY <1>1, <2>1, <2>2, ParametersAre
  <2> QED BY <1>8, <2>1, <2>2, <2>3
<1>10. ASSUME NEW j \in Around(text, i) \cap Tags(text, {"macro"}), r.name \in Elements(Tail(text[j].names))
       PROVE  IsParameter(index[k], r)
  <2>1. PICK m \in Elements(Macros(text)) : m = Macro(text, j)
    BY <1>7
  <2>2. PICK h \in Tags(text, {"macro"}) : m = Macro(text, h) /\ m.body = OwnBody(text, p, h)
    BY <1>6
  <2>3. j = h
    BY <1>4, <1>5, <2>1, <2>2 DEF Macro
  <2>4. Covers(m.body, r.span)
    BY <1>8, <2>2, <2>3
  <2>5. \E q \in Elements(m.parameters) : q.name = r.name
    BY <1>1, <1>10, <2>1, ParametersAre
  <2> QED BY <1>1, <2>4, <2>5 DEF IsParameter
<1> QED BY <1>9, <1>10

\* An identifier has a binding when it has a meaning.
LEMMA BoundIfMeant ==
  ASSUME IInv, NEW k \in Templates, Intact(texts[k]), NEW r \in Refs(index[k], {"identifier"}),
         NEW i, i = TagOf(r.span.lo)
  PROVE  InnermostBinding(index[k], r) = {} <=> MeantBy(texts[k], i, r.name) = {}
<1>1. {TagOf(v.span.lo) : v \in InnermostBinding(index[k], r)} = MeantBy(texts[k], i, r.name)
  BY ProjectBindsLexically DEF BindingsAreLexical
<1> QED BY <1>1

\* What is undefined at a print.
LEMMA UndefinedAt ==
  ASSUME IInv, NEW k \in Templates, Intact(texts[k]), NEW i \in Tags(texts[k], {"print"}),
         NEW name, name = texts[k][i].names[1]
  PROVE  Finding("E101", Name(i, 1)) \in RunChecks(texts[k], index, k) <=>
           /\ MeantBy(texts[k], i, name) = {}
           /\ ~\E j \in Around(texts[k], i) \cap Tags(texts[k], {"macro"}) : name \in Elements(Tail(texts[k][j].names))
           /\ ~DefinedApart(k, name)
<1> DEFINE parameter == \E j \in Around(texts[k], i) \cap Tags(texts[k], {"macro"}) :
                          name \in Elements(Tail(texts[k][j].names))
<1>1. PICK r \in Refs(index[k], {"identifier"}) :
        /\ r.name = name /\ r.kind = "identifier" /\ r.span = Name(i, 1)
        /\ \A q \in Elements(index[k].references) : q.span.lo = r.span.lo => q = r
  BY PrintUse
<1>2. i \in DOMAIN texts[k] /\ i \in Nat
  BY PrintUse
<1>3. TagOf(r.span.lo) = i
  BY <1>1, <1>2, TagOfName, 1 \in 1 .. 7
<1>4. index[k].syntaxErrors = <<>>
  <2>1. IsText(texts[k]) /\ index[k] = Extract(texts[k])
    BY IndexIs
  <2>2. index[k].syntaxErrors = SyntaxErrors(texts[k])
    BY <2>1 DEF Extract
  <2> QED BY <2>1, <2>2, NoErrors DEF Intact
<1>5. HostOwned(index, k, r) <=> MeantBy(texts[k], i, name) = {}
  <2>1. HostOwned(index, k, r) <=> InnermostBinding(index[k], r) = {}
    BY <1>1, Zenon DEF HostOwned
  <2> QED BY <1>1, <1>3, <2>1, BoundIfMeant
<1>6. IsParameter(index[k], r) <=> parameter
  BY <1>1, <1>2, ParameterIs
<1>7. ~\E q \in Refs(index[k], {"filter", "test"}) : q.span.lo = r.span.lo
  BY <1>1 DEF Refs
<1> HIDE DEF parameter
<1>8. Undefined(index, k, r) <=> MeantBy(texts[k], i, name) = {} /\ ~parameter /\ ~DefinedApart(k, name)
  BY <1>1, <1>5, <1>6, <1>7 DEF Undefined, DefinedApart
<1>9. Finding("E101", Name(i, 1)) \in E101(index, k) <=> Undefined(index, k, r)
  <2>1. ASSUME Finding("E101", Name(i, 1)) \in E101(index, k) PROVE Undefined(index, k, r)
    <3>1. PICK q \in Refs(index[k], {"identifier"}) :
            Undefined(index, k, q) /\ Finding("E101", Name(i, 1)) = Finding("E101", q.span)
      BY <2>1 DEF E101
    <3>2. q.span = Name(i, 1)
      BY <3>1 DEF Finding, Named
    <3>3. q = r
      BY <1>1, <3>2 DEF Refs
    <3> QED BY <3>1, <3>3
  <2>2. ASSUME Undefined(index, k, r) PROVE Finding("E101", Name(i, 1)) \in E101(index, k)
    BY <1>1, <2>2 DEF E101
  <2> QED BY <2>1, <2>2
<1> QED BY <1>4, <1>8, <1>9, OneCode DEF parameter

\* Undefined identifiers are those that are reported.
LEMMA ProjectReportsUndefined == IInv => UndefinedIsReported
<1> SUFFICES ASSUME IInv, NEW k \in Templates, Intact(texts[k]), NEW i \in Tags(texts[k], {"print"})
             PROVE  Finding("E101", Name(i, 1)) \in RunChecks(texts[k], index, k) <=>
                      /\ MeantBy(texts[k], i, texts[k][i].names[1]) = {}
                      /\ ~\E j \in Around(texts[k], i) \cap Tags(texts[k], {"macro"}) :
                            texts[k][i].names[1] \in Elements(Tail(texts[k][j].names))
                      /\ ~DefinedApart(k, texts[k][i].names[1])
  BY DEF UndefinedIsReported, IsParameterAt
<1> QED BY UndefinedAt

(***************************************************************************)
(* Offers.                                                                 *)
(***************************************************************************)
\* At the start of a use, whether the ends of a range belong to it makes no difference.
LEMMA WithinIsCovers ==
  ASSUME NEW a \in Nat, NEW q \in Nat, a < q, NEW i \in Nat
  PROVE  Within(Name(i, 1).lo, Span(TagEnd(a), TagStart(q))) <=> Covers(Span(TagEnd(a), TagStart(q)), Name(i, 1))
<1>1. Name(i, 1).lo = 8 * i + 1 /\ Name(i, 1).hi = 8 * i + 1 + 1
  BY TagOfName, 1 \in 1 .. 7
<1> PICK s : s = Span(TagEnd(a), TagStart(q))
  OBVIOUS
<1>2. s.lo = 8 * a + 7 /\ s.hi = 8 * q
  BY DEF Span, TagEnd, TagStart, Width
<1>3. Within(Name(i, 1).lo, s) <=> 8 * a + 7 <= 8 * i + 1 /\ 8 * i + 1 <= 8 * q
  BY <1>1, <1>2 DEF Within
<1>4. Covers(s, Name(i, 1)) <=> 8 * a + 7 < 8 * q /\ 8 * a + 7 <= 8 * i + 1 /\ 8 * i + 1 + 1 <= 8 * q
  BY <1>1, <1>2 DEF Covers, NonEmpty
<1>5. 8 * i + 1 <= 8 * q <=> 8 * i + 1 + 1 <= 8 * q
  OBVIOUS
<1> QED BY <1>3, <1>4, <1>5

\* So it is for the range of every variable.
LEMMA WithinRange ==
  ASSUME NEW text, IsText(text), Intact(text), NEW p, IsPairing(text, p), NEW i \in Nat \ {0},
         NEW v \in Elements(Variables(text, BuildScopeRegions(text)))
  PROVE  Within(Name(i, 1).lo, v.validRange) <=> Covers(v.validRange, Name(i, 1))
<1>1. PICK a \in Tags(text, BindingKinds) :
        \/ \E q : EndsAt(text, p, a, q) /\ v.validRange = Span(TagEnd(a), TagStart(q))
        \/ v.validRange = NoSpan
  BY RangesAreSpans
<1>2. a \in Nat
  BY DEF Tags, IsText
<1>3. CASE \E q : EndsAt(text, p, a, q) /\ v.validRange = Span(TagEnd(a), TagStart(q))
  <2>1. PICK q : EndsAt(text, p, a, q) /\ v.validRange = Span(TagEnd(a), TagStart(q))
    BY <1>3
  <2>2. q \in Nat /\ a < q
    BY <2>1 DEF EndsAt
  <2> QED BY <1>2, <2>1, <2>2, WithinIsCovers
<1>4. CASE v.validRange = NoSpan
  <2>1. Name(i, 1).lo = 8 * i + 1
    BY TagOfName, 1 \in 1 .. 7
  <2>2. v.validRange.lo = 0 /\ v.validRange.hi = 0
    BY <1>4 DEF NoSpan, Span
  <2>3. ~(8 * i + 1 <= 0)
    OBVIOUS
  <2> QED BY <2>1, <2>2, <2>3 DEF Within, Covers, NonEmpty
<1> QED BY <1>1, <1>3, <1>4

\* The variables offered at a use are those with a live binding.
LEMMA LocalsAre ==
  ASSUME IInv, NEW k \in Templates, Intact(texts[k]), NEW i \in DOMAIN texts[k], NEW name
  PROVE  name \in ScopeLocals(index[k], Name(i, 1).lo) <=> MeantBy(texts[k], i, name) # {}
<1> PICK text : text = texts[k]
  OBVIOUS
<1>1. IsText(text) /\ index[k].variables = Variables(text, BuildScopeRegions(text))
  BY IndexIs
<1>2. PICK p : IsPairing(text, p)
  BY <1>1, PairsOf DEF Intact
<1>3. PICK n \in Nat : DOMAIN text = 1 .. n
  BY <1>1 DEF IsText
<1> PICK M : M = LiveTags(text, i, name)
  OBVIOUS
<1> PICK V : V = Elements(Variables(text, BuildScopeRegions(text)))
  OBVIOUS
<1>4. \A v \in V : Within(Name(i, 1).lo, v.validRange) <=> Covers(v.validRange, Name(i, 1))
  <2>1. i \in Nat \ {0}
    BY <1>3
  <2> QED BY <1>1, <1>2, <2>1, WithinRange
<1>5. name \in ScopeLocals(index[k], Name(i, 1).lo) <=> \E v \in V : v.name = name /\ Covers(v.validRange, Name(i, 1))
  BY <1>1, <1>4 DEF ScopeLocals
<1>6. (\E v \in V : v.name = name /\ Covers(v.validRange, Name(i, 1))) <=> M # {}
  <2>1. ASSUME NEW v \in V, v.name = name, Covers(v.validRange, Name(i, 1)) PROVE M # {}
    <3>1. TagOf(v.span.lo) \in LiveTags(text, i, v.name)
      BY <1>1, <1>2, <2>1, CandidateIsLive, 1 \in 1 .. 6
    <3> QED BY <2>1, <3>1
  <2>2. ASSUME NEW j \in M PROVE \E v \in V : v.name = name /\ Covers(v.validRange, Name(i, 1))
    <3>1. \E v \in Elements(Variables(text, BuildScopeRegions(text))) :
            v.name = name /\ Covers(v.validRange, Name(i, 1)) /\ TagOf(v.span.lo) = j
      BY <1>1, <1>2, LiveIsCandidate, 1 \in 1 .. 6
    <3> QED BY <3>1
  <2> QED BY <2>1, <2>2
<1>7. MeantBy(text, i, name) = Latest(M)
  BY DEF MeantBy, LiveTags, LiveKinds
<1>8. M # {} <=> Latest(M) # {}
  <2>1. M \in SUBSET (0 .. n)
    BY <1>3 DEF LiveTags, Tags
  <2>2. ASSUME M # {} PROVE Latest(M) # {}
    <3>1. PICK o \in M : \A h \in M : h <= o
      BY <2>1, <2>2, GreatestExists
    <3> QED BY <3>1 DEF Latest
  <2>3. Latest(M) \subseteq M
    BY DEF Latest
  <2> QED BY <2>2, <2>3
<1> QED BY <1>5, <1>6, <1>7, <1>8

\* A loop is around a use when a variable of a loop is live there, its own or one set in its body.
LEMMA LoopAround ==
  ASSUME IInv, NEW k \in Templates, Intact(texts[k]), NEW i \in DOMAIN texts[k]
  PROVE  (\E v \in Elements(index[k].variables) : v.scope = "for" /\ Within(Name(i, 1).lo, v.validRange))
           <=> Around(texts[k], i) \cap Tags(texts[k], {"for"}) # {}
<1> PICK text : text = texts[k]
  OBVIOUS
<1> PICK regions : regions = BuildScopeRegions(text)
  OBVIOUS
<1>1. IsText(text) /\ index[k].variables = Variables(text, regions)
  BY IndexIs
<1>2. PICK p : IsPairing(text, p)
  BY <1>1, PairsOf DEF Intact
<1>3. PICK n \in Nat : DOMAIN text = 1 .. n
  BY <1>1 DEF IsText
<1>4. \A v \in Elements(Variables(text, regions)) :
        Within(Name(i, 1).lo, v.validRange) <=> Covers(v.validRange, Name(i, 1))
  <2>1. i \in Nat \ {0}
    BY <1>3
  <2> QED BY <1>1, <1>2, <2>1, WithinRange
<1>5. \A h \in Openers(text) : h \in Nat /\ p[h] \in Nat /\ p[h] = Partner(text, h) /\ IsExact(text, h)
  BY <1>1, <1>2, PairsAreNested, AllAreExact DEF IsPairing
<1>6. \A a \in Tags(text, BindingKinds) : a \in Nat /\ a \in DOMAIN text
  BY <1>3 DEF Tags
<1>7. ASSUME NEW v \in Elements(Variables(text, regions)), v.scope = "for", Covers(v.validRange, Name(i, 1))
      PROVE  \E j \in Around(text, i) : j \in Tags(text, {"for"})
  <2>1. PICK a \in Tags(text, BindingKinds) : \E l \in DOMAIN text[a].names :
          v = VariableOf(text, regions, a, l) /\ TagOf(v.span.lo) = a
    BY <1>1, VariableIs
  <2>2. a \in LiveTags(text, i, v.name)
    BY <1>1, <1>2, <1>7, <2>1, CandidateIsLive, 1 \in 1 .. 6
  <2>3. a \in Tags(text, LiveKinds) /\ LiveAt(text, a, i) /\ a < i
    BY <2>2 DEF LiveTags, LiveAt
  <2>4. v.scope = ScopeAt(text, regions, a)
    BY <2>1 DEF VariableOf
  <2>5. CASE text[a].kind = "for"
    <3>1. a \in Openers(text) /\ a \in Tags(text, {"for"})
      BY <1>6, <2>5 DEF Openers, Tags, ScopeKinds
    <3>2. i < Partner(text, a)
      BY <2>3, <2>5 DEF LiveAt
    <3> QED BY <2>3, <3>1, <3>2 DEF Around
  <2>6. CASE text[a].kind = "with"
    <3>1. v.scope = "with"
      BY <2>4, <2>6 DEF ScopeAt
    <3> QED BY <1>7, <3>1
  <2>7. CASE text[a].kind \in {"set", "set_block"}
    <3> PICK here : here = EnclosingRegion(regions, TagStart(a))
      OBVIOUS
    <3>1. v.scope = IF here = {} THEN "template" ELSE Only(here).scope
      BY <2>4, <2>7 DEF ScopeAt, ScopeForByte
    <3>2. here # {}
      BY <1>7, <3>1
    <3> PICK r : r = Only(here)
      OBVIOUS
    <3>3. r \in here /\ r.scope = "for"
      BY <1>7, <3>1, <3>2 DEF Only
    <3>4. r \in Elements(regions) /\ ByteIn(TagStart(a), r.span)
      BY <3>3 DEF EnclosingRegion
    <3>5. PICK h \in Openers(text), q \in DOMAIN text : IsRegion(text, r, h, q) /\ (IsExact(text, h) => q = p[h])
      BY <1>1, <1>2, <3>4, RegionsFound
    <3>6. text[h].kind = "for" /\ r.span.lo = TagEnd(h) /\ r.span.hi = TagStart(p[h])
      BY <1>5, <3>3, <3>5 DEF IsRegion, Span
    <3>7. TagEnd(h) <= TagStart(a) /\ TagStart(a) < TagStart(p[h])
      BY <3>4, <3>6 DEF ByteIn
    <3>8. h < a /\ a < p[h]
      BY <1>5, <1>6, <3>7 DEF TagEnd, TagStart, Width
    <3>9. h \in Around(text, a)
      BY <1>5, <3>8 DEF Around
    <3>10. i < Partner(text, h)
      <4>1. text[a].kind \notin {"for", "with"}
        BY <2>7
      <4> QED BY <2>3, <3>9, <4>1 DEF LiveAt
    <3>11. h < i
      BY <1>3, <1>5, <1>6, <2>3, <3>8
    <3>12. h \in Around(text, i) /\ h \in Tags(text, {"for"})
      BY <3>6, <3>10, <3>11 DEF Around, Tags, Openers
    <3> QED BY <3>12
  <2> QED BY <2>3, <2>5, <2>6, <2>7 DEF Tags, LiveKinds
<1>8. ASSUME NEW j \in Around(text, i), j \in Tags(text, {"for"})
      PROVE  \E v \in Elements(Variables(text, regions)) : v.scope = "for" /\ Covers(v.validRange, Name(i, 1))
  <2>1. j \in DOMAIN text /\ text[j].kind = "for" /\ j < i /\ i < Partner(text, j)
    BY <1>8 DEF Tags, Around
  <2>2. LiveAt(text, j, i)
    BY <2>1 DEF LiveAt
  <2>3. 1 \in DOMAIN text[j].names
    <3>1. Written(text[j])
      BY <1>1, <2>1, TagsAreWritten
    <3>2. text[j].names \in Seq(STRING) /\ text[j].names # <<>>
      BY <2>1, <3>1 DEF Written, NamingKinds
    <3> QED BY <3>2
  <2> PICK name : name = text[j].names[1]
    OBVIOUS
  <2>4. j \in LiveTags(text, i, name)
    BY <2>1, <2>2, <2>3 DEF LiveTags, Tags, LiveKinds, Elements
  <2>5. PICK v \in Elements(Variables(text, regions)) :
          v.name = name /\ Covers(v.validRange, Name(i, 1)) /\ TagOf(v.span.lo) = j
    BY <1>1, <1>2, <2>4, LiveIsCandidate, 1 \in 1 .. 6
  <2>6. PICK a \in Tags(text, BindingKinds) : \E l \in DOMAIN text[a].names :
          v = VariableOf(text, regions, a, l) /\ TagOf(v.span.lo) = a
    BY <1>1, VariableIs
  <2>7. v.scope = ScopeAt(text, regions, a) /\ a = j
    BY <2>5, <2>6 DEF VariableOf
  <2>8. v.scope = "for"
    BY <2>1, <2>7 DEF ScopeAt
  <2> QED BY <2>5, <2>8
<1> QED BY <1>1, <1>4, <1>7, <1>8

\* A macro or block is around a use when the use is in its body.
LEMMA BodyAround ==
  ASSUME NEW text, IsText(text), NEW p, IsPairing(text, p), NEW A, A \subseteq Openers(text), NEW definitions,
         DefinitionsAre(text, p, A, definitions), \A i, j \in A : Statement(i) = Statement(j) => i = j,
         NEW i \in DOMAIN text
  PROVE  (\E d \in Elements(definitions) : Within(Name(i, 1).lo, d.body)) <=> Around(text, i) \cap A # {}
<1>1. i \in Nat
  BY DEF IsText
<1>2. \A j \in A : Within(Name(i, 1).lo, OwnBody(text, p, j)) <=> j \in Around(text, i)
  <2> TAKE j \in A
  <2>1. j \in Openers(text)
    OBVIOUS
  <2>2. j \in Nat /\ p[j] \in Nat /\ j < p[j]
    BY <2>1, PairsAreNested
  <2>3. Within(Name(i, 1).lo, OwnBody(text, p, j)) <=> Covers(OwnBody(text, p, j), Name(i, 1))
    BY <1>1, <2>2, WithinIsCovers DEF OwnBody
  <2>4. Covers(OwnBody(text, p, j), Name(i, 1)) <=> j \in Around(text, i)
    BY <2>1, BodiesNest, 1 \in 1 .. 6
  <2> QED BY <2>3, <2>4
<1>3. ASSUME NEW d \in Elements(definitions), Within(Name(i, 1).lo, d.body) PROVE Around(text, i) \cap A # {}
  <2>1. PICK j \in A : d.body = OwnBody(text, p, j)
    BY DEF DefinitionsAre
  <2> QED BY <1>2, <1>3, <2>1
<1>4. ASSUME NEW j \in A, j \in Around(text, i)
      PROVE  \E d \in Elements(definitions) : Within(Name(i, 1).lo, d.body)
  <2>1. PICK d \in Elements(definitions) : d.span = Statement(j)
    BY DEF DefinitionsAre
  <2>2. PICK h \in A : d.span = Statement(h) /\ d.body = OwnBody(text, p, h)
    BY DEF DefinitionsAre
  <2>3. h = j
    BY <2>1, <2>2
  <2> QED BY <1>2, <1>4, <2>2, <2>3
<1> QED BY <1>3, <1>4

\* The special variables are offered where their construct is around.
LEMMA SpecialAround ==
  ASSUME IInv, NEW k \in Templates, Intact(texts[k]), NEW i \in DOMAIN texts[k]
  PROVE  /\ SpecialIn(index[k], Name(i, 1).lo, "loop") <=> Around(texts[k], i) \cap Tags(texts[k], {"for"}) # {}
         /\ SpecialIn(index[k], Name(i, 1).lo, "self") <=> Around(texts[k], i) \cap Tags(texts[k], {"block"}) # {}
         /\ SpecialIn(index[k], Name(i, 1).lo, "caller") <=> Around(texts[k], i) \cap Tags(texts[k], {"macro"}) # {}
<1> PICK text : text = texts[k]
  OBVIOUS
<1> PICK facts, byte : facts = index[k] /\ byte = Name(i, 1).lo
  OBVIOUS
<1>1. /\ IsText(text) /\ facts.macros = Macros(text)
      /\ facts.blocks = Blocks(text, BuildScopeRegions(text))
  BY IndexIs
<1>2. PICK p : IsPairing(text, p)
  BY <1>1, PairsOf DEF Intact
<1>3. \A a, b \in Nat : Statement(a) = Statement(b) => a = b
  BY DEF Statement, Span, TagStart, Width
<1>4. /\ Tags(text, {"macro"}) \subseteq Openers(text) /\ Tags(text, {"macro"}) \subseteq Nat
      /\ Tags(text, {"block"}) \subseteq Openers(text) /\ Tags(text, {"block"}) \subseteq Nat
  BY <1>1 DEF Tags, Openers, ScopeKinds, IsText
<1>5. SpecialIn(facts, byte, "loop") <=> \E v \in Elements(facts.variables) : v.scope = "for" /\ Within(byte, v.validRange)
  BY DEF SpecialIn
<1>6. SpecialIn(facts, byte, "self") <=> \E b \in Elements(facts.blocks) : Within(byte, b.body)
  <2>1. "self" # "loop" /\ "self" \in {"self", "super"}
    OBVIOUS
  <2> QED BY <2>1 DEF SpecialIn
<1>7. SpecialIn(facts, byte, "caller") <=> \E m \in Elements(facts.macros) : Within(byte, m.body)
  <2>1. "caller" # "loop" /\ "caller" \notin {"self", "super"} /\ "caller" \in {"caller", "varargs", "kwargs"}
    OBVIOUS
  <2> QED BY <2>1 DEF SpecialIn
<1>8. DefinitionsAre(text, p, Tags(text, {"macro"}), facts.macros)
  BY <1>1, <1>2, MacrosAre
<1>9. DefinitionsAre(text, p, Tags(text, {"block"}), facts.blocks)
  <2>1. BlocksAre(text, p, facts.blocks)
    BY <1>1, <1>2, PlainBlocks DEF Intact
  <2> QED BY <2>1 DEF BlocksAre, DefinitionsAre
<1>10. (\E m \in Elements(facts.macros) : Within(byte, m.body)) <=> Around(text, i) \cap Tags(text, {"macro"}) # {}
  BY <1>1, <1>2, <1>3, <1>4, <1>8, BodyAround
<1>11. (\E b \in Elements(facts.blocks) : Within(byte, b.body)) <=> Around(text, i) \cap Tags(text, {"block"}) # {}
  BY <1>1, <1>2, <1>3, <1>4, <1>9, BodyAround
<1>12. (\E v \in Elements(facts.variables) : v.scope = "for" /\ Within(byte, v.validRange))
         <=> Around(text, i) \cap Tags(text, {"for"}) # {}
  BY LoopAround
<1> QED BY <1>5, <1>6, <1>7, <1>10, <1>11, <1>12

\* Completion offers what is defined.
LEMMA ProjectOffersDefined == IInv => OfferedIsDefined
<1> USE DEF OfferedIsDefined
<1> SUFFICES ASSUME IInv, NEW k \in Templates, Intact(texts[k]), NEW i \in Tags(texts[k], {"print"})
             PROVE  LET name == texts[k][i].names[1]
                        anywhere == Registry.function \cup DOMAIN Registry.context
                        offered == CompleteExpression(index[k], Name(i, 1).lo)
                        inside(kind) == Around(texts[k], i) \cap Tags(texts[k], {kind}) # {}
                        special(n) == n \in Registry.variable \ anywhere /\ MeantBy(texts[k], i, n) = {}
                        bound == MeantBy(texts[k], i, name) # {}
                    IN  /\ name \notin anywhere \cup Registry.variable =>
                             /\ bound => name \in offered
                             /\ name \in offered => bound \/ IsParameterAt(texts[k], i, name)
                        /\ name \in offered \ anywhere => Finding("E101", Name(i, 1)) \notin RunChecks(texts[k], index, k)
                        /\ special("loop") => ("loop" \in offered <=> inside("for"))
                        /\ special("self") => ("self" \in offered <=> inside("block"))
                        /\ special("caller") => ("caller" \in offered <=> inside("macro"))
  BY Zenon
<1> HIDE DEF OfferedIsDefined
<1> PICK name, anywhere, offered : /\ name = texts[k][i].names[1]
                                   /\ anywhere = Registry.function \cup DOMAIN Registry.context
                                   /\ offered = CompleteExpression(index[k], Name(i, 1).lo)
  OBVIOUS
<1> PICK byte : byte = Name(i, 1).lo
  OBVIOUS
<1>1. i \in DOMAIN texts[k]
  BY DEF Tags
<1>2. \A n : n \in ScopeLocals(index[k], byte) <=> MeantBy(texts[k], i, n) # {}
  BY <1>1, LocalsAre
<1>3. offered = Registry.function \cup {n \in Registry.variable : SpecialIn(index[k], byte, n)}
                \cup DOMAIN Registry.context \cup ScopeLocals(index[k], byte)
  BY DEF CompleteExpression
<1>4. ASSUME name \notin anywhere \cup Registry.variable
      PROVE  name \in offered <=> MeantBy(texts[k], i, name) # {}
  BY <1>2, <1>3, <1>4
<1>5. ASSUME name \in offered \ anywhere PROVE Finding("E101", Name(i, 1)) \notin RunChecks(texts[k], index, k)
  <2>1. name \in Registry.variable \/ MeantBy(texts[k], i, name) # {}
    BY <1>2, <1>3, <1>5
  <2>2. name \in Registry.variable => DefinedApart(k, name)
    BY DEF DefinedApart
  <2> QED BY <2>1, <2>2, UndefinedAt
<1>6. \A n \in Registry.variable \ anywhere :
        MeantBy(texts[k], i, n) = {} => (n \in offered <=> SpecialIn(index[k], byte, n))
  BY <1>2, <1>3
<1>7. /\ SpecialIn(index[k], byte, "loop") <=> Around(texts[k], i) \cap Tags(texts[k], {"for"}) # {}
      /\ SpecialIn(index[k], byte, "self") <=> Around(texts[k], i) \cap Tags(texts[k], {"block"}) # {}
      /\ SpecialIn(index[k], byte, "caller") <=> Around(texts[k], i) \cap Tags(texts[k], {"macro"}) # {}
  BY <1>1, SpecialAround
<1>8. /\ name \notin anywhere \cup Registry.variable =>
           /\ MeantBy(texts[k], i, name) # {} => name \in offered
           /\ name \in offered => MeantBy(texts[k], i, name) # {} \/ IsParameterAt(texts[k], i, name)
      /\ name \in offered \ anywhere => Finding("E101", Name(i, 1)) \notin RunChecks(texts[k], index, k)
      /\ "loop" \in Registry.variable \ anywhere /\ MeantBy(texts[k], i, "loop") = {} =>
           ("loop" \in offered <=> Around(texts[k], i) \cap Tags(texts[k], {"for"}) # {})
      /\ "self" \in Registry.variable \ anywhere /\ MeantBy(texts[k], i, "self") = {} =>
           ("self" \in offered <=> Around(texts[k], i) \cap Tags(texts[k], {"block"}) # {})
      /\ "caller" \in Registry.variable \ anywhere /\ MeantBy(texts[k], i, "caller") = {} =>
           ("caller" \in offered <=> Around(texts[k], i) \cap Tags(texts[k], {"macro"}) # {})
  BY <1>4, <1>5, <1>6, <1>7
<1> QED BY <1>8

\* In every reachable project a use is reported as undefined exactly if nothing defines it (e101),
\* completion offers what is bound, nothing else but a function, a hinted name or a parameter, and nothing
\* that is reported (completions), and a name coloured as unknown is one the checks report (semantic_tokens).
THEOREM UsesDefined == Spec => []UsesAreDefinedAlike
<1>1. IInv => UsesAreDefinedAlike
  BY ProjectReportsUndefined, ProjectOffersDefined, ProjectColours DEF UsesAreDefinedAlike
<1> QED BY <1>1, AlwaysProject, PTL

(***************************************************************************)
(* Stacks of tags.  A scan that pairs tags on its own keeps a stack; in a  *)
(* well nested text it has the open tags of the kinds the scan looks at,   *)
(* in their order.                                                         *)
(***************************************************************************)
Rising(s) == \A k, l \in DOMAIN s : k < l => s[k] < s[l]

\* s has the open tags of K after tag j, in their order.
OpenIn(text, p, K, j, s) ==
  /\ s \in Seq(Nat) /\ Rising(s)
  /\ \A k \in DOMAIN s : s[k] \in K /\ s[k] \in OpenTags(text, p, j)
  /\ \A i \in OpenTags(text, p, j) : i \in K => \E k \in DOMAIN s : s[k] = i

\* A sequence, what is appended and what is taken off.
LEMMA AppendIs ==
  ASSUME NEW S, NEW s \in Seq(S), NEW x \in S
  PROVE  /\ Append(s, x) \in Seq(S) /\ DOMAIN Append(s, x) = 1 .. Len(s) + 1 /\ Len(s) \in Nat
         /\ Append(s, x)[Len(s) + 1] = x /\ \A k \in 1 .. Len(s) : Append(s, x)[k] = s[k]
OBVIOUS

\* The last element of a sequence and what is before it.
LEMMA FrontIs ==
  ASSUME NEW S, NEW s \in Seq(S), s # <<>>
  PROVE  /\ Len(s) \in Nat /\ Len(s) >= 1 /\ Last(s) = s[Len(s)] /\ Last(s) \in S /\ DOMAIN s = 1 .. Len(s)
         /\ Front(s) \in Seq(S) /\ DOMAIN Front(s) = 1 .. Len(s) - 1
         /\ \A k \in 1 .. Len(s) - 1 : Front(s)[k] = s[k]
<1>1. Len(s) \in Nat /\ Len(s) >= 1 /\ DOMAIN s = 1 .. Len(s)
  OBVIOUS
<1>2. Front(s) = SubSeq(s, 1, Len(s) - 1) /\ Last(s) = s[Len(s)]
  BY DEF Front, Last
<1>3. SubSeq(s, 1, Len(s) - 1) = [k \in 1 .. Len(s) - 1 |-> s[k]]
  <2>1. Len(s) - 1 \in Nat
    BY <1>1
  <2> QED BY <1>1, <2>1
<1>4. \A k \in 1 .. Len(s) - 1 : s[k] \in S
  BY <1>1
<1>5. [k \in 1 .. Len(s) - 1 |-> s[k]] \in Seq(S)
  BY <1>1, <1>4
<1>6. Last(s) \in S
  BY <1>1, <1>2
<1> QED BY <1>1, <1>2, <1>3, <1>5, <1>6

\* A greater number behind a rising sequence, and one less at its end.
LEMMA RisingAppend ==
  ASSUME NEW s \in Seq(Nat), Rising(s), NEW x \in Nat, \A k \in DOMAIN s : s[k] < x
  PROVE  Rising(Append(s, x))
<1> PICK n \in Nat : n = Len(s) /\ DOMAIN s = 1 .. n
  OBVIOUS
<1> PICK t : t = Append(s, x)
  OBVIOUS
<1>1. DOMAIN t = 1 .. n + 1 /\ t[n + 1] = x /\ \A k \in 1 .. n : t[k] = s[k]
  BY AppendIs
<1>2. ASSUME NEW k \in 1 .. n + 1, NEW l \in 1 .. n + 1, k < l PROVE t[k] < t[l]
  <2>1. k \in 1 .. n
    BY <1>2
  <2>2. CASE l = n + 1
    BY <1>1, <2>1, <2>2
  <2>3. CASE l \in 1 .. n
    BY <1>1, <1>2, <2>1, <2>3 DEF Rising
  <2> QED BY <2>2, <2>3
<1> QED BY <1>1, <1>2 DEF Rising

\* What is before the last element of a rising sequence rises to it.
LEMMA RisingFront ==
  ASSUME NEW s \in Seq(Nat), Rising(s), s # <<>>
  PROVE  /\ Rising(Front(s)) /\ \A k \in DOMAIN Front(s) : Front(s)[k] < Last(s)
         /\ \A k \in DOMAIN s : s[k] # Last(s) => k \in DOMAIN Front(s)
<1> PICK n \in Nat : n = Len(s) /\ n >= 1 /\ DOMAIN s = 1 .. n
  BY FrontIs
<1>1. /\ DOMAIN Front(s) = 1 .. n - 1 /\ Last(s) = s[n] /\ \A k \in 1 .. n - 1 : Front(s)[k] = s[k]
  BY FrontIs
<1>2. \A k \in 1 .. n - 1 : k \in 1 .. n /\ k < n
  OBVIOUS
<1>3. Rising(Front(s))
  BY <1>1, <1>2 DEF Rising
<1>4. \A k \in 1 .. n - 1 : Front(s)[k] < Last(s)
  <2>1. n \in 1 .. n
    OBVIOUS
  <2> QED BY <1>1, <1>2, <2>1 DEF Rising
<1>5. \A k \in 1 .. n : k # n => k \in 1 .. n - 1
  OBVIOUS
<1> QED BY <1>1, <1>3, <1>4, <1>5

\* An opening tag is pushed.
LEMMA PushOpen ==
  ASSUME NEW text, IsText(text), NEW p, IsPairing(text, p), NEW K, NEW j \in Nat, NEW s, OpenIn(text, p, K, j, s),
         NEW t \in Openers(text), t = j + 1, t \in K
  PROVE  OpenIn(text, p, K, t, Append(s, t))
<1>1. /\ s \in Seq(Nat) /\ Rising(s)
      /\ \A k \in DOMAIN s : s[k] \in K /\ s[k] \in OpenTags(text, p, j)
      /\ \A i \in OpenTags(text, p, j) : i \in K => \E k \in DOMAIN s : s[k] = i
  BY DEF OpenIn
<1> PICK n \in Nat : n = Len(s) /\ DOMAIN s = 1 .. n
  BY <1>1
<1> PICK u : u = Append(s, t)
  OBVIOUS
<1>2. t \in Nat
  OBVIOUS
<1>3. u \in Seq(Nat) /\ DOMAIN u = 1 .. n + 1 /\ u[n + 1] = t /\ \A k \in 1 .. n : u[k] = s[k]
  BY <1>1, <1>2, AppendIs
<1>4. OpenTags(text, p, t) = OpenTags(text, p, j) \cup {t}
  BY OpenAfterOpen
<1>5. \A i \in OpenTags(text, p, j) : i \in Nat /\ i < t
  <2> TAKE i \in OpenTags(text, p, j)
  <2>1. i \in Openers(text) /\ i <= j
    BY DEF OpenTags
  <2>2. i \in Nat
    BY <2>1, PairsAreNested
  <2> QED BY <2>1, <2>2
<1>6. Rising(u)
  BY <1>1, <1>2, <1>5, RisingAppend
<1>7. \A k \in 1 .. n + 1 : k = n + 1 \/ k \in 1 .. n
  OBVIOUS
<1>8. n + 1 \in 1 .. n + 1 /\ \A k \in 1 .. n : k \in 1 .. n + 1
  OBVIOUS
<1>9. \A k \in DOMAIN u : u[k] \in K /\ u[k] \in OpenTags(text, p, t)
  BY <1>1, <1>3, <1>4, <1>7
<1>10. \A i \in OpenTags(text, p, t) : i \in K => \E k \in DOMAIN u : u[k] = i
  BY <1>1, <1>3, <1>4, <1>8
<1> QED BY <1>3, <1>6, <1>9, <1>10 DEF OpenIn

\* The end of a tag of K finds its own at the end of the stack.
LEMMA PopOpen ==
  ASSUME NEW text, IsText(text), NEW p, IsPairing(text, p), NEW K, NEW j \in Nat, NEW s, OpenIn(text, p, K, j, s),
         NEW i \in Openers(text), i \in K, p[i] = j + 1
  PROVE  s # <<>> /\ Last(s) = i /\ OpenIn(text, p, K, j + 1, Front(s))
<1>1. /\ s \in Seq(Nat) /\ Rising(s)
      /\ \A k \in DOMAIN s : s[k] \in K /\ s[k] \in OpenTags(text, p, j)
      /\ \A h \in OpenTags(text, p, j) : h \in K => \E k \in DOMAIN s : s[k] = h
  BY DEF OpenIn
<1> PICK n \in Nat : n = Len(s) /\ DOMAIN s = 1 .. n
  BY <1>1
<1>2. /\ OpenTags(text, p, j + 1) = OpenTags(text, p, j) \ {i}
      /\ i \in OpenTags(text, p, j) /\ \A g \in OpenTags(text, p, j) : g <= i
  BY OpenAfterClose
<1>3. PICK k \in 1 .. n : s[k] = i
  BY <1>1, <1>2
<1>4. s # <<>>
  BY <1>1, <1>3
<1>5. k = n
  <2> SUFFICES ASSUME k # n PROVE FALSE
    OBVIOUS
  <2>1. n \in 1 .. n /\ k < n
    BY <1>3
  <2>2. s[k] < s[n] /\ s[n] <= i /\ s[n] \in Nat /\ s[k] \in Nat
    BY <1>1, <1>2, <1>3, <2>1 DEF Rising
  <2> QED BY <1>3, <2>2
<1>6. Last(s) = i
  BY <1>1, <1>3, <1>4, <1>5, FrontIs
<1> PICK u : u = Front(s)
  OBVIOUS
<1>7. u \in Seq(Nat) /\ DOMAIN u = 1 .. n - 1 /\ \A l \in 1 .. n - 1 : u[l] = s[l]
  BY <1>1, <1>4, FrontIs
<1>8. /\ Rising(u) /\ \A l \in DOMAIN u : u[l] < i
      /\ \A l \in DOMAIN s : s[l] # i => l \in DOMAIN u
  BY <1>1, <1>4, <1>6, RisingFront
<1>9. \A l \in 1 .. n - 1 : l \in 1 .. n
  OBVIOUS
<1>10. \A l \in DOMAIN u : u[l] \in K /\ u[l] \in OpenTags(text, p, j + 1)
  <2> TAKE l \in DOMAIN u
  <2>1. u[l] = s[l] /\ l \in DOMAIN s
    BY <1>7, <1>9
  <2>2. u[l] # i
    <3>1. u[l] < i /\ u[l] \in Nat
      BY <1>7, <1>8
    <3> QED BY <3>1
  <2> QED BY <1>1, <1>2, <2>1, <2>2
<1>11. \A h \in OpenTags(text, p, j + 1) : h \in K => \E l \in DOMAIN u : u[l] = h
  <2> TAKE h \in OpenTags(text, p, j + 1)
  <2> HAVE h \in K
  <2>1. h \in OpenTags(text, p, j) /\ h # i
    BY <1>2
  <2>2. PICK l \in DOMAIN s : s[l] = h
    BY <1>1, <2>1
  <2>3. l \in DOMAIN u
    BY <1>8, <2>1, <2>2
  <2> QED BY <1>7, <2>2, <2>3
<1> QED BY <1>4, <1>6, <1>7, <1>8, <1>10, <1>11 DEF OpenIn

\* A tag that neither opens nor ends one of K leaves the stack.
LEMMA KeepOpen ==
  ASSUME NEW text, IsText(text), NEW p, IsPairing(text, p), NEW K, NEW j \in Nat, NEW s, OpenIn(text, p, K, j, s),
         ~(j + 1 \in Openers(text) /\ j + 1 \in K), \A i \in Openers(text) : i \in K => p[i] # j + 1
  PROVE  OpenIn(text, p, K, j + 1, s)
<1>1. /\ s \in Seq(Nat) /\ Rising(s)
      /\ \A k \in DOMAIN s : s[k] \in K /\ s[k] \in OpenTags(text, p, j)
      /\ \A i \in OpenTags(text, p, j) : i \in K => \E k \in DOMAIN s : s[k] = i
  BY DEF OpenIn
<1>2. \A i \in Openers(text) : i \in Nat /\ p[i] \in Nat
  BY PairsAreNested
<1>3. \A i \in K : i \in OpenTags(text, p, j + 1) <=> i \in OpenTags(text, p, j)
  <2> TAKE i \in K
  <2>1. i \in Openers(text) => (i <= j + 1 /\ j + 1 < p[i] <=> i <= j /\ j < p[i])
    <3> HAVE i \in Openers(text)
    <3>1. i # j + 1 /\ p[i] # j + 1
      OBVIOUS
    <3> QED BY <1>2, <3>1
  <2> QED BY <2>1 DEF OpenTags
<1> QED BY <1>1, <1>3 DEF OpenIn

(***************************************************************************)
(* Folds.                                                                  *)
(***************************************************************************)
\* The first word of a tag.
LEMMA KeywordIs ==
  ASSUME NEW tag
  PROVE  /\ tag.kind \in Expressions => Keyword(tag) = None
         /\ tag.kind = "set_block" => Keyword(tag) = "set"
         /\ tag.kind = "named_endblock" => Keyword(tag) = "endblock"
         /\ tag.kind = "invoke_in" => Keyword(tag) = "if"
         /\ tag.kind = "malformed" => Keyword(tag) = "from"
         /\ tag.kind \notin Expressions \cup {"set_block", "named_endblock", "invoke_in", "malformed"} =>
              Keyword(tag) = tag.kind
<1>1. "set_block" \notin Expressions /\ "named_endblock" \notin Expressions /\ "invoke_in" \notin Expressions
      /\ "malformed" \notin Expressions
  BY DEF Expressions
<1>2. tag.kind \in Expressions => Keyword(tag) = None
  <2> HAVE tag.kind \in Expressions
  <2>1. tag.kind # "set_block" /\ tag.kind # "named_endblock" /\ tag.kind # "invoke_in" /\ tag.kind # "malformed"
    BY <1>1
  <2> QED BY <2>1, Zenon DEF Keyword
<1>3. tag.kind = "set_block" => Keyword(tag) = "set"
  <2> HAVE tag.kind = "set_block"
  <2>1. tag.kind \notin Expressions /\ tag.kind # "named_endblock" /\ tag.kind # "invoke_in" /\ tag.kind # "malformed"
    BY <1>1
  <2> QED BY <2>1, Zenon DEF Keyword
<1>4. tag.kind = "named_endblock" => Keyword(tag) = "endblock"
  <2> HAVE tag.kind = "named_endblock"
  <2>1. tag.kind \notin Expressions /\ tag.kind # "set_block" /\ tag.kind # "invoke_in" /\ tag.kind # "malformed"
    BY <1>1
  <2> QED BY <2>1, Zenon DEF Keyword
<1>5. tag.kind = "invoke_in" => Keyword(tag) = "if"
  <2> HAVE tag.kind = "invoke_in"
  <2>1. tag.kind \notin Expressions /\ tag.kind # "set_block" /\ tag.kind # "named_endblock" /\ tag.kind # "malformed"
    BY <1>1
  <2> QED BY <2>1, Zenon DEF Keyword
<1>6. tag.kind = "malformed" => Keyword(tag) = "from"
  <2> HAVE tag.kind = "malformed"
  <2>1. tag.kind \notin Expressions /\ tag.kind # "set_block" /\ tag.kind # "named_endblock" /\ tag.kind # "invoke_in"
    BY <1>1
  <2> QED BY <2>1, Zenon DEF Keyword
<1>7. tag.kind \notin Expressions \cup {"set_block", "named_endblock", "invoke_in", "malformed"} =>
        Keyword(tag) = tag.kind
  <2> HAVE tag.kind \notin Expressions \cup {"set_block", "named_endblock", "invoke_in", "malformed"}
  <2>1. tag.kind \notin Expressions /\ tag.kind # "set_block" /\ tag.kind # "named_endblock" /\ tag.kind # "invoke_in"
        /\ tag.kind # "malformed"
    OBVIOUS
  <2> QED BY <2>1, Zenon DEF Keyword
<1> QED BY <1>2, <1>3, <1>4, <1>5, <1>6, <1>7

\* The words of the tags that open and end scopes.
LEMMA ScopeWords ==
  ASSUME NEW tag
  PROVE  /\ tag.kind \in ScopeKinds =>
              Keyword(tag) = tag.kind /\ tag.kind \in Pairs /\ tag.kind \notin DOMAIN Opened \cup Standalone
         /\ ClosedKind(tag) # None =>
              /\ Keyword(tag) \in DOMAIN Opened /\ Opened[Keyword(tag)] = ClosedKind(tag)
              /\ Keyword(tag) \notin Standalone /\ Keyword(tag) \notin Pairs /\ tag.kind \notin ScopeKinds
<1>0. \A word \in Pairs : word \notin DOMAIN Opened
  <2> TAKE word \in Pairs
  <2>1. PICK end \in DOMAIN Opened : word = Opened[end]
    BY DEF Pairs
  <2> QED BY <2>1 DEF Opened
<1>1. tag.kind \in ScopeKinds => tag.kind \notin Expressions \cup {"set_block", "named_endblock", "invoke_in", "malformed"}
  BY DEF ScopeKinds, Expressions
<1>2. tag.kind \in ScopeKinds => Keyword(tag) = tag.kind
  BY <1>1, KeywordIs
<1>3. tag.kind \in ScopeKinds => tag.kind \in Pairs
  BY DEF ScopeKinds, Pairs, Opened
<1>4. tag.kind \in ScopeKinds => tag.kind \notin DOMAIN Opened \cup Standalone
  BY DEF ScopeKinds, Opened, Standalone, None
<1>5. CASE tag.kind \in DOMAIN Closes
  <2>1. tag.kind \notin Expressions \cup {"set_block", "named_endblock", "invoke_in", "malformed"}
    BY <1>5 DEF Closes, Expressions
  <2>2. Keyword(tag) = tag.kind /\ ClosedKind(tag) = Closes[tag.kind]
    BY <1>5, <2>1, KeywordIs DEF ClosedKind
  <2>3. tag.kind \in DOMAIN Opened /\ Opened[tag.kind] = Closes[tag.kind]
    BY <1>5 DEF Opened, Closes
  <2>4. tag.kind \notin Standalone /\ tag.kind \notin ScopeKinds
    BY <1>5 DEF Closes, Standalone, None, ScopeKinds
  <2>5. tag.kind \notin Pairs
    BY <1>0, <2>3
  <2> QED BY <2>2, <2>3, <2>4, <2>5
<1>6. CASE tag.kind \notin DOMAIN Closes
  <2> SUFFICES ASSUME ClosedKind(tag) # None
               PROVE  /\ Keyword(tag) \in DOMAIN Opened /\ Opened[Keyword(tag)] = ClosedKind(tag)
                      /\ Keyword(tag) \notin Standalone /\ Keyword(tag) \notin Pairs /\ tag.kind \notin ScopeKinds
    BY <1>2, <1>3, <1>4
  <2>1. tag.kind = "named_endblock" /\ ClosedKind(tag) = "block"
    BY <1>6 DEF ClosedKind
  <2>2. Keyword(tag) = "endblock"
    BY <2>1, KeywordIs
  <2>3. "endblock" \in DOMAIN Opened /\ Opened["endblock"] = "block" /\ "endblock" \notin Standalone
    BY DEF Opened, Standalone, None
  <2>4. "endblock" \notin Pairs /\ "named_endblock" \notin ScopeKinds
    BY <1>0, <2>3 DEF ScopeKinds
  <2> QED BY <2>1, <2>2, <2>3, <2>4
<1> QED BY <1>2, <1>3, <1>4, <1>5, <1>6

FoldStates == [stack : Seq(Nat), pairs : SUBSET (Nat \X Nat)]

\* What a tag does to the folds.
LEMMA FoldAtIs ==
  ASSUME NEW text, NEW i, NEW acc \in FoldStates, NEW word, word = Keyword(text[i])
  PROVE  /\ word \in DOMAIN Opened => FoldAt(text, acc, i) = CloseLast(text, acc, i)
         /\ word \in Standalone => FoldAt(text, acc, i) = acc
         /\ word \notin DOMAIN Opened \cup Standalone =>
              FoldAt(text, acc, i) = [stack |-> Append(acc.stack, i), pairs |-> acc.pairs]
<1>1. word \in Standalone => word \notin DOMAIN Opened
  BY DEF Standalone, Opened, None
<1>2. word \in DOMAIN Opened => FoldAt(text, acc, i) = CloseLast(text, acc, i)
  BY <1>1, Zenon DEF FoldAt
<1>3. word \in Standalone => FoldAt(text, acc, i) = acc
  BY <1>1, Zenon DEF FoldAt
<1>4. word \notin DOMAIN Opened \cup Standalone => FoldAt(text, acc, i) = [acc EXCEPT !.stack = Append(@, i)]
  <2> HAVE word \notin DOMAIN Opened \cup Standalone
  <2>1. word \notin DOMAIN Opened /\ word \notin Standalone
    OBVIOUS
  <2> QED BY <2>1, Zenon DEF FoldAt
<1>5. acc = [stack |-> acc.stack, pairs |-> acc.pairs]
  BY DEF FoldStates
<1>6. [acc EXCEPT !.stack = Append(@, i)] = [stack |-> Append(acc.stack, i), pairs |-> acc.pairs]
  BY <1>5
<1> QED BY <1>2, <1>3, <1>4, <1>6

\* What an end tag does to the folds.
LEMMA CloseLastIs ==
  ASSUME NEW text, NEW i \in Nat, NEW acc \in FoldStates
  PROVE  \/ CloseLast(text, acc, i) = acc
         \/ /\ acc.stack # <<>>
            /\ CloseLast(text, acc, i) = [stack |-> Front(acc.stack), pairs |-> acc.pairs \cup {<<Last(acc.stack), i>>}]
BY Zenon DEF CloseLast

\* What a tag may do to the folds.
LEMMA FoldStep ==
  ASSUME NEW text, NEW i \in Nat, NEW acc \in FoldStates
  PROVE  \/ FoldAt(text, acc, i) = acc
         \/ FoldAt(text, acc, i) = [stack |-> Append(acc.stack, i), pairs |-> acc.pairs]
         \/ /\ acc.stack # <<>>
            /\ FoldAt(text, acc, i) = [stack |-> Front(acc.stack), pairs |-> acc.pairs \cup {<<Last(acc.stack), i>>}]
<1> PICK word : word = Keyword(text[i])
  OBVIOUS
<1>1. /\ word \in DOMAIN Opened => FoldAt(text, acc, i) = CloseLast(text, acc, i)
      /\ word \in Standalone => FoldAt(text, acc, i) = acc
      /\ word \notin DOMAIN Opened \cup Standalone =>
           FoldAt(text, acc, i) = [stack |-> Append(acc.stack, i), pairs |-> acc.pairs]
  BY FoldAtIs
<1>2. \/ CloseLast(text, acc, i) = acc
      \/ /\ acc.stack # <<>>
         /\ CloseLast(text, acc, i) = [stack |-> Front(acc.stack), pairs |-> acc.pairs \cup {<<Last(acc.stack), i>>}]
  BY CloseLastIs
<1> QED BY <1>1, <1>2

\* A step keeps the type of the folds.
LEMMA FoldAtType ==
  ASSUME NEW text, NEW i \in Nat, NEW acc \in FoldStates
  PROVE  FoldAt(text, acc, i) \in FoldStates
<1>1. acc.stack \in Seq(Nat) /\ acc.pairs \in SUBSET (Nat \X Nat)
  BY DEF FoldStates
<1>3. CASE FoldAt(text, acc, i) = [stack |-> Append(acc.stack, i), pairs |-> acc.pairs]
  <2>1. Append(acc.stack, i) \in Seq(Nat)
    BY <1>1
  <2> QED BY <1>1, <1>3, <2>1 DEF FoldStates
<1>4. CASE /\ acc.stack # <<>>
           /\ FoldAt(text, acc, i) = [stack |-> Front(acc.stack), pairs |-> acc.pairs \cup {<<Last(acc.stack), i>>}]
  <2>1. Front(acc.stack) \in Seq(Nat) /\ Last(acc.stack) \in Nat
    BY <1>1, <1>4, FrontIs
  <2>2. acc.pairs \cup {<<Last(acc.stack), i>>} \in SUBSET (Nat \X Nat)
    BY <1>1, <2>1
  <2> QED BY <1>4, <2>1, <2>2 DEF FoldStates
<1>5. CASE FoldAt(text, acc, i) = acc
  BY <1>5
<1>6. \/ FoldAt(text, acc, i) = acc
      \/ FoldAt(text, acc, i) = [stack |-> Append(acc.stack, i), pairs |-> acc.pairs]
      \/ /\ acc.stack # <<>>
         /\ FoldAt(text, acc, i) = [stack |-> Front(acc.stack), pairs |-> acc.pairs \cup {<<Last(acc.stack), i>>}]
  BY FoldStep, Zenon
<1> QED BY <1>3, <1>4, <1>5, <1>6

\* The scan for folds, tag by tag.
FoldsBy(text, after) ==
  /\ FoldRanges(text) = after[Len(text)].pairs /\ after[0] = Unpaired
  /\ \A i \in 1 .. Len(text) : after[i] = FoldAt(text, after[i - 1], i)
  /\ \A i \in 0 .. Len(text) : after[i] \in FoldStates

\* What a tag does to the folds, by its word.
LEMMA FoldsByTag ==
  ASSUME NEW text, IsText(text)
  PROVE  \E after : FoldsBy(text, after)
<1> DEFINE n == Len(text)
           Pass(g, i) == IF i = 0 THEN Unpaired ELSE FoldAt(text, g[i - 1], i)
           Rec(g) == g = [i \in 0 .. n |-> Pass(g, i)]
           after == CHOOSE g : Rec(g)
<1>1. n \in Nat
  BY DEF IsText
<1>2. FoldRanges(text) = after[n].pairs
  BY Zenon DEF FoldRanges, Scan
<1>3. Unpaired \in FoldStates
  <2>1. <<>> \in Seq(Nat) /\ {} \in SUBSET (Nat \X Nat)
    OBVIOUS
  <2> QED BY <2>1 DEF Unpaired, FoldStates
<1> HIDE DEF n
<1>4. \A i \in 1 .. n : \A acc \in FoldStates : FoldAt(text, acc, i) \in FoldStates
  BY <1>1, FoldAtType
<1>5. \E g : Rec(g)
  <2> DEFINE step == [i \in 1 .. n |-> [acc \in FoldStates |-> FoldAt(text, acc, i)]]
  <2>1. step \in [1 .. n -> [FoldStates -> FoldStates]]
    BY <1>4
  <2>2. PICK f \in [0 .. n -> FoldStates] : Steps(f, n, Unpaired, step)
    <3> HIDE DEF step
    <3> QED BY <1>1, <1>3, <2>1, Recursion
  <2>3. ASSUME NEW i \in 0 .. n PROVE f[i] = Pass(f, i)
    <3>1. i # 0 => i \in 1 .. n /\ i - 1 \in 0 .. n
      BY <1>1
    <3>2. i = 0 => f[i] = Unpaired
      BY <2>2 DEF Steps
    <3>3. i # 0 => f[i] = FoldAt(text, f[i - 1], i)
      <4>1. i # 0 => f[i] = step[i][f[i - 1]] /\ f[i - 1] \in FoldStates
        BY <2>2, <3>1 DEF Steps
      <4> QED BY <3>1, <4>1
    <3> QED BY <3>2, <3>3
  <2> HIDE DEF Pass
  <2>4. f = [i \in 0 .. n |-> Pass(f, i)]
    BY <2>3
  <2> QED BY <2>4
<1>6. Rec(after)
  <2> HIDE DEF Rec
  <2> QED BY <1>5
<1> HIDE DEF after
<1>7. ASSUME NEW i \in 0 .. n PROVE after[i] = Pass(after, i)
  <2> HIDE DEF Pass
  <2> QED BY <1>6
<1>8. after[0] = Unpaired /\ \A i \in 1 .. n : after[i] = FoldAt(text, after[i - 1], i)
  <2>1. 0 \in 0 .. n /\ \A i \in 1 .. n : i \in 0 .. n /\ i # 0
    BY <1>1
  <2> QED BY <1>7, <2>1
<1>9. ASSUME NEW i \in 0 .. n PROVE after[i] \in FoldStates
  <2>1. after[0] \in FoldStates
    BY <1>3, <1>8
  <2>2. ASSUME NEW j \in 1 .. i, after[j - 1] \in FoldStates PROVE after[j] \in FoldStates
    <3>1. j \in 1 .. n
      BY <1>1
    <3> QED BY <1>4, <1>8, <2>2, <3>1
  <2>3. i \in Nat
    BY <1>1
  <2> QED BY <2>1, <2>2, <2>3, RecursionType
<1> QED BY <1>2, <1>8, <1>9 DEF FoldsBy, n

\* One tag of the scan.
LEMMA FoldNext ==
  ASSUME NEW text, NEW after, FoldsBy(text, after), Len(text) \in Nat, NEW t \in 1 .. Len(text),
         NEW acc, acc = after[t - 1], NEW word, word = Keyword(text[t])
  PROVE  /\ acc \in FoldStates
         /\ \/ after[t] = acc
            \/ after[t] = [stack |-> Append(acc.stack, t), pairs |-> acc.pairs]
            \/ /\ acc.stack # <<>>
               /\ after[t] = [stack |-> Front(acc.stack), pairs |-> acc.pairs \cup {<<Last(acc.stack), t>>}]
         /\ word \in DOMAIN Opened => after[t] = CloseLast(text, acc, t)
         /\ word \in Standalone => after[t] = acc
         /\ word \notin DOMAIN Opened \cup Standalone =>
              after[t] = [stack |-> Append(acc.stack, t), pairs |-> acc.pairs]
<1>1. t \in Nat /\ t - 1 \in 0 .. Len(text)
  OBVIOUS
<1>2. acc \in FoldStates
  BY <1>1 DEF FoldsBy
<1>3. after[t] = FoldAt(text, acc, t)
  BY DEF FoldsBy
<1>4. ASSUME NEW a \in FoldStates
      PROVE  /\ \/ FoldAt(text, a, t) = a
                \/ FoldAt(text, a, t) = [stack |-> Append(a.stack, t), pairs |-> a.pairs]
                \/ /\ a.stack # <<>>
                   /\ FoldAt(text, a, t) = [stack |-> Front(a.stack), pairs |-> a.pairs \cup {<<Last(a.stack), t>>}]
  BY <1>1, FoldStep
<1>5. ASSUME NEW a \in FoldStates
      PROVE  /\ word \in DOMAIN Opened => FoldAt(text, a, t) = CloseLast(text, a, t)
             /\ word \in Standalone => FoldAt(text, a, t) = a
             /\ word \notin DOMAIN Opened \cup Standalone =>
                  FoldAt(text, a, t) = [stack |-> Append(a.stack, t), pairs |-> a.pairs]
  BY FoldAtIs
<1> QED BY <1>2, <1>3, <1>4, <1>5

\* After n tags the folds found do not cross, and no open tag is inside of one.
Apart(n, acc) ==
  /\ acc \in FoldStates /\ Rising(acc.stack)
  /\ \A k \in DOMAIN acc.stack : acc.stack[k] <= n
  /\ \A f \in acc.pairs : f[1] < f[2] /\ f[2] <= n
  /\ \A f \in acc.pairs : \A k \in DOMAIN acc.stack : ~(f[1] < acc.stack[k] /\ acc.stack[k] < f[2])
  /\ ~Crossing(acc.pairs)

\* A tag that is pushed is behind all folds.
LEMMA ApartPush ==
  ASSUME NEW n \in Nat, NEW acc, Apart(n, acc), NEW t, t = n + 1,
         NEW next, next = [stack |-> Append(acc.stack, t), pairs |-> acc.pairs]
  PROVE  Apart(t, next)
<1> PICK s, P : s = acc.stack /\ P = acc.pairs
  OBVIOUS
<1>1. /\ s \in Seq(Nat) /\ P \in SUBSET (Nat \X Nat) /\ Rising(s)
      /\ \A k \in DOMAIN s : s[k] <= n
      /\ \A f \in P : f[1] < f[2] /\ f[2] <= n
      /\ \A f \in P : \A k \in DOMAIN s : ~(f[1] < s[k] /\ s[k] < f[2])
      /\ ~Crossing(P)
  BY DEF Apart, FoldStates
<1> PICK m \in Nat : m = Len(s) /\ DOMAIN s = 1 .. m
  BY <1>1
<1> PICK u : u = Append(s, t)
  OBVIOUS
<1>2. t \in Nat /\ n < t
  OBVIOUS
<1>3. u \in Seq(Nat) /\ DOMAIN u = 1 .. m + 1 /\ u[m + 1] = t /\ \A k \in 1 .. m : u[k] = s[k]
  BY <1>1, <1>2, AppendIs
<1>4. \A k \in 1 .. m : s[k] \in Nat /\ s[k] <= n
  <2>1. \A k \in DOMAIN s : s[k] \in Nat
    BY <1>1
  <2> QED BY ONLY <1>1, <2>1, DOMAIN s = 1 .. m
<1>5. \A k \in 1 .. m : s[k] < t
  <2> TAKE k \in 1 .. m
  <2>1. s[k] \in Nat /\ s[k] <= n
    BY <1>4
  <2> QED BY <1>2, <2>1
<1>6. Rising(u)
  BY <1>1, <1>2, <1>5, RisingAppend
<1>7. \A f \in P : f[1] \in Nat /\ f[2] \in Nat
  BY <1>1
<1>8. \A k \in 1 .. m + 1 : k = m + 1 \/ k \in 1 .. m
  OBVIOUS
<1>9. \A k \in DOMAIN u : u[k] <= t
  BY <1>2, <1>3, <1>4, <1>5, <1>8
<1>10. \A f \in P : f[1] < f[2] /\ f[2] <= t
  BY <1>1, <1>2, <1>7
<1>11. \A f \in P : \A k \in DOMAIN u : ~(f[1] < u[k] /\ u[k] < f[2])
  <2> TAKE f \in P
  <2> TAKE k \in DOMAIN u
  <2>1. CASE k = m + 1
    BY <1>1, <1>2, <1>3, <1>7, <2>1
  <2>2. CASE k \in 1 .. m
    BY <1>1, <1>3, <2>2
  <2> QED BY <1>3, <1>8, <2>1, <2>2
<1>12. next = [stack |-> u, pairs |-> P]
  OBVIOUS
<1>13. next \in FoldStates /\ next.stack = u /\ next.pairs = P
  BY <1>1, <1>3, <1>12 DEF FoldStates
<1> QED BY <1>1, <1>6, <1>9, <1>10, <1>11, <1>13 DEF Apart

\* A tag that ends the last open one makes a fold around those behind it.
LEMMA ApartPop ==
  ASSUME NEW n \in Nat, NEW acc, Apart(n, acc), acc.stack # <<>>, NEW t, t = n + 1,
         NEW next, next = [stack |-> Front(acc.stack), pairs |-> acc.pairs \cup {<<Last(acc.stack), t>>}]
  PROVE  Apart(t, next)
<1> PICK s, P : s = acc.stack /\ P = acc.pairs
  OBVIOUS
<1>1. /\ s \in Seq(Nat) /\ P \in SUBSET (Nat \X Nat) /\ Rising(s)
      /\ \A k \in DOMAIN s : s[k] <= n
      /\ \A f \in P : f[1] < f[2] /\ f[2] <= n
      /\ \A f \in P : \A k \in DOMAIN s : ~(f[1] < s[k] /\ s[k] < f[2])
      /\ ~Crossing(P)
  BY DEF Apart, FoldStates
<1> PICK m \in Nat : m = Len(s) /\ DOMAIN s = 1 .. m
  BY <1>1
<1> PICK u, i : u = Front(s) /\ i = Last(s)
  OBVIOUS
<1>2. t \in Nat /\ n < t
  OBVIOUS
<1>3. /\ m >= 1 /\ i = s[m] /\ i \in Nat /\ m \in 1 .. m
      /\ u \in Seq(Nat) /\ DOMAIN u = 1 .. m - 1 /\ \A k \in 1 .. m - 1 : u[k] = s[k] /\ k \in 1 .. m
  <2>1. /\ m >= 1 /\ i = s[m] /\ i \in Nat
        /\ u \in Seq(Nat) /\ DOMAIN u = 1 .. m - 1 /\ \A k \in 1 .. m - 1 : u[k] = s[k]
    BY <1>1, FrontIs
  <2>2. m \in 1 .. m /\ \A k \in 1 .. m - 1 : k \in 1 .. m
    BY <2>1
  <2> QED BY <2>1, <2>2
<1>4. Rising(u) /\ \A k \in DOMAIN u : u[k] < i
  BY <1>1, RisingFront
<1>5. i <= n
  <2>1. m \in DOMAIN s
    BY <1>3
  <2>2. s[m] <= n
    BY <1>1, <2>1
  <2> QED BY <1>3, <2>2
<1> PICK e : e = <<i, t>>
  OBVIOUS
<1>6. e \in Nat \X Nat /\ e[1] = i /\ e[2] = t
  BY <1>2, <1>3
<1>7. \A f \in P : f[1] \in Nat /\ f[2] \in Nat /\ f[2] < t
  BY <1>1, <1>2
<1>8. \A k \in DOMAIN u : u[k] \in Nat /\ u[k] <= t
  <2> TAKE k \in DOMAIN u
  <2>1. u[k] = s[k] /\ k \in DOMAIN s
    BY <1>3
  <2>2. s[k] \in Nat /\ s[k] <= n
    BY <1>1, <2>1
  <2> QED BY <1>2, <2>1, <2>2
<1>9. \A f \in P \cup {e} : f[1] < f[2] /\ f[2] <= t
  BY <1>1, <1>2, <1>3, <1>5, <1>6, <1>7
<1>10. \A f \in P \cup {e} : \A k \in DOMAIN u : ~(f[1] < u[k] /\ u[k] < f[2])
  <2> TAKE f \in P \cup {e}
  <2> TAKE k \in DOMAIN u
  <2>1. CASE f = e
    <3>1. u[k] < i /\ u[k] \in Nat /\ f[1] = i
      BY <1>4, <1>6, <1>8, <2>1
    <3> QED BY <1>3, <3>1
  <2>2. CASE f \in P
    BY <1>1, <1>3, <2>2
  <2> QED BY <2>1, <2>2
<1>11. ~Crossing(P \cup {e})
  <2> SUFFICES ASSUME NEW f \in P \cup {e}, NEW g \in P \cup {e}, f[1] < g[1], g[1] < f[2], f[2] < g[2] PROVE FALSE
    BY DEF Crossing
  <2>1. CASE f \in P /\ g \in P
    BY <1>1, <2>1 DEF Crossing
  <2>2. CASE f = e
    <3>1. g[2] <= t /\ g[2] \in Nat
      BY <1>2, <1>6, <1>7
    <3> QED BY <1>2, <1>6, <2>2, <3>1
  <2>3. CASE f \in P /\ g = e
    BY <1>1, <1>3, <1>6, <2>3
  <2> QED BY <2>1, <2>2, <2>3
<1>12. next = [stack |-> u, pairs |-> P \cup {e}]
  OBVIOUS
<1>13. next \in FoldStates /\ next.stack = u /\ next.pairs = P \cup {e}
  BY <1>1, <1>3, <1>6, <1>12 DEF FoldStates
<1> QED BY <1>3, <1>4, <1>8, <1>9, <1>10, <1>11, <1>13 DEF Apart

\* The folds of any text do not cross.
LEMMA FoldsAreApart ==
  ASSUME NEW text, IsText(text)
  PROVE  ~Crossing(FoldRanges(text))
<1> PICK n \in Nat : n = Len(text)
  BY DEF IsText
<1>1. PICK after : FoldsBy(text, after)
  BY FoldsByTag
<1> DEFINE N == {j \in Nat : j <= n => Apart(j, after[j])}
<1>2. 0 \in N
  <2>1. after[0] = Unpaired
    BY <1>1 DEF FoldsBy
  <2>2. after[0] \in FoldStates
    <3>1. 0 \in 0 .. n
      OBVIOUS
    <3> QED BY <1>1, <3>1 DEF FoldsBy
  <2>3. after[0].stack = <<>> /\ after[0].pairs = {}
    BY <2>1 DEF Unpaired
  <2> QED BY <2>2, <2>3 DEF Apart, Rising, Crossing
<1>3. ASSUME NEW j \in Nat, j \in N PROVE j + 1 \in N
  <2> SUFFICES ASSUME j + 1 <= n PROVE Apart(j + 1, after[j + 1])
    OBVIOUS
  <2> PICK t \in Nat : t = j + 1
    OBVIOUS
  <2> PICK acc : acc = after[j]
    OBVIOUS
  <2>1. t \in 1 .. n /\ j \in 0 .. n /\ t - 1 = j
    OBVIOUS
  <2>2. acc \in FoldStates
    BY <1>1, <2>1 DEF FoldsBy
  <2>3. Apart(j, acc)
    BY <1>3, <2>1
  <2>4. \/ after[t] = acc
        \/ after[t] = [stack |-> Append(acc.stack, t), pairs |-> acc.pairs]
        \/ /\ acc.stack # <<>>
           /\ after[t] = [stack |-> Front(acc.stack), pairs |-> acc.pairs \cup {<<Last(acc.stack), t>>}]
    <3>1. t \in 1 .. Len(text) /\ Len(text) \in Nat /\ acc = after[t - 1]
      BY <2>1
    <3>2. PICK word : word = Keyword(text[t])
      OBVIOUS
    <3> HIDE DEF N
    <3> QED BY ONLY <1>1, <3>1, <3>2, FoldNext
  <2>5. CASE after[t] = acc
    <3>1. \A k \in DOMAIN acc.stack : acc.stack[k] \in Nat
      BY <2>2 DEF FoldStates
    <3>2. \A f \in acc.pairs : f[2] \in Nat
      BY <2>2 DEF FoldStates
    <3>3. /\ \A k \in DOMAIN acc.stack : acc.stack[k] <= t
          /\ \A f \in acc.pairs : f[1] < f[2] /\ f[2] <= t
      BY <2>3, <3>1, <3>2 DEF Apart
    <3>4. Apart(t, acc)
      BY <2>3, <3>3 DEF Apart
    <3> QED BY <2>5, <3>4
  <2>6. CASE after[t] = [stack |-> Append(acc.stack, t), pairs |-> acc.pairs]
    BY <2>3, <2>6, ApartPush
  <2>7. CASE /\ acc.stack # <<>>
             /\ after[t] = [stack |-> Front(acc.stack), pairs |-> acc.pairs \cup {<<Last(acc.stack), t>>}]
    BY <2>3, <2>7, ApartPop
  <2> QED BY <2>4, <2>5, <2>6, <2>7
<1> HIDE DEF N
<1>4. n \in N
  BY <1>2, <1>3, Induction
<1>5. Apart(n, after[n])
  BY <1>4 DEF N
<1> QED BY <1>1, <1>5 DEF Apart, FoldsBy

\* In a text of scopes a tag that neither opens nor ends one has no fold.
LEMMA PlainWords ==
  ASSUME NEW text, Structured(text), NEW t \in DOMAIN text, ClosedKind(text[t]) = None, text[t].kind \notin ScopeKinds
  PROVE  Keyword(text[t]) \in Standalone /\ (text[t].kind # "set" => Keyword(text[t]) # "set")
<1>1. text[t].kind \notin DOMAIN Closes /\ text[t].kind # "named_endblock"
  <2>1. "block" # None /\ \A kind \in DOMAIN Closes : Closes[kind] # None
    <3>1. \A kind \in DOMAIN Closes : Closes[kind] \in ScopeKinds
      BY DEF Closes, ScopeKinds
    <3>2. None \notin ScopeKinds /\ "block" \in ScopeKinds
      BY DEF ScopeKinds, None
    <3> QED BY <3>1, <3>2
  <2> QED BY <2>1 DEF ClosedKind
<1>2. text[t].kind \in Expressions \/ text[t].kind = "malformed" \/ text[t].kind \in Standalone \ {None}
  BY <1>1 DEF Structured
<1>3. CASE text[t].kind \in Expressions
  <2>1. None \in Standalone /\ None # "set"
    BY DEF Standalone, None
  <2> QED BY <1>3, <2>1, KeywordIs
<1>4. CASE text[t].kind = "malformed"
  <2>1. "from" \in Standalone
    BY DEF Standalone
  <2> QED BY <1>4, <2>1, KeywordIs
<1>5. CASE text[t].kind \in Standalone \ {None} /\ text[t].kind \notin Expressions
  <2>1. text[t].kind \notin {"set_block", "named_endblock", "invoke_in", "malformed"}
    BY <1>5 DEF Standalone
  <2>2. Keyword(text[t]) = text[t].kind
    BY <1>5, <2>1, KeywordIs
  <2> QED BY <1>5, <2>2
<1> QED BY <1>2, <1>3, <1>4, <1>5

\* In a well nested text of scopes the stack of the folds has the open tags, and the folds are what is closed.
LEMMA FoldsArePairs ==
  ASSUME NEW text, IsText(text), Structured(text), NEW p, IsPairing(text, p)
  PROVE  FoldRanges(text) = {<<i, p[i]>> : i \in Openers(text)}
<1> PICK n \in Nat : n = Len(text) /\ DOMAIN text = 1 .. n
  BY DEF IsText
<1>1. PICK after : FoldsBy(text, after)
  BY FoldsByTag
<1>2. \A i \in Openers(text) : i \in Nat /\ p[i] \in Nat /\ i < p[i] /\ p[i] \in DOMAIN text /\ p[i] \notin Openers(text)
  BY PairsAreNested
<1> DEFINE Closed(j) == {i \in Openers(text) : p[i] <= j}
           Found(j, acc) == /\ OpenIn(text, p, Openers(text), j, acc.stack)
                            /\ acc.pairs = {<<i, p[i]>> : i \in Closed(j)}
           N == {j \in Nat : j <= n => Found(j, after[j])}
<1>3. 0 \in N
  <2>1. after[0].stack = <<>> /\ after[0].pairs = {}
    BY <1>1 DEF FoldsBy, Unpaired
  <2>2. OpenTags(text, p, 0) = {}
    <3>1. \A i \in Openers(text) : ~(i <= 0)
      BY DEF Openers, Tags
    <3> QED BY <3>1 DEF OpenTags
  <2>3. OpenIn(text, p, Openers(text), 0, <<>>)
    BY <2>2 DEF OpenIn, Rising
  <2>4. Closed(0) = {}
    BY <1>2
  <2> QED BY <2>1, <2>3, <2>4
<1>4. ASSUME NEW j \in Nat, j \in N PROVE j + 1 \in N
  <2> SUFFICES ASSUME j + 1 <= n PROVE Found(j + 1, after[j + 1])
    OBVIOUS
  <2> PICK t \in Nat : t = j + 1
    OBVIOUS
  <2> PICK acc : acc = after[j]
    OBVIOUS
  <2> PICK word : word = Keyword(text[t])
    OBVIOUS
  <2>1. t \in 1 .. n /\ j \in 0 .. n /\ t - 1 = j
    OBVIOUS
  <2>2. acc \in FoldStates
    BY <1>1, <2>1 DEF FoldsBy
  <2>3. OpenIn(text, p, Openers(text), j, acc.stack) /\ acc.pairs = {<<i, p[i]>> : i \in Closed(j)}
    BY <1>4, <2>1
  <2>4. /\ word \in DOMAIN Opened => after[t] = CloseLast(text, acc, t)
        /\ word \in Standalone => after[t] = acc
        /\ word \notin DOMAIN Opened \cup Standalone =>
             after[t] = [stack |-> Append(acc.stack, t), pairs |-> acc.pairs]
    <3>1. t - 1 = j /\ t \in 1 .. Len(text) /\ Len(text) \in Nat
      BY <2>1
    <3>2. acc = after[t - 1]
      BY <3>1
    <3> HIDE DEF N, Found, Closed
    <3>3. word = Keyword(text[t])
      OBVIOUS
    <3>4. FoldsBy(text, after)
      BY <1>1
    <3>5. /\ acc \in FoldStates
          /\ \/ after[t] = acc
             \/ after[t] = [stack |-> Append(acc.stack, t), pairs |-> acc.pairs]
             \/ /\ acc.stack # <<>>
                /\ after[t] = [stack |-> Front(acc.stack), pairs |-> acc.pairs \cup {<<Last(acc.stack), t>>}]
          /\ word \in DOMAIN Opened => after[t] = CloseLast(text, acc, t)
          /\ word \in Standalone => after[t] = acc
          /\ word \notin DOMAIN Opened \cup Standalone =>
               after[t] = [stack |-> Append(acc.stack, t), pairs |-> acc.pairs]
      BY ONLY <3>1, <3>2, <3>3, <3>4, FoldNext
    <3> QED BY <3>5
  <2>5. CASE t \in Openers(text)
    <3>1. text[t].kind \in ScopeKinds
      BY <2>5 DEF Openers, Tags
    <3>2. word \notin DOMAIN Opened \cup Standalone
      BY <3>1, ScopeWords
    <3>3. after[t].stack = Append(acc.stack, t) /\ after[t].pairs = acc.pairs
      BY <2>4, <3>2
    <3>4. OpenIn(text, p, Openers(text), t, Append(acc.stack, t))
      BY <2>3, <2>5, PushOpen
    <3>5. Closed(t) = Closed(j)
      <4>1. \A i \in Openers(text) : p[i] <= t <=> p[i] <= j
        <5> TAKE i \in Openers(text)
        <5>1. p[i] # t /\ p[i] \in Nat
          BY <1>2, <2>5
        <5> QED BY <5>1
      <4> QED BY <4>1
    <3> QED BY <2>3, <3>3, <3>4, <3>5
  <2>6. CASE \E i \in Openers(text) : p[i] = t
    <3>1. PICK i \in Openers(text) : p[i] = t
      BY <2>6
    <3>2. ClosedKind(text[t]) = text[i].kind /\ text[i].kind \in ScopeKinds
      BY <3>1, PairsAreNested
    <3>3. text[i].kind # None
      BY <3>2 DEF ScopeKinds, None
    <3>4. word \in DOMAIN Opened /\ Opened[word] = text[i].kind /\ Keyword(text[i]) = text[i].kind
      BY <3>2, <3>3, ScopeWords
    <3>5. acc.stack # <<>> /\ Last(acc.stack) = i /\ OpenIn(text, p, Openers(text), t, Front(acc.stack))
      BY <2>3, <3>1, PopOpen
    <3>6. CloseLast(text, acc, t) = [stack |-> Front(acc.stack), pairs |-> acc.pairs \cup {<<i, t>>}]
      <4>1. ~(acc.stack = <<>> \/ Keyword(text[Last(acc.stack)]) # Opened[Keyword(text[t])])
        BY <3>4, <3>5
      <4> QED BY <3>5, <4>1, Zenon DEF CloseLast
    <3>7. after[t].stack = Front(acc.stack) /\ after[t].pairs = acc.pairs \cup {<<i, t>>}
      BY <2>4, <3>4, <3>6
    <3>8. Closed(t) = Closed(j) \cup {i}
      <4>1. \A h \in Openers(text) : p[h] = t => h = i
        BY <3>1, PairsAreNested
      <4>2. \A h \in Openers(text) : p[h] <= t <=> p[h] <= j \/ p[h] = t
        BY <1>2
      <4> QED BY <3>1, <4>1, <4>2
    <3> HIDE DEF Closed
    <3>9. {<<h, p[h]>> : h \in Closed(t)} = {<<h, p[h]>> : h \in Closed(j)} \cup {<<i, p[i]>>}
      BY <3>8
    <3> QED BY <2>3, <3>1, <3>5, <3>7, <3>9
  <2>7. CASE t \notin Openers(text) /\ ~\E i \in Openers(text) : p[i] = t
    <3>1. t \notin Closers(text)
      BY <2>7 DEF IsPairing
    <3>2. word \in Standalone
      <4>1. t \in DOMAIN text
        BY <2>1
      <4>2. ClosedKind(text[t]) = None /\ text[t].kind \notin ScopeKinds
        BY <2>7, <3>1, <4>1 DEF Closers, Openers, Tags
      <4> QED BY <4>1, <4>2, PlainWords
    <3>3. after[t] = acc
      BY <2>4, <3>2
    <3>4. OpenIn(text, p, Openers(text), t, acc.stack)
      BY <2>3, <2>7, KeepOpen
    <3>5. Closed(t) = Closed(j)
      <4>1. \A i \in Openers(text) : p[i] <= t <=> p[i] <= j
        <5> TAKE i \in Openers(text)
        <5>1. p[i] # t /\ p[i] \in Nat
          BY <1>2, <2>7
        <5> QED BY <5>1
      <4> QED BY <4>1
    <3> QED BY <2>3, <3>3, <3>4, <3>5
  <2> QED BY <2>5, <2>6, <2>7
<1>5. n \in N
  <2> HIDE DEF N
  <2> QED BY <1>3, <1>4, Induction
<1>6. Closed(n) = Openers(text)
  <2>1. \A i \in Openers(text) : p[i] <= n
    BY <1>2
  <2> QED BY <2>1
<1>7. after[n].pairs = {<<i, p[i]>> : i \in Closed(n)}
  BY <1>5
<1> QED BY <1>1, <1>6, <1>7 DEF FoldsBy

\* Folds follow the nesting.
LEMMA ProjectFolds == IInv => FoldsAreNesting
<1> SUFFICES ASSUME IInv, NEW k \in Templates
             PROVE  /\ ~Crossing(FoldRanges(texts[k]))
                    /\ WellNested(texts[k]) /\ Structured(texts[k]) =>
                         FoldRanges(texts[k]) = {<<i, Partner(texts[k], i)>> : i \in Openers(texts[k])}
  BY Zenon DEF FoldsAreNesting
<1> PICK text : text = texts[k]
  OBVIOUS
<1>1. IsText(text)
  BY IndexIs
<1>2. ~Crossing(FoldRanges(text))
  BY <1>1, FoldsAreApart
<1>3. ASSUME WellNested(text), Structured(text)
      PROVE  FoldRanges(text) = {<<i, Partner(text, i)>> : i \in Openers(text)}
  <2>1. PICK p : IsPairing(text, p)
    BY <1>1, <1>3, PairsOf
  <2>2. FoldRanges(text) = {<<i, p[i]>> : i \in Openers(text)}
    BY <1>1, <1>3, <2>1, FoldsArePairs
  <2>3. \A i \in Openers(text) : p[i] = Partner(text, i)
    BY <2>1 DEF IsPairing
  <2> QED BY <2>2, <2>3
<1> QED BY <1>2, <1>3

(***************************************************************************)
(* Echoes and end tags.  Their stacks have labels of the open tags.        *)
(***************************************************************************)
\* The labels of the tags of a stack.
Labels(s, label, labels) ==
  /\ s \in Seq(Nat) /\ DOMAIN labels = DOMAIN s /\ Len(labels) = Len(s)
  /\ \A k \in DOMAIN s : labels[k] = label[s[k]]

\* A tag is pushed with its label, and taken off with it.
LEMMA LabelsPush ==
  ASSUME NEW S, NEW label, NEW s, NEW labels \in Seq(S), Labels(s, label, labels), NEW t \in Nat,
         NEW x \in S, x = label[t]
  PROVE  Labels(Append(s, t), label, Append(labels, x)) /\ Append(labels, x) \in Seq(S)
<1>0. s \in Seq(Nat) /\ Len(labels) = Len(s)
  BY DEF Labels
<1> PICK n \in Nat : n = Len(s) /\ DOMAIN s = 1 .. n /\ Len(labels) = n /\ DOMAIN labels = 1 .. n
  BY <1>0
<1> PICK u, w : u = Append(s, t) /\ w = Append(labels, x)
  OBVIOUS
<1>1. /\ u \in Seq(Nat) /\ DOMAIN u = 1 .. n + 1 /\ u[n + 1] = t /\ \A k \in 1 .. n : u[k] = s[k]
  BY AppendIs DEF Labels
<1>2. /\ w \in Seq(S) /\ DOMAIN w = 1 .. n + 1 /\ w[n + 1] = x /\ \A k \in 1 .. n : w[k] = labels[k]
  BY AppendIs
<1>3. \A k \in 1 .. n + 1 : w[k] = label[u[k]]
  <2> TAKE k \in 1 .. n + 1
  <2>1. CASE k = n + 1
    BY <1>1, <1>2, <2>1
  <2>2. CASE k \in 1 .. n
    BY <1>1, <1>2, <2>2 DEF Labels
  <2> QED BY <2>1, <2>2
<1>4. Len(u) = n + 1 /\ Len(w) = n + 1
  BY <1>1, <1>2
<1> QED BY <1>1, <1>2, <1>3, <1>4 DEF Labels

\* What is taken off a stack of labels is the label of the last tag.
LEMMA LabelsPop ==
  ASSUME NEW S, NEW label, NEW s, NEW labels \in Seq(S), Labels(s, label, labels), s # <<>>,
         NEW i, i = Last(s)
  PROVE  /\ labels # <<>> /\ Last(labels) = label[i]
         /\ Labels(Front(s), label, Front(labels))
<1>0. s \in Seq(Nat) /\ Len(labels) = Len(s)
  BY DEF Labels
<1> PICK n \in Nat : n = Len(s) /\ DOMAIN s = 1 .. n /\ Len(labels) = n /\ DOMAIN labels = 1 .. n
  BY <1>0
<1>1. s \in Seq(Nat)
  BY DEF Labels
<1> PICK u, w : u = Front(s) /\ w = Front(labels)
  OBVIOUS
<1>2. /\ n >= 1 /\ Last(s) = s[n] /\ n \in 1 .. n
      /\ u \in Seq(Nat) /\ DOMAIN u = 1 .. n - 1 /\ \A k \in 1 .. n - 1 : u[k] = s[k] /\ k \in 1 .. n
  <2>1. /\ n >= 1 /\ Last(s) = s[n]
        /\ u \in Seq(Nat) /\ DOMAIN u = 1 .. n - 1 /\ \A k \in 1 .. n - 1 : u[k] = s[k]
    BY <1>1, FrontIs
  <2>2. n \in 1 .. n /\ \A k \in 1 .. n - 1 : k \in 1 .. n
    BY <2>1
  <2> QED BY <2>1, <2>2
<1>3. labels # <<>>
  BY <1>2
<1>4. /\ Last(labels) = labels[n]
      /\ DOMAIN w = 1 .. n - 1 /\ \A k \in 1 .. n - 1 : w[k] = labels[k]
  BY <1>3, FrontIs
<1>5. \A k \in 1 .. n - 1 : w[k] = label[u[k]]
  BY <1>2, <1>4 DEF Labels
<1>6. Last(labels) = label[i]
  BY <1>2, <1>4 DEF Labels
<1>7. Len(u) = n - 1 /\ Len(w) = n - 1
  BY <1>2, <1>4
<1> QED BY <1>2, <1>3, <1>4, <1>5, <1>6, <1>7 DEF Labels

EchoStates(S) == [stack : Seq(S), echoes : SUBSET (Nat \X S)]
Silent == [stack |-> <<>>, echoes |-> {}]

\* What a tag does to the echoes.
LEMMA EchoAtIs ==
  ASSUME NEW text, NEW i, NEW S, NEW acc \in EchoStates(S), NEW word, word = Keyword(text[i])
  PROVE  /\ word = "block" =>
              EchoAt(text, acc, i) = [stack |-> Append(acc.stack, text[i].names[1]), echoes |-> acc.echoes]
         /\ word = "endblock" /\ acc.stack # <<>> =>
              EchoAt(text, acc, i) =
                [stack |-> Front(acc.stack),
                 echoes |-> acc.echoes \cup {<<j, Last(acc.stack)>> : j \in {i} \cap Tags(text, {"endblock"})}]
         /\ ~(word = "block" \/ (word = "endblock" /\ acc.stack # <<>>)) => EchoAt(text, acc, i) = acc
<1>1. word = "block" => word # "endblock"
  OBVIOUS
<1>2. word = "block" => EchoAt(text, acc, i) = [acc EXCEPT !.stack = Append(@, text[i].names[1])]
  BY <1>1, Zenon DEF EchoAt
<1>3. word = "endblock" /\ acc.stack # <<>> =>
        EchoAt(text, acc, i) =
          [stack |-> Front(acc.stack),
           echoes |-> acc.echoes \cup {<<j, Last(acc.stack)>> : j \in {i} \cap Tags(text, {"endblock"})}]
  BY <1>1, Zenon DEF EchoAt
<1>4. ~(word = "block" \/ (word = "endblock" /\ acc.stack # <<>>)) => EchoAt(text, acc, i) = acc
  BY Zenon DEF EchoAt
<1>5. acc = [stack |-> acc.stack, echoes |-> acc.echoes]
  BY DEF EchoStates
<1>6. [acc EXCEPT !.stack = Append(@, text[i].names[1])] =
        [stack |-> Append(acc.stack, text[i].names[1]), echoes |-> acc.echoes]
  BY <1>5
<1> QED BY <1>2, <1>3, <1>4, <1>6

\* A step keeps the type of the echoes.
LEMMA EchoAtType ==
  ASSUME NEW text, NEW i \in Nat, NEW S, NEW acc \in EchoStates(S), text[i].names[1] \in S
  PROVE  EchoAt(text, acc, i) \in EchoStates(S)
<1> PICK word : word = Keyword(text[i])
  OBVIOUS
<1>0. /\ word = "block" =>
           EchoAt(text, acc, i) = [stack |-> Append(acc.stack, text[i].names[1]), echoes |-> acc.echoes]
      /\ word = "endblock" /\ acc.stack # <<>> =>
           EchoAt(text, acc, i) =
             [stack |-> Front(acc.stack),
              echoes |-> acc.echoes \cup {<<j, Last(acc.stack)>> : j \in {i} \cap Tags(text, {"endblock"})}]
      /\ ~(word = "block" \/ (word = "endblock" /\ acc.stack # <<>>)) => EchoAt(text, acc, i) = acc
  BY EchoAtIs
<1>1. acc.stack \in Seq(S) /\ acc.echoes \in SUBSET (Nat \X S)
  BY DEF EchoStates
<1>2. CASE word = "block"
  <2>1. EchoAt(text, acc, i) = [stack |-> Append(acc.stack, text[i].names[1]), echoes |-> acc.echoes]
    BY <1>0, <1>2
  <2>2. Append(acc.stack, text[i].names[1]) \in Seq(S)
    BY <1>1
  <2> QED BY <1>1, <2>1, <2>2 DEF EchoStates
<1>3. CASE word = "endblock" /\ acc.stack # <<>>
  <2> PICK more : more = {<<j, Last(acc.stack)>> : j \in {i} \cap Tags(text, {"endblock"})}
    OBVIOUS
  <2>1. EchoAt(text, acc, i) = [stack |-> Front(acc.stack), echoes |-> acc.echoes \cup more]
    BY <1>0, <1>3
  <2>2. Front(acc.stack) \in Seq(S) /\ Last(acc.stack) \in S
    BY <1>1, <1>3, FrontIs
  <2>3. more \in SUBSET (Nat \X S)
    BY <2>2
  <2>4. acc.echoes \cup more \in SUBSET (Nat \X S)
    BY <1>1, <2>3
  <2> QED BY <2>1, <2>2, <2>4 DEF EchoStates
<1>4. CASE ~(word = "block" \/ (word = "endblock" /\ acc.stack # <<>>))
  <2>1. EchoAt(text, acc, i) = acc
    BY <1>0, <1>4
  <2> QED BY <2>1
<1> QED BY <1>2, <1>3, <1>4

\* The scan for echoes, tag by tag.
EchoesBy(text, S, after) ==
  /\ EndblockEchoes(text) = after[Len(text)].echoes /\ after[0] = Silent
  /\ \A i \in 1 .. Len(text) : after[i] = EchoAt(text, after[i - 1], i)
  /\ \A i \in 0 .. Len(text) : after[i] \in EchoStates(S)

\* The scan for echoes has a state after every tag.
LEMMA EchoesByTag ==
  ASSUME NEW text, IsText(text), NEW S, \A i \in DOMAIN text : text[i].names[1] \in S
  PROVE  \E after : EchoesBy(text, S, after)
<1> DEFINE n == Len(text)
           Pass(g, i) == IF i = 0 THEN Silent ELSE EchoAt(text, g[i - 1], i)
           Rec(g) == g = [i \in 0 .. n |-> Pass(g, i)]
           after == CHOOSE g : Rec(g)
<1>1. n \in Nat /\ DOMAIN text = 1 .. n
  BY DEF IsText
<1>2. EndblockEchoes(text) = after[n].echoes
  BY Zenon DEF EndblockEchoes, Scan, Silent
<1>3. Silent \in EchoStates(S)
  <2>1. <<>> \in Seq(S) /\ {} \in SUBSET (Nat \X S)
    OBVIOUS
  <2> QED BY <2>1 DEF Silent, EchoStates
<1> HIDE DEF n
<1>4. \A i \in 1 .. n : \A acc \in EchoStates(S) : EchoAt(text, acc, i) \in EchoStates(S)
  <2> TAKE i \in 1 .. n
  <2>1. i \in Nat /\ text[i].names[1] \in S
    BY <1>1
  <2> QED BY <2>1, EchoAtType
<1>5. \E g : Rec(g)
  <2> DEFINE step == [i \in 1 .. n |-> [acc \in EchoStates(S) |-> EchoAt(text, acc, i)]]
  <2>1. step \in [1 .. n -> [EchoStates(S) -> EchoStates(S)]]
    BY <1>4
  <2>2. PICK f \in [0 .. n -> EchoStates(S)] : Steps(f, n, Silent, step)
    <3> HIDE DEF step
    <3> QED BY <1>1, <1>3, <2>1, Recursion
  <2>3. ASSUME NEW i \in 0 .. n PROVE f[i] = Pass(f, i)
    <3>1. i # 0 => i \in 1 .. n /\ i - 1 \in 0 .. n
      BY <1>1
    <3>2. i = 0 => f[i] = Silent
      BY <2>2 DEF Steps
    <3>3. i # 0 => f[i] = EchoAt(text, f[i - 1], i)
      <4>1. i # 0 => f[i] = step[i][f[i - 1]] /\ f[i - 1] \in EchoStates(S)
        BY <2>2, <3>1 DEF Steps
      <4> QED BY <3>1, <4>1
    <3> QED BY <3>2, <3>3
  <2> HIDE DEF Pass
  <2>4. f = [i \in 0 .. n |-> Pass(f, i)]
    BY <2>3
  <2> QED BY <2>4
<1>6. Rec(after)
  <2> HIDE DEF Rec
  <2> QED BY <1>5
<1> HIDE DEF after
<1>7. ASSUME NEW i \in 0 .. n PROVE after[i] = Pass(after, i)
  <2> HIDE DEF Pass
  <2> QED BY <1>6
<1>8. after[0] = Silent /\ \A i \in 1 .. n : after[i] = EchoAt(text, after[i - 1], i)
  <2>1. 0 \in 0 .. n /\ \A i \in 1 .. n : i \in 0 .. n /\ i # 0
    BY <1>1
  <2> QED BY <1>7, <2>1
<1>9. ASSUME NEW i \in 0 .. n PROVE after[i] \in EchoStates(S)
  <2>1. after[0] \in EchoStates(S)
    BY <1>3, <1>8
  <2>2. ASSUME NEW j \in 1 .. i, after[j - 1] \in EchoStates(S) PROVE after[j] \in EchoStates(S)
    <3>1. j \in 1 .. n
      BY <1>1
    <3> QED BY <1>4, <1>8, <2>2, <3>1
  <2>3. i \in Nat
    BY <1>1
  <2> QED BY <2>1, <2>2, <2>3, RecursionType
<1> QED BY <1>2, <1>8, <1>9 DEF EchoesBy, n

\* The echo of a name at a tag.
EchoOf(text, i, name) == {<<j, name>> : j \in {i} \cap Tags(text, {"endblock"})}

\* One tag of the scan.
LEMMA EchoNext ==
  ASSUME NEW text, NEW S, NEW after, EchoesBy(text, S, after), Len(text) \in Nat, NEW t \in 1 .. Len(text),
         NEW acc, acc = after[t - 1], NEW word, word = Keyword(text[t])
  PROVE  /\ acc \in EchoStates(S)
         /\ word = "block" => after[t] = [stack |-> Append(acc.stack, text[t].names[1]), echoes |-> acc.echoes]
         /\ word = "endblock" /\ acc.stack # <<>> =>
              after[t] = [stack |-> Front(acc.stack),
                          echoes |-> acc.echoes \cup EchoOf(text, t, Last(acc.stack))]
         /\ word # "block" /\ word # "endblock" => after[t] = acc
<1>1. t \in Nat /\ t - 1 \in 0 .. Len(text)
  OBVIOUS
<1>2. acc \in EchoStates(S)
  BY <1>1 DEF EchoesBy
<1>3. after[t] = EchoAt(text, acc, t)
  BY DEF EchoesBy
<1>4. ASSUME NEW a \in EchoStates(S)
      PROVE  /\ word = "block" => EchoAt(text, a, t) = [stack |-> Append(a.stack, text[t].names[1]), echoes |-> a.echoes]
             /\ word = "endblock" /\ a.stack # <<>> =>
                  EchoAt(text, a, t) = [stack |-> Front(a.stack),
                     echoes |-> a.echoes \cup EchoOf(text, t, Last(a.stack))]
             /\ word # "block" /\ word # "endblock" => EchoAt(text, a, t) = a
  BY EchoAtIs DEF EchoOf
<1> QED BY <1>2, <1>3, <1>4

\* The tags whose first word is block or endblock.
LEMMA BlockWords ==
  ASSUME NEW tag
  PROVE  /\ Keyword(tag) = "block" <=> tag.kind = "block"
         /\ Keyword(tag) = "endblock" <=> ClosedKind(tag) = "block"
<1>1. "block" \notin Expressions /\ "endblock" \notin Expressions /\ None # "block" /\ None # "endblock"
  BY DEF Expressions, None
<1>2. Keyword(tag) = "block" <=> tag.kind = "block"
  <2>1. "block" \notin Expressions \cup {"set_block", "named_endblock", "invoke_in", "malformed"}
    BY <1>1
  <2> QED BY <1>1, <2>1, KeywordIs
<1>3. Keyword(tag) = "endblock" <=> tag.kind \in {"endblock", "named_endblock"}
  <2>1. "endblock" \notin Expressions \cup {"set_block", "named_endblock", "invoke_in", "malformed"}
    BY <1>1
  <2> QED BY <1>1, <2>1, KeywordIs
<1>4. ClosedKind(tag) = "block" <=> tag.kind \in {"endblock", "named_endblock"}
  <2>1. /\ "endblock" \in DOMAIN Closes /\ Closes["endblock"] = "block"
        /\ "named_endblock" \notin DOMAIN Closes
        /\ \A kind \in DOMAIN Closes : Closes[kind] = "block" => kind = "endblock"
    BY DEF Closes
  <2> QED BY <1>1, <2>1 DEF ClosedKind
<1> QED BY <1>2, <1>3, <1>4

\* The echoes of the blocks that are closed after n tags, and the stack of the others.
Echoed(text, p, n) == {i \in Tags(text, {"block"}) : p[i] <= n /\ text[p[i]].kind = "endblock"}
EchoesFound(text, p, label, n, acc) ==
  /\ \E s : OpenIn(text, p, Tags(text, {"block"}), n, s) /\ Labels(s, label, acc.stack)
  /\ acc.echoes = {<<p[i], label[i]>> : i \in Echoed(text, p, n)}

\* One tag of a well nested text.
LEMMA EchoFound ==
  ASSUME NEW text, IsText(text), NEW p, IsPairing(text, p), NEW S, \A i \in DOMAIN text : text[i].names[1] \in S,
         NEW label, \A i \in DOMAIN text : label[i] = text[i].names[1],
         NEW after, EchoesBy(text, S, after), NEW t \in 1 .. Len(text),
         NEW j \in Nat, t = j + 1, NEW acc, acc = after[j], EchoesFound(text, p, label, j, acc)
  PROVE  EchoesFound(text, p, label, t, after[t])
<1> PICK n \in Nat : n = Len(text) /\ DOMAIN text = 1 .. n
  BY DEF IsText
<1> PICK B : B = Tags(text, {"block"})
  OBVIOUS
<1> PICK word : word = Keyword(text[t])
  OBVIOUS
<1>1. B \subseteq Openers(text) /\ B = {i \in Openers(text) : text[i].kind = "block"}
  <2>1. "block" \in ScopeKinds
    BY DEF ScopeKinds
  <2> QED BY <2>1 DEF Openers, Tags
<1>2. \A i \in Openers(text) : i \in Nat /\ p[i] \in Nat /\ i \in DOMAIN text /\ p[i] \in DOMAIN text /\ p[i] \notin Openers(text)
  <2>1. \A i \in Openers(text) : i \in DOMAIN text
    BY DEF Openers, Tags
  <2> QED BY <2>1, PairsAreNested
<1>3. /\ acc \in EchoStates(S)
      /\ word = "block" => after[t] = [stack |-> Append(acc.stack, text[t].names[1]), echoes |-> acc.echoes]
      /\ word = "endblock" /\ acc.stack # <<>> =>
           after[t] = [stack |-> Front(acc.stack),
                       echoes |-> acc.echoes \cup EchoOf(text, t, Last(acc.stack))]
      /\ word # "block" /\ word # "endblock" => after[t] = acc
  <2>1. t - 1 = j /\ Len(text) \in Nat
    OBVIOUS
  <2>2. acc = after[t - 1] /\ word = Keyword(text[t]) /\ EchoesBy(text, S, after) /\ t \in 1 .. Len(text)
    BY <2>1
  <2> HIDE DEF EchoesBy
  <2>3. t \in 1 .. Len(text) /\ Len(text) \in Nat
    BY <2>1, <2>2
  <2> QED BY <2>2, <2>3, EchoNext, SMTT(30)
<1>4. PICK s : OpenIn(text, p, B, j, s) /\ Labels(s, label, acc.stack)
  BY DEF EchoesFound
<1>5. acc.echoes = {<<p[i], label[i]>> : i \in Echoed(text, p, j)}
  BY DEF EchoesFound
<1>6. acc.stack \in Seq(S)
  BY <1>3 DEF EchoStates
<1>7. CASE t \in B
  <2>1. word = "block"
    BY <1>1, <1>7, BlockWords
  <2>2. after[t].stack = Append(acc.stack, text[t].names[1]) /\ after[t].echoes = acc.echoes
    BY <1>3, <2>1
  <2>3. OpenIn(text, p, B, t, Append(s, t))
    BY <1>1, <1>4, <1>7, PushOpen
  <2>4. Labels(Append(s, t), label, Append(acc.stack, text[t].names[1]))
    <3>1. t \in Nat /\ text[t].names[1] \in S /\ text[t].names[1] = label[t]
      OBVIOUS
    <3> QED BY <1>4, <1>6, <3>1, LabelsPush
  <2>5. Echoed(text, p, t) = Echoed(text, p, j)
    <3>1. \A i \in B : p[i] <= t <=> p[i] <= j
      <4> TAKE i \in B
      <4>1. p[i] # t /\ p[i] \in Nat
        BY <1>1, <1>2, <1>7
      <4> QED BY <4>1
    <3> QED BY <3>1 DEF Echoed
  <2> QED BY <1>5, <2>2, <2>3, <2>4, <2>5 DEF EchoesFound
<1>8. CASE \E i \in B : p[i] = t
  <2>1. PICK i \in B : p[i] = t
    BY <1>8
  <2>2. ClosedKind(text[t]) = "block"
    <3>1. ClosedKind(text[p[i]]) = text[i].kind /\ text[i].kind = "block"
      BY <1>1, PairsAreNested
    <3> QED BY <2>1, <3>1
  <2>3. word = "endblock"
    BY <2>2, BlockWords
  <2>4. s # <<>> /\ Last(s) = i /\ OpenIn(text, p, B, t, Front(s))
    BY <1>1, <1>4, <2>1, PopOpen
  <2>5. acc.stack # <<>> /\ Last(acc.stack) = label[i] /\ Labels(Front(s), label, Front(acc.stack))
    <3>1. s # <<>> /\ Last(s) = i
      BY <2>4
    <3>2. ASSUME NEW labels \in Seq(S), Labels(s, label, labels)
          PROVE  labels # <<>> /\ Last(labels) = label[i] /\ Labels(Front(s), label, Front(labels))
      BY <3>1, <3>2, LabelsPop
    <3> QED BY <1>4, <1>6, <3>2
  <2> PICK own : own = EchoOf(text, t, label[i])
    OBVIOUS
  <2>6. after[t].stack = Front(acc.stack) /\ after[t].echoes = acc.echoes \cup own
    BY <1>3, <2>3, <2>5
  <2>7. \A h \in B : p[h] <= t <=> p[h] <= j \/ h = i
    <3> TAKE h \in B
    <3>1. p[h] = t => h = i
      BY <1>1, <2>1, PairsAreNested
    <3>2. p[h] \in Nat
      BY <1>1, <1>2
    <3> QED BY <2>1, <3>1, <3>2
  <2>8. t \in Tags(text, {"endblock"}) <=> text[t].kind = "endblock"
    BY DEF Tags
  <2>9. Echoed(text, p, t) = Echoed(text, p, j) \cup {h \in {i} : text[t].kind = "endblock"}
    BY <2>1, <2>7 DEF Echoed
  <2>10. own = {<<p[h], label[h]>> : h \in {g \in {i} : text[t].kind = "endblock"}}
    BY <2>1, <2>8 DEF EchoOf
  <2>11. after[t].echoes = {<<p[h], label[h]>> : h \in Echoed(text, p, t)}
    BY <1>5, <2>6, <2>9, <2>10
  <2> QED BY <2>4, <2>5, <2>6, <2>11 DEF EchoesFound
<1>9. CASE t \notin B /\ ~\E i \in B : p[i] = t
  <2>1. t \in DOMAIN text
    OBVIOUS
  <2>2. word # "block"
    BY <1>9, <2>1, BlockWords DEF Tags
  <2>3. word # "endblock"
    <3> SUFFICES ASSUME word = "endblock" PROVE FALSE
      OBVIOUS
    <3>1. ClosedKind(text[t]) = "block" /\ "block" # None
      BY BlockWords DEF None
    <3>2. PICK i \in Openers(text) : p[i] = t
      BY <2>1, <3>1 DEF Closers, IsPairing
    <3>3. ClosedKind(text[p[i]]) = text[i].kind
      BY PairsAreNested
    <3> QED BY <1>1, <1>9, <3>1, <3>2, <3>3
  <2>4. after[t] = acc
    BY <1>3, <2>2, <2>3
  <2>5. OpenIn(text, p, B, t, s)
    <3>1. ~(j + 1 \in Openers(text) /\ j + 1 \in B) /\ \A i \in Openers(text) : i \in B => p[i] # j + 1
      BY <1>9
    <3> QED BY <1>4, <3>1, KeepOpen
  <2>6. Echoed(text, p, t) = Echoed(text, p, j)
    <3>1. \A i \in B : p[i] <= t <=> p[i] <= j
      <4> TAKE i \in B
      <4>1. p[i] # t /\ p[i] \in Nat
        BY <1>1, <1>2, <1>9
      <4> QED BY <4>1
    <3> QED BY <3>1 DEF Echoed
  <2> QED BY <1>4, <1>5, <2>4, <2>5, <2>6 DEF EchoesFound
<1> QED BY <1>7, <1>8, <1>9

\* In a well nested text every endblock without a name echoes the block it closes.
LEMMA EchoesAreNames ==
  ASSUME NEW text, IsText(text), NEW p, IsPairing(text, p)
  PROVE  EndblockEchoes(text) =
           {<<p[i], text[i].names[1]>> : i \in {b \in Tags(text, {"block"}) : text[p[b]].kind = "endblock"}}
<1> PICK n \in Nat : n = Len(text) /\ DOMAIN text = 1 .. n
  BY DEF IsText
<1> PICK S : S = {text[i].names[1] : i \in DOMAIN text}
  OBVIOUS
<1> PICK label : label = [i \in DOMAIN text |-> text[i].names[1]]
  OBVIOUS
<1>1. \A i \in DOMAIN text : text[i].names[1] \in S /\ label[i] = text[i].names[1]
  OBVIOUS
<1>2. PICK after : EchoesBy(text, S, after)
  BY <1>1, EchoesByTag
<1> DEFINE N == {j \in Nat : j <= n => EchoesFound(text, p, label, j, after[j])}
<1>3. \A i \in Tags(text, {"block"}) : i \in Openers(text) /\ i \in DOMAIN text /\ i \in Nat /\ p[i] \in Nat /\ i < p[i] /\ p[i] <= n
  <2>1. \A i \in Tags(text, {"block"}) : i \in Openers(text) /\ i \in DOMAIN text
    BY DEF Tags, Openers, ScopeKinds
  <2>2. \A i \in Openers(text) : i \in Nat /\ p[i] \in Nat /\ i < p[i] /\ p[i] \in DOMAIN text
    BY PairsAreNested
  <2> QED BY <2>1, <2>2
<1>4. 0 \in N
  <2>1. after[0].stack = <<>> /\ after[0].echoes = {}
    BY <1>2 DEF EchoesBy, Silent
  <2>2. OpenTags(text, p, 0) = {}
    <3>1. \A i \in Openers(text) : ~(i <= 0)
      BY DEF Openers, Tags
    <3> QED BY <3>1 DEF OpenTags
  <2>3. OpenIn(text, p, Tags(text, {"block"}), 0, <<>>)
    BY <2>2 DEF OpenIn, Rising
  <2>4. Labels(<<>>, label, <<>>)
    BY DEF Labels
  <2>5. Echoed(text, p, 0) = {}
    BY <1>3 DEF Echoed
  <2> QED BY <2>1, <2>3, <2>4, <2>5 DEF EchoesFound
<1>5. ASSUME NEW j \in Nat, j \in N PROVE j + 1 \in N
  <2> SUFFICES ASSUME j + 1 <= n PROVE EchoesFound(text, p, label, j + 1, after[j + 1])
    OBVIOUS
  <2> PICK t : t = j + 1
    OBVIOUS
  <2>1. t \in 1 .. Len(text) /\ EchoesFound(text, p, label, j, after[j])
    BY <1>5
  <2> HIDE DEF N
  <2>2. EchoesFound(text, p, label, t, after[t])
    BY <1>1, <1>2, <2>1, EchoFound
  <2> QED BY <2>2
<1>6. n \in N
  <2> HIDE DEF N
  <2> QED BY <1>4, <1>5, Induction
<1>7. EchoesFound(text, p, label, n, after[n])
  BY <1>6
<1>8. Echoed(text, p, n) = {b \in Tags(text, {"block"}) : text[p[b]].kind = "endblock"}
  BY <1>3 DEF Echoed
<1> PICK C : C = {b \in Tags(text, {"block"}) : text[p[b]].kind = "endblock"}
  OBVIOUS
<1>9. after[n].echoes = {<<p[i], label[i]>> : i \in C}
  BY <1>7, <1>8 DEF EchoesFound
<1>10. \A i \in C : label[i] = text[i].names[1]
  BY <1>1, <1>3
<1>11. {<<p[i], label[i]>> : i \in C} = {<<p[i], text[i].names[1]>> : i \in C}
  BY <1>10
<1> QED BY <1>2, <1>9, <1>11 DEF EchoesBy

\* What a tag does to the open words.
LEMMA OpenAtIs ==
  ASSUME NEW text, NEW t, NEW stack, NEW word, word = Keyword(text[t])
  PROVE  /\ word \in DOMAIN Opened /\ stack # <<>> /\ Last(stack) = Opened[word] => OpenAt(text, stack, t) = Front(stack)
         /\ word \in Pairs => OpenAt(text, stack, t) = Append(stack, word)
         /\ word \notin DOMAIN Opened \cup Pairs => OpenAt(text, stack, t) = stack
         /\ \/ OpenAt(text, stack, t) = stack
            \/ word \in Pairs /\ OpenAt(text, stack, t) = Append(stack, word)
            \/ stack # <<>> /\ OpenAt(text, stack, t) = Front(stack)
<1>1. word \in Pairs => word \notin DOMAIN Opened
  <2> HAVE word \in Pairs
  <2>1. PICK end \in DOMAIN Opened : word = Opened[end]
    BY DEF Pairs
  <2> QED BY <2>1 DEF Opened
<1>2. word \in DOMAIN Opened /\ stack # <<>> /\ Last(stack) = Opened[word] => OpenAt(text, stack, t) = Front(stack)
  BY <1>1, Zenon DEF OpenAt
<1>3. word \in Pairs => OpenAt(text, stack, t) = Append(stack, word)
  BY <1>1, Zenon DEF OpenAt
<1>4. ~(word \in DOMAIN Opened /\ stack # <<>> /\ Last(stack) = Opened[word]) /\ word \notin Pairs =>
        OpenAt(text, stack, t) = stack
  BY Zenon DEF OpenAt
<1>5. word \notin DOMAIN Opened \cup Pairs => OpenAt(text, stack, t) = stack
  BY <1>4
<1>6. \/ OpenAt(text, stack, t) = stack
      \/ word \in Pairs /\ OpenAt(text, stack, t) = Append(stack, word)
      \/ stack # <<>> /\ OpenAt(text, stack, t) = Front(stack)
  BY <1>2, <1>3, <1>4
<1> QED BY <1>2, <1>3, <1>5, <1>6, Zenon

\* A step keeps the type of the open words.
LEMMA OpenAtType ==
  ASSUME NEW text, NEW t, NEW stack \in Seq(Pairs)
  PROVE  OpenAt(text, stack, t) \in Seq(Pairs)
<1> PICK word : word = Keyword(text[t])
  OBVIOUS
<1>1. \/ OpenAt(text, stack, t) = stack
      \/ word \in Pairs /\ OpenAt(text, stack, t) = Append(stack, word)
      \/ stack # <<>> /\ OpenAt(text, stack, t) = Front(stack)
  BY OpenAtIs
<1>2. word \in Pairs => Append(stack, word) \in Seq(Pairs)
  BY AppendIs
<1>3. stack # <<>> => Front(stack) \in Seq(Pairs)
  BY FrontIs
<1> QED BY <1>1, <1>2, <1>3

\* The scan for the innermost open word, tag by tag.
OpensBy(text, m, after) ==
  /\ FindInnermostOpenBlock(text, m) = IF after[m] = <<>> THEN None ELSE Last(after[m])
  /\ after[0] = <<>>
  /\ \A i \in 1 .. m : after[i] = OpenAt(text, after[i - 1], i)
  /\ \A i \in 0 .. m : after[i] \in Seq(Pairs)

\* That scan has a state after every tag.
LEMMA OpensByTag ==
  ASSUME NEW text, IsText(text), NEW m \in 0 .. Len(text)
  PROVE  \E after : OpensBy(text, m, after)
<1> DEFINE n == Len(SubSeq(text, 1, m))
           Pass(g, i) == IF i = 0 THEN <<>> ELSE OpenAt(text, g[i - 1], i)
           Rec(g) == g = [i \in 0 .. n |-> Pass(g, i)]
           after == CHOOSE g : Rec(g)
<1>1. n = m /\ m \in Nat
  <2>1. PICK l \in Nat : text = [i \in 1 .. l |-> text[i]]
    BY DEF IsText
  <2>2. Len(text) = l /\ DOMAIN text = 1 .. l /\ m \in 0 .. l
    BY <2>1
  <2>3. SubSeq(text, 1, m) = [i \in 1 .. m |-> text[i]]
    BY <2>2
  <2>4. Len([i \in 1 .. m |-> text[i]]) = m
    BY <2>2
  <2> QED BY <2>2, <2>3, <2>4
<1>2. FindInnermostOpenBlock(text, m) = IF after[n] = <<>> THEN None ELSE Last(after[n])
  BY Zenon DEF FindInnermostOpenBlock, Scan
<1>3. <<>> \in Seq(Pairs)
  OBVIOUS
<1> HIDE DEF n
<1>4. \A i \in 1 .. n : \A stack \in Seq(Pairs) : OpenAt(text, stack, i) \in Seq(Pairs)
  BY OpenAtType
<1>5. \E g : Rec(g)
  <2> DEFINE step == [i \in 1 .. n |-> [stack \in Seq(Pairs) |-> OpenAt(text, stack, i)]]
  <2>1. step \in [1 .. n -> [Seq(Pairs) -> Seq(Pairs)]]
    BY <1>4
  <2>2. PICK f \in [0 .. n -> Seq(Pairs)] : Steps(f, n, <<>>, step)
    <3> HIDE DEF step
    <3> QED BY <1>1, <1>3, <2>1, Recursion
  <2>3. ASSUME NEW i \in 0 .. n PROVE f[i] = Pass(f, i)
    <3>1. i # 0 => i \in 1 .. n /\ i - 1 \in 0 .. n
      BY <1>1
    <3>2. i = 0 => f[i] = <<>>
      BY <2>2 DEF Steps
    <3>3. i # 0 => f[i] = OpenAt(text, f[i - 1], i)
      <4>1. i # 0 => f[i] = step[i][f[i - 1]] /\ f[i - 1] \in Seq(Pairs)
        BY <2>2, <3>1 DEF Steps
      <4> QED BY <3>1, <4>1
    <3> QED BY <3>2, <3>3
  <2> HIDE DEF Pass
  <2>4. f = [i \in 0 .. n |-> Pass(f, i)]
    BY <2>3
  <2> QED BY <2>4
<1>6. Rec(after)
  <2> HIDE DEF Rec
  <2> QED BY <1>5
<1> HIDE DEF after
<1>7. ASSUME NEW i \in 0 .. n PROVE after[i] = Pass(after, i)
  <2> HIDE DEF Pass
  <2> QED BY <1>6
<1>8. after[0] = <<>> /\ \A i \in 1 .. n : after[i] = OpenAt(text, after[i - 1], i)
  <2>1. 0 \in 0 .. n /\ \A i \in 1 .. n : i \in 0 .. n /\ i # 0
    BY <1>1
  <2> QED BY <1>7, <2>1
<1>9. ASSUME NEW i \in 0 .. n PROVE after[i] \in Seq(Pairs)
  <2>1. after[0] \in Seq(Pairs)
    BY <1>3, <1>8
  <2>2. ASSUME NEW j \in 1 .. i, after[j - 1] \in Seq(Pairs) PROVE after[j] \in Seq(Pairs)
    <3>1. j \in 1 .. n
      BY <1>1
    <3> QED BY <1>4, <1>8, <2>2, <3>1
  <2>3. i \in Nat
    BY <1>1
  <2> QED BY <2>1, <2>2, <2>3, RecursionType
<1> QED BY <1>1, <1>2, <1>8, <1>9 DEF OpensBy

\* The stack has the kinds of the open tags.
OpensFound(text, p, label, n, stack) ==
  \E s : OpenIn(text, p, Openers(text), n, s) /\ Labels(s, label, stack)

\* One tag of a well nested text of scopes that is no set.
LEMMA OpenFound ==
  ASSUME NEW text, IsText(text), Structured(text), NEW p, IsPairing(text, p),
         NEW label, \A i \in DOMAIN text : label[i] = text[i].kind,
         NEW t \in DOMAIN text, text[t].kind # "set", NEW j \in Nat, t = j + 1,
         NEW stack \in Seq(Pairs), OpensFound(text, p, label, j, stack)
  PROVE  OpensFound(text, p, label, t, OpenAt(text, stack, t))
<1> PICK word : word = Keyword(text[t])
  OBVIOUS
<1>1. PICK s : OpenIn(text, p, Openers(text), j, s) /\ Labels(s, label, stack)
  BY DEF OpensFound
<1>2. /\ word \in DOMAIN Opened /\ stack # <<>> /\ Last(stack) = Opened[word] => OpenAt(text, stack, t) = Front(stack)
      /\ word \in Pairs => OpenAt(text, stack, t) = Append(stack, word)
      /\ word \notin DOMAIN Opened \cup Pairs => OpenAt(text, stack, t) = stack
  BY OpenAtIs
<1>3. CASE t \in Openers(text)
  <2>1. word = text[t].kind /\ word \in Pairs
    BY <1>3, ScopeWords DEF Openers, Tags
  <2>2. OpenIn(text, p, Openers(text), t, Append(s, t))
    BY <1>1, <1>3, PushOpen
  <2>3. Labels(Append(s, t), label, Append(stack, word))
    <3>1. t \in Nat /\ word = label[t]
      BY <2>1
    <3> QED BY <1>1, <2>1, <3>1, LabelsPush
  <2> QED BY <1>2, <2>1, <2>2, <2>3 DEF OpensFound
<1>4. CASE \E i \in Openers(text) : p[i] = t
  <2>1. PICK i \in Openers(text) : p[i] = t
    BY <1>4
  <2>2. ClosedKind(text[t]) = text[i].kind /\ text[i].kind \in ScopeKinds
    BY <2>1, PairsAreNested
  <2>3. text[i].kind # None
    BY <2>2 DEF ScopeKinds, None
  <2>4. word \in DOMAIN Opened /\ Opened[word] = text[i].kind
    BY <2>2, <2>3, ScopeWords
  <2>5. s # <<>> /\ Last(s) = i /\ OpenIn(text, p, Openers(text), t, Front(s))
    BY <1>1, <2>1, PopOpen
  <2>6. stack # <<>> /\ Last(stack) = label[i] /\ Labels(Front(s), label, Front(stack))
    <3>1. s # <<>> /\ Last(s) = i /\ Labels(s, label, stack)
      BY <1>1, <2>5
    <3>2. /\ stack # <<>> /\ Last(stack) = label[i]
          /\ Labels(Front(s), label, Front(stack))
      BY <3>1, LabelsPop
    <3> QED BY <3>2
  <2>7. label[i] = text[i].kind
    BY DEF Openers, Tags
  <2>8. OpenAt(text, stack, t) = Front(stack)
    BY <1>2, <2>4, <2>6, <2>7
  <2> QED BY <2>5, <2>6, <2>8 DEF OpensFound
<1>5. CASE t \notin Openers(text) /\ ~\E i \in Openers(text) : p[i] = t
  <2>1. t \notin Closers(text)
    BY <1>5 DEF IsPairing
  <2>2. ClosedKind(text[t]) = None /\ text[t].kind \notin ScopeKinds
    BY <1>5, <2>1 DEF Closers, Openers, Tags
  <2>3. word \in Standalone \ {"set"}
    BY <2>2, PlainWords
  <2>4. word \notin DOMAIN Opened \cup Pairs
    <3>1. word \in {None, "extends", "include", "import", "from", "break", "continue", "debug", "do",
                     "elif", "else", "pluralize"}
      BY <2>3 DEF Standalone
    <3>2. \A end \in DOMAIN Opened :
            /\ end \in {"endblock", "endmacro", "endfor", "endwith", "endif", "endfilter", "endautoescape",
                       "endcall", "endset", "endtrans"}
            /\ Opened[end] \in {"block", "macro", "for", "with", "if", "filter", "autoescape", "call", "set", "trans"}
      BY DEF Opened
    <3>3. \A end \in DOMAIN Opened : Opened[end] # word /\ end # word
      BY <3>1, <3>2 DEF None
    <3> QED BY <3>3 DEF Pairs
  <2>5. OpenAt(text, stack, t) = stack
    BY <1>2, <2>4
  <2>6. OpenIn(text, p, Openers(text), t, s)
    BY <1>1, <1>5, KeepOpen
  <2> QED BY <1>1, <2>5, <2>6 DEF OpensFound
<1> QED BY <1>3, <1>4, <1>5

\* At the end of a tag its kind is on top.
LEMMA LastIsOpen ==
  ASSUME NEW text, IsText(text), NEW p, IsPairing(text, p), NEW i \in Openers(text), NEW m \in Nat, p[i] = m + 1,
         NEW label, \A h \in DOMAIN text : label[h] = text[h].kind,
         NEW stack \in Seq(Pairs), OpensFound(text, p, label, m, stack)
  PROVE  stack # <<>> /\ Last(stack) = text[i].kind
<1>1. PICK s : OpenIn(text, p, Openers(text), m, s) /\ Labels(s, label, stack)
  BY DEF OpensFound
<1>2. s # <<>> /\ Last(s) = i /\ OpenIn(text, p, Openers(text), m + 1, Front(s))
  BY <1>1, PopOpen
<1>3. s # <<>> /\ i = Last(s) /\ Labels(s, label, stack)
  BY <1>1, <1>2
<1>4. ASSUME NEW T, NEW labels \in Seq(T), Labels(s, label, labels)
      PROVE  labels # <<>> /\ Last(labels) = label[i] /\ Labels(Front(s), label, Front(labels))
  BY <1>3, <1>4, LabelsPop
<1>6. stack # <<>> /\ Last(stack) = label[i]
  BY <1>3, <1>4
<1>5. label[i] = text[i].kind
  BY DEF Openers, Tags
<1> QED BY <1>5, <1>6

\* Before the end of a tag its kind is on top.
LEMMA EndIsOnTop ==
  ASSUME NEW text, IsText(text), Structured(text), NEW p, IsPairing(text, p), NEW i \in Openers(text),
         Tags(text, {"set"}) \cap 1 .. p[i] = {}, NEW m \in Nat, p[i] = m + 1,
         NEW label, \A h \in DOMAIN text : label[h] = text[h].kind, NEW after, OpensBy(text, m, after)
  PROVE  FindInnermostOpenBlock(text, m) = text[i].kind
<1> PICK n \in Nat : n = Len(text) /\ DOMAIN text = 1 .. n
  BY DEF IsText
<1>1. m \in Nat /\ p[i] = m + 1 /\ m + 1 \in 1 .. n /\ m \in 0 .. Len(text)
  BY PairsAreNested
<1>2. OpensBy(text, m, after)
  OBVIOUS
<1>3. \A h \in DOMAIN text : label[h] = text[h].kind
  OBVIOUS
<1> DEFINE N == {j \in Nat : j <= m => OpensFound(text, p, label, j, after[j])}
<1>4. 0 \in N
  <2>1. after[0] = <<>>
    BY <1>2 DEF OpensBy
  <2>2. OpenTags(text, p, 0) = {}
    <3>1. \A h \in Openers(text) : ~(h <= 0)
      BY DEF Openers, Tags
    <3> QED BY <3>1 DEF OpenTags
  <2>3. OpenIn(text, p, Openers(text), 0, <<>>)
    BY <2>2 DEF OpenIn, Rising
  <2>4. Labels(<<>>, label, <<>>)
    BY DEF Labels
  <2> QED BY <2>1, <2>3, <2>4 DEF OpensFound
<1>5. ASSUME NEW j \in Nat, j \in N PROVE j + 1 \in N
  <2> SUFFICES ASSUME j + 1 <= m PROVE OpensFound(text, p, label, j + 1, after[j + 1])
    OBVIOUS
  <2> PICK t : t = j + 1
    OBVIOUS
  <2>1. t \in 1 .. m /\ t \in DOMAIN text /\ j \in 0 .. m /\ t - 1 = j /\ t \in 1 .. p[i]
    BY <1>1
  <2>2. OpensFound(text, p, label, j, after[j])
    BY <1>5, <2>1
  <2>3. text[t].kind # "set"
    BY <2>1 DEF Tags
  <2>4. after[t] = OpenAt(text, after[j], t) /\ after[j] \in Seq(Pairs)
    BY <1>2, <2>1 DEF OpensBy
  <2> HIDE DEF N
  <2>5. ASSUME NEW stack \in Seq(Pairs), OpensFound(text, p, label, j, stack)
        PROVE  OpensFound(text, p, label, t, OpenAt(text, stack, t))
    BY <1>3, <2>1, <2>3, <2>5, OpenFound
  <2>6. OpensFound(text, p, label, t, after[t])
    BY <2>2, <2>4, <2>5
  <2> QED BY <2>6
<1>6. m \in N
  <2> HIDE DEF N
  <2> QED BY <1>1, <1>4, <1>5, Induction
<1>10. OpensFound(text, p, label, m, after[m])
  BY <1>1, <1>6
<1> HIDE DEF N
<1>7. after[m] \in Seq(Pairs)
  BY <1>1, <1>2 DEF OpensBy
<1>8. after[m] # <<>> /\ Last(after[m]) = text[i].kind
  <2>1. ASSUME NEW stack \in Seq(Pairs), OpensFound(text, p, label, m, stack)
        PROVE  stack # <<>> /\ Last(stack) = text[i].kind
    BY <2>1, LastIsOpen
  <2> QED BY <1>7, <1>10, <2>1
<1> QED BY <1>2, <1>8 DEF OpensBy

\* The end tag that is offered at the end of a tag is its own.
LEMMA EndIsOffered ==
  ASSUME NEW text, IsText(text), Structured(text), NEW p, IsPairing(text, p), NEW i \in Openers(text),
         Tags(text, {"set"}) \cap 1 .. p[i] = {}
  PROVE  FindInnermostOpenBlock(text, p[i] - 1) = text[i].kind
<1>1. p[i] - 1 \in Nat /\ p[i] - 1 \in 0 .. Len(text) /\ p[i] = (p[i] - 1) + 1
  <2>1. PICK n \in Nat : n = Len(text) /\ DOMAIN text = 1 .. n
    BY DEF IsText
  <2>2. p[i] \in 1 .. n
    BY <2>1, PairsAreNested
  <2> QED BY <2>1, <2>2
<1>2. PICK after : OpensBy(text, p[i] - 1, after)
  BY <1>1, OpensByTag
<1>3. PICK label : \A h \in DOMAIN text : label[h] = text[h].kind
  <2>1. \A h \in DOMAIN text : [g \in DOMAIN text |-> text[g].kind][h] = text[h].kind
    OBVIOUS
  <2> QED BY <2>1
<1>4. ASSUME NEW m \in Nat, p[i] = m + 1, OpensBy(text, m, after)
      PROVE  FindInnermostOpenBlock(text, m) = text[i].kind
  BY <1>3, <1>4, EndIsOnTop
<1> QED BY <1>1, <1>2, <1>4

\* Every end is recognised as the end of its own.
LEMMA ProjectEnds == IInv => EndsAreRecognised
<1> SUFFICES ASSUME IInv, NEW k \in Templates, WellNested(texts[k])
             PROVE  /\ EndblockEchoes(texts[k]) =
                         {<<Partner(texts[k], i), texts[k][i].names[1]>> :
                            i \in {b \in Tags(texts[k], {"block"}) : texts[k][Partner(texts[k], b)].kind = "endblock"}}
                    /\ \A i \in Openers(texts[k]) :
                         Structured(texts[k]) /\ Tags(texts[k], {"set"}) \cap 1 .. Partner(texts[k], i) = {} =>
                           FindInnermostOpenBlock(texts[k], Partner(texts[k], i) - 1) = texts[k][i].kind
  BY Zenon DEF EndsAreRecognised
<1> PICK text : text = texts[k]
  OBVIOUS
<1>1. IsText(text)
  BY IndexIs
<1>2. PICK p : IsPairing(text, p)
  BY <1>1, PairsOf
<1>3. \A i \in Openers(text) : p[i] = Partner(text, i)
  BY <1>2 DEF IsPairing
<1>4. \A i \in Tags(text, {"block"}) : i \in Openers(text)
  BY DEF Tags, Openers, ScopeKinds
<1>5. EndblockEchoes(text) = {<<p[i], text[i].names[1]>> : i \in {b \in Tags(text, {"block"}) : text[p[b]].kind = "endblock"}}
  BY <1>1, <1>2, EchoesAreNames
<1>6. {b \in Tags(text, {"block"}) : text[p[b]].kind = "endblock"} =
        {b \in Tags(text, {"block"}) : text[Partner(text, b)].kind = "endblock"}
  BY <1>3, <1>4
<1> PICK C : C = {b \in Tags(text, {"block"}) : text[Partner(text, b)].kind = "endblock"}
  OBVIOUS
<1>7. \A i \in C : p[i] = Partner(text, i)
  BY <1>3, <1>4
<1>8. {<<p[i], text[i].names[1]>> : i \in C} = {<<Partner(text, i), text[i].names[1]>> : i \in C}
  BY <1>7
<1>9. ASSUME NEW i \in Openers(text), Structured(text), Tags(text, {"set"}) \cap 1 .. Partner(text, i) = {}
      PROVE  FindInnermostOpenBlock(text, Partner(text, i) - 1) = text[i].kind
  <2>1. p[i] = Partner(text, i)
    BY <1>3
  <2> QED BY <1>1, <1>2, <1>9, <2>1, EndIsOffered
<1> QED BY <1>5, <1>6, <1>8, <1>9

\* In every reachable project the folds never cross, whatever is half typed (folding), and in a well nested
\* template of scopes folds, echoes of endblocks (inlay_hints) and offered end tags (completions) are the
\* pairs of the nesting.
THEOREM ViewsNested == Spec => []ViewsFollowNesting
<1>1. IInv => ViewsFollowNesting
  BY ProjectFolds, ProjectEnds DEF ViewsFollowNesting
<1> QED BY <1>1, AlwaysProject, PTL

=============================================================================
