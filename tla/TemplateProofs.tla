--------------------------- MODULE TemplateProofs ---------------------------
(***************************************************************************)
(* Proofs about TemplateProject: the index stays what the extractor finds  *)
(* in the texts, and E501 is reported exactly for the calls whose          *)
(* arguments cannot be bound.  The strengthened invariant says that every  *)
(* text is one that can be written, for which a rename must not touch a    *)
(* parameter.                                                              *)
(***************************************************************************)
EXTENDS TemplateProject, SequenceLemmas, FiniteSetTheorems

(***************************************************************************)
(* Counting arguments is matching them.                                    *)
(***************************************************************************)
\* A macro as the extractor gives it: parameters of different names, the required ones first.
Declared(macro) ==
  \E arity \in Nat : \E r \in 0 .. arity :
    /\ macro.parameters = [i \in 1 .. arity |-> macro.parameters[i]]
    /\ \A i \in 1 .. arity : macro.parameters[i].required <=> i <= r
    /\ \A i, j \in 1 .. arity : macro.parameters[i].name = macro.parameters[j].name => i = j

\* An injective image has as many elements as its source.
LEMMA ImageCardinality ==
  ASSUME NEW S, IsFiniteSet(S), NEW f, \A i, j \in S : f[i] = f[j] => i = j,
         NEW T, T = {f[i] : i \in S}
  PROVE  Cardinality(T) = Cardinality(S)
<1> DEFINE g == [i \in S |-> f[i]]
<1>1. g \in Surjection(S, T) /\ g \in Injection(S, T)
  BY DEF Surjection, Injection, IsInjective
<1> HIDE DEF g
<1> QED BY <1>1, FS_Surjection

\* A set of numbers up to n is finite.
LEMMA SubsetOfInterval ==
  ASSUME NEW n \in Nat, NEW S \in SUBSET (1 .. n)
  PROVE  IsFiniteSet(S)
<1>1. IsFiniteSet(1 .. n)
  <2>1. 1 \in Int /\ n \in Int
    OBVIOUS
  <2> QED BY <2>1, FS_Interval
<1> QED BY <1>1, FS_Subset

\* What check_e501 counts is Python's rule: for a macro whose required parameters come first, the
\* comparison of numbers finds a call wrong exactly when its arguments cannot be bound, unless a
\* parameter is given twice.
LEMMA CountingIsMatching ==
  ASSUME NEW macro, Declared(macro), NEW call, call.positional \in Nat, ~Doubled(macro, call)
  PROVE  WrongArguments(macro, call) <=> ~Binds(macro, call)
<1> DEFINE ps == macro.parameters
           kw == Elements(call.keywords)
           n == call.positional
<1>1. PICK arity \in Nat : \E r \in 0 .. arity :
        /\ ps = [i \in 1 .. arity |-> ps[i]]
        /\ \A i \in 1 .. arity : ps[i].required <=> i <= r
        /\ \A i, j \in 1 .. arity : ps[i].name = ps[j].name => i = j
  BY DEF Declared
<1>2. PICK r \in 0 .. arity :
        /\ ps = [i \in 1 .. arity |-> ps[i]]
        /\ \A i \in 1 .. arity : ps[i].required <=> i <= r
        /\ \A i, j \in 1 .. arity : ps[i].name = ps[j].name => i = j
  BY <1>1
<1>3. DOMAIN ps = 1 .. arity /\ Len(ps) = arity
  <2> HIDE DEF ps
  <2> QED BY <1>2
<1> DEFINE K == {i \in 1 .. r : ps[i].name \in kw}
           required == {p \in Elements(ps) : p.required}
           byKeyword == {p \in required : p.name \in kw}
<1>4. Cardinality(required) = r
  <2>1. required = {ps[i] : i \in 1 .. r}
    BY <1>2, <1>3 DEF Elements
  <2>2. Cardinality(1 .. r) = r
    BY FS_Interval
  <2>3. \A i, j \in 1 .. arity : ps[i] = ps[j] => i = j
    BY <1>2
  <2>4. IsFiniteSet(1 .. r)
    BY SubsetOfInterval, 1 .. r \in SUBSET (1 .. r), r \in Nat
  <2> HIDE DEF required, ps
  <2>5. Cardinality(required) = Cardinality(1 .. r)
    BY <2>1, <2>3, <2>4, 1 .. r \subseteq 1 .. arity, ImageCardinality
  <2> QED BY <2>2, <2>5
<1>5. Cardinality(byKeyword) = Cardinality(K)
  <2>1. byKeyword = {ps[i] : i \in K}
    BY <1>2, <1>3 DEF Elements
  <2>2. \A i, j \in 1 .. arity : ps[i] = ps[j] => i = j
    BY <1>2
  <2>3. K \in SUBSET (1 .. r) /\ r \in Nat /\ K \subseteq 1 .. arity
    OBVIOUS
  <2> HIDE DEF byKeyword, ps, K
  <2>4. IsFiniteSet(K)
    BY <2>3, SubsetOfInterval
  <2>5. \A i, j \in K : ps[i] = ps[j] => i = j
    BY <2>2, <2>3
  <2> QED BY <2>1, <2>4, <2>5, ImageCardinality
<1>6. CASE n > arity
  BY <1>3, <1>6 DEF WrongArguments, Binds
<1>7. CASE n <= arity
  <2>1. \A i \in 1 .. n : i \in 1 .. arity /\ ps[i].name \notin kw
    BY <1>3, <1>7 DEF Doubled
  <2>2. K \in SUBSET (n + 1 .. r)
    BY <2>1
  <2>3. n < Cardinality(required) - Cardinality(byKeyword) <=> \E i \in n + 1 .. r : i \notin K
    <3>1. IsFiniteSet(n + 1 .. r) /\ Cardinality(n + 1 .. r) = IF n + 1 > r THEN 0 ELSE r - n
      <4>1. n + 1 \in Int /\ r \in Int /\ r - (n + 1) + 1 = r - n
        OBVIOUS
      <4> QED BY <4>1, FS_Interval
    <3>2. /\ Cardinality(K) \in Nat /\ Cardinality(K) <= Cardinality(n + 1 .. r)
          /\ Cardinality(K) = Cardinality(n + 1 .. r) => K = n + 1 .. r
      BY <2>2, <3>1, FS_Subset, FS_CardinalityType
    <3> HIDE DEF required, byKeyword, K
    <3>3. CASE K = n + 1 .. r
      BY <1>4, <1>5, <3>1, <3>2, <3>3
    <3>4. CASE K # n + 1 .. r
      <4>1. \E i \in n + 1 .. r : i \notin K
        BY <2>2, <3>4, Zenon
      <4>0. n + 1 <= r
        BY <4>1
      <4>2. Cardinality(K) < r - n
        BY <3>1, <3>2, <3>4, <4>0
      <4> QED BY <1>4, <1>5, <3>2, <4>0, <4>1, <4>2
    <3> QED BY <3>3, <3>4
  <2>4. (\E p \in Elements(ps) : p.required /\ p.name \notin Filled(macro, call))
          <=> \E i \in n + 1 .. r : i \notin K
    <3>1. \A i \in 1 .. arity :
            ps[i].name \in Filled(macro, call) <=> i <= n \/ ps[i].name \in kw
      BY <1>2, <1>7, <2>1 DEF Filled
    <3> HIDE DEF ps
    <3> QED BY <1>2, <1>3, <3>1, SMTT(40) DEF Elements
  <2>5. Binds(macro, call) <=>
          /\ Elements(call.keywords) \subseteq {p.name : p \in Elements(ps)}
          /\ ~\E i \in n + 1 .. r : i \notin K
    BY <1>3, <1>7, <2>4 DEF Binds
  <2>6. WrongArguments(macro, call) <=>
          \/ \E k \in Elements(call.keywords) : k \notin {p.name : p \in Elements(ps)}
          \/ \E i \in n + 1 .. r : i \notin K
    BY <1>3, <1>7, <2>3 DEF WrongArguments
  <2> QED BY <2>5, <2>6
<1> QED BY <1>6, <1>7

(***************************************************************************)
(* What the extractor makes comes from tags.                               *)
(***************************************************************************)
\* A sequence of tags that can be written.
IsText(text) == \E n \in Nat : text = [i \in 1 .. n |-> text[i]] /\ \A i \in 1 .. n : Written(text[i])

\* Every tag of a text can be written.
LEMMA TagsAreWritten ==
  ASSUME NEW text, IsText(text), NEW i \in DOMAIN text
  PROVE  Written(text[i])
BY DEF IsText

\* The identifiers of a tag fit its positions.
LEMMA NamesFit ==
  ASSUME NEW text, IsText(text), NEW i \in DOMAIN text
  PROVE  /\ text[i].names \in Seq(STRING) /\ text[i].aliases \in Seq(STRING)
         /\ Len(text[i].names) \in Nat /\ Len(text[i].names) <= 5
<1>1. Written(text[i])
  BY TagsAreWritten
<1>2. text[i].names \in Seq(STRING) /\ text[i].aliases \in Seq(STRING)
  BY <1>1 DEF Written
<1>3. Len(text[i].names) \in Nat /\ Len(text[i].aliases) \in Nat
  BY <1>2
<1>4. Len(text[i].names) + Len(text[i].aliases) <= 5
  BY <1>1 DEF Written, Width
<1>5. \A a, b \in Nat : a + b <= 5 => a <= 5
  OBVIOUS
<1> QED BY <1>2, <1>3, <1>4, <1>5

\* What is collected per tag is a sequence of what each tag yields.
LEMMA FlattenText ==
  ASSUME NEW text, IsText(text), NEW S, NEW seqs, DOMAIN seqs = DOMAIN text,
         seqs = [i \in DOMAIN text |-> seqs[i]], \A i \in DOMAIN text : seqs[i] \in Seq(S)
  PROVE  FlattenSeq(seqs) \in Seq(S)
<1>1. PICK n \in Nat : DOMAIN text = 1 .. n
  BY DEF IsText
<1>2. seqs \in Seq(Seq(S))
  BY <1>1
<1> QED BY <1>2, FlattenSeqType

\* Each macro fact comes from a macro tag.
LEMMA MacrosOfTags ==
  ASSUME NEW text, IsText(text)
  PROVE  Macros(text) \in Seq({Macro(text, i) : i \in Tags(text, {"macro"})})
<1> DEFINE S == {Macro(text, i) : i \in Tags(text, {"macro"})}
           seqs == [i \in DOMAIN text |-> IF text[i].kind \in {"macro"} THEN <<Macro(text, i)>> ELSE <<>>]
<1>1. ASSUME NEW i \in DOMAIN text PROVE seqs[i] \in Seq(S)
  <2>1. CASE i \in Tags(text, {"macro"})
    <3>1. Macro(text, i) \in S /\ seqs[i] = <<Macro(text, i)>>
      BY <2>1 DEF Tags
    <3> HIDE DEF S, seqs
    <3> QED BY <3>1
  <2>2. CASE i \notin Tags(text, {"macro"})
    <3>1. seqs[i] = <<>>
      BY <2>2 DEF Tags
    <3> HIDE DEF S, seqs
    <3> QED BY <3>1
  <2> QED BY <2>1, <2>2
<1>2. FlattenSeq(seqs) \in Seq(S)
  <2>1. DOMAIN seqs = DOMAIN text /\ seqs = [i \in DOMAIN text |-> seqs[i]]
    OBVIOUS
  <2> HIDE DEF S, seqs
  <2> QED BY <1>1, <2>1, FlattenText
<1>3. Macros(text) = FlattenSeq(seqs)
  BY DEF Macros, Each
<1> QED BY <1>2, <1>3

\* Each call site comes from a render expression that is a call.
LEMMA CallsOfTags ==
  ASSUME NEW text, IsText(text)
  PROVE  MacroCalls(text) \in Seq({MacroCall(text, i) : i \in Tags(text, {"invoke"})})
<1> DEFINE S == {MacroCall(text, i) : i \in Tags(text, {"invoke"})}
           seqs == [i \in DOMAIN text |-> IF text[i].kind \in {"invoke"} THEN <<MacroCall(text, i)>> ELSE <<>>]
<1>1. ASSUME NEW i \in DOMAIN text PROVE seqs[i] \in Seq(S)
  <2>1. CASE i \in Tags(text, {"invoke"})
    <3>1. MacroCall(text, i) \in S /\ seqs[i] = <<MacroCall(text, i)>>
      BY <2>1 DEF Tags
    <3> HIDE DEF S, seqs
    <3> QED BY <3>1
  <2>2. CASE i \notin Tags(text, {"invoke"})
    <3>1. seqs[i] = <<>>
      BY <2>2 DEF Tags
    <3> HIDE DEF S, seqs
    <3> QED BY <3>1
  <2> QED BY <2>1, <2>2
<1>2. FlattenSeq(seqs) \in Seq(S)
  <2>1. DOMAIN seqs = DOMAIN text /\ seqs = [i \in DOMAIN text |-> seqs[i]]
    OBVIOUS
  <2> HIDE DEF S, seqs
  <2> QED BY <1>1, <2>1, FlattenText
<1>3. MacroCalls(text) = FlattenSeq(seqs)
  BY DEF MacroCalls, Each
<1> QED BY <1>2, <1>3

(***************************************************************************)
(* A rename edits no parameter.                                            *)
(***************************************************************************)
\* An identifier that is not a parameter of a macro.
Editable(text, span) ==
  \E i \in DOMAIN text : \E k \in 1 .. Width - 1 :
    span = Name(i, k) /\ (text[i].kind = "macro" => k = 1)

\* A use is at an identifier of a print or a call, never at a parameter.
LEMMA ReferencesAreEditable ==
  ASSUME NEW text, IsText(text), NEW r \in Elements(References(text))
  PROVE  Editable(text, r.span)
<1> DEFINE kinds == {"print"} \cup DOMAIN Qualified \cup CallKinds
           R(i, k, as) == [name |-> Token(text[i], k), kind |-> as, span |-> Name(i, k)]
           As == {"identifier", "function", "attribute", "filter", "test"}
           S == {R(i, k, as) : i \in Tags(text, kinds), k \in 1 .. Width - 1, as \in As}
           second(i) == IF text[i].kind \in DOMAIN Qualified
                        THEN <<R(i, IF text[i].kind = "get" THEN 2 ELSE 1, Qualified[text[i].kind])>>
                        ELSE <<>>
           found(i) == IF text[i].kind \in CallKinds THEN <<R(i, CalleeToken(text[i]), "function")>>
                       ELSE <<R(i, 1, "identifier")>> \o second(i)
           seqs == [i \in DOMAIN text |-> IF text[i].kind \in kinds THEN found(i) ELSE <<>>]
<1>1. ASSUME NEW i \in DOMAIN text PROVE seqs[i] \in Seq(S)
  <2>1. ASSUME i \in Tags(text, kinds), NEW k \in 1 .. Width - 1, NEW as \in As
        PROVE  R(i, k, as) \in S
    <3> HIDE DEF As, kinds
    <3>1. \E j \in Tags(text, kinds), l \in 1 .. Width - 1, a \in As : R(i, k, as) = R(j, l, a)
      BY <2>1
    <3> QED BY <3>1
  <2>2. 1 \in 1 .. Width - 1 /\ 2 \in 1 .. Width - 1 /\ CalleeToken(text[i]) \in 1 .. Width - 1
    <3>1. Len(text[i].names) \in Nat /\ Len(text[i].names) <= 5
      BY NamesFit
    <3> QED BY <3>1 DEF Width, CalleeToken
  <2>3. text[i].kind \in DOMAIN Qualified => Qualified[text[i].kind] \in As
    BY DEF Qualified
  <2> HIDE DEF R, S
  <2>4. CASE i \in Tags(text, kinds)
    <3>1. seqs[i] = found(i)
      BY <2>4 DEF Tags
    <3>2. R(i, CalleeToken(text[i]), "function") \in S /\ R(i, 1, "identifier") \in S
      BY <2>1, <2>2, <2>4
    <3>3. second(i) \in Seq(S)
      <4>1. CASE text[i].kind \in DOMAIN Qualified
        <5>1. R(i, IF text[i].kind = "get" THEN 2 ELSE 1, Qualified[text[i].kind]) \in S
          BY <2>1, <2>2, <2>3, <2>4, <4>1
        <5> QED BY <4>1, <5>1
      <4>2. CASE text[i].kind \notin DOMAIN Qualified
        BY <4>2
      <4> QED BY <4>1, <4>2
    <3> HIDE DEF second
    <3>4. found(i) \in Seq(S)
      BY <3>2, <3>3
    <3> QED BY <3>1, <3>4
  <2>5. CASE i \notin Tags(text, kinds)
    <3>1. seqs[i] = <<>>
      BY <2>5 DEF Tags
    <3> QED BY <3>1
  <2> QED BY <2>4, <2>5
<1>2. FlattenSeq(seqs) \in Seq(S)
  <2>1. DOMAIN seqs = DOMAIN text /\ seqs = [i \in DOMAIN text |-> seqs[i]]
    OBVIOUS
  <2> HIDE DEF S, seqs
  <2> QED BY <1>1, <2>1, FlattenText
<1>3. References(text) = FlattenSeq(seqs)
  BY DEF References, Each, Reference
<1>4. r \in S
  <2> HIDE DEF S, seqs
  <2> QED BY <1>2, <1>3 DEF Elements
<1>5. PICK i \in Tags(text, kinds), k \in 1 .. Width - 1 : r.span = Name(i, k)
  BY <1>4
<1>6. i \in DOMAIN text /\ text[i].kind # "macro"
  BY DEF Tags, Qualified, CallKinds
<1> QED BY <1>5, <1>6 DEF Editable

\* The name of a definition is the first identifier of its tag.
LEMMA HeaderIsFirstName ==
  ASSUME NEW i \in Nat, NEW d, d.span = Statement(i)
  PROVE  DefinitionName(d) = Name(i, 1)
<1>1. d.span.lo = TagStart(i)
  BY DEF Statement, Span
<1>2. TagStart(i) \in Nat
  BY DEF TagStart, Width
<1> QED BY <1>1, <1>2 DEF DefinitionName, Name

\* A macro's name is no parameter.
LEMMA MacroNamesAreEditable ==
  ASSUME NEW text, IsText(text), NEW m \in Elements(Macros(text))
  PROVE  Editable(text, DefinitionName(m))
<1> DEFINE S == {Macro(text, i) : i \in Tags(text, {"macro"})}
<1>1. m \in S
  <2>1. Macros(text) \in Seq(S)
    BY MacrosOfTags
  <2> HIDE DEF S
  <2> QED BY <2>1 DEF Elements
<1>2. PICK i \in Tags(text, {"macro"}) : m = Macro(text, i)
  BY <1>1
<1>3. i \in DOMAIN text /\ i \in Nat
  BY DEF Tags, IsText
<1>4. m.span = Statement(i)
  BY <1>2 DEF Macro
<1>5. DefinitionName(m) = Name(i, 1)
  BY <1>3, <1>4, HeaderIsFirstName
<1> QED BY <1>3, <1>5 DEF Editable, Width

\* The entries of a from-import, collected by name, are at identifiers of its tag.
LEMMA ImportedNamesAreTokens ==
  ASSUME NEW text, IsText(text), NEW i \in DOMAIN text
  PROVE  \E S : /\ ImportedNames(text[i], i) \in Seq(S)
                /\ \A x \in S : \E k \in 1 .. Width - 1 : x.span = Name(i, k)
<1> DEFINE tag == text[i]
           uses(n) == {k \in DOMAIN tag.names : tag.names[k] = n}
           first(n) == CHOOSE k \in uses(n) : \A u \in uses(n) : k <= u
           aliased(n) == {k \in uses(n) : tag.aliases[k] # None}
           alias(n) == IF aliased(n) = {} THEN None
                       ELSE tag.aliases[CHOOSE k \in aliased(n) : \A a \in aliased(n) : a <= k]
           entry(k) == [name |-> tag.names[k], alias |-> alias(tag.names[k]), span |-> Name(i, k)]
           seqs == [k \in DOMAIN tag.names |-> IF first(tag.names[k]) = k THEN <<entry(k)>> ELSE <<>>]
           S == {entry(k) : k \in DOMAIN tag.names}
<1>1. PICK n \in Nat : n <= 5 /\ DOMAIN tag.names = 1 .. n
  BY NamesFit
<1>2. seqs \in Seq(Seq(S))
  <2>1. \A k \in 1 .. n : entry(k) \in S
    <3> HIDE DEF entry
    <3> QED BY <1>1
  <2> HIDE DEF first, entry, S
  <2>2. \A k \in 1 .. n : seqs[k] \in Seq(S)
    BY <1>1, <2>1
  <2>3. seqs = [k \in 1 .. n |-> seqs[k]]
    BY <1>1
  <2> HIDE DEF seqs
  <2> QED BY <2>2, <2>3
<1>3. ImportedNames(text[i], i) = FlattenSeq(seqs)
  BY DEF ImportedNames
<1>4. \A x \in S : \E k \in 1 .. Width - 1 : x.span = Name(i, k)
  <2> HIDE DEF alias
  <2> QED BY <1>1 DEF Width
<1>5. ImportedNames(text[i], i) \in Seq(S)
  <2> HIDE DEF seqs, S
  <2> QED BY <1>2, <1>3, FlattenSeqType
<1> HIDE DEF S
<1> QED BY <1>4, <1>5

\* Each from-import fact comes from a from tag.
LEMMA FromImportsOfTags ==
  ASSUME NEW text, IsText(text)
  PROVE  FromImports(text) \in
           Seq({[source |-> text[i].target, names |-> ImportedNames(text[i], i), span |-> Literal(i)] :
                  i \in Tags(text, {"from"})})
<1> DEFINE import(i) == [source |-> text[i].target, names |-> ImportedNames(text[i], i), span |-> Literal(i)]
           S == {import(i) : i \in Tags(text, {"from"})}
           seqs == [i \in DOMAIN text |-> IF text[i].kind \in {"from"} THEN <<import(i)>> ELSE <<>>]
<1>1. ASSUME NEW i \in DOMAIN text PROVE seqs[i] \in Seq(S)
  <2> HIDE DEF import
  <2>1. CASE i \in Tags(text, {"from"})
    <3>1. import(i) \in S /\ seqs[i] = <<import(i)>>
      BY <2>1 DEF Tags
    <3> HIDE DEF S, seqs
    <3> QED BY <3>1
  <2>2. CASE i \notin Tags(text, {"from"})
    <3>1. seqs[i] = <<>>
      BY <2>2 DEF Tags
    <3> HIDE DEF S, seqs
    <3> QED BY <3>1
  <2> QED BY <2>1, <2>2
<1>2. FlattenSeq(seqs) \in Seq(S)
  <2>1. DOMAIN seqs = DOMAIN text /\ seqs = [i \in DOMAIN text |-> seqs[i]]
    OBVIOUS
  <2> HIDE DEF S, seqs
  <2> QED BY <1>1, <2>1, FlattenText
<1>3. FromImports(text) = FlattenSeq(seqs)
  BY DEF FromImports, Each
<1> QED BY <1>2, <1>3

\* An imported name is no parameter.
LEMMA ImportedNamesAreEditable ==
  ASSUME NEW text, IsText(text), NEW fi \in Elements(FromImports(text)), NEW n \in Elements(fi.names)
  PROVE  Editable(text, n.span)
<1> DEFINE import(i) == [source |-> text[i].target, names |-> ImportedNames(text[i], i), span |-> Literal(i)]
           S == {import(i) : i \in Tags(text, {"from"})}
<1>1. fi \in S
  <2>1. FromImports(text) \in Seq(S)
    BY FromImportsOfTags
  <2> HIDE DEF S
  <2> QED BY <2>1 DEF Elements
<1>2. PICK i \in Tags(text, {"from"}) : fi.names = ImportedNames(text[i], i)
  BY <1>1
<1>3. i \in DOMAIN text /\ text[i].kind # "macro"
  BY DEF Tags
<1>4. PICK T : fi.names \in Seq(T) /\ \A x \in T : \E k \in 1 .. Width - 1 : x.span = Name(i, k)
  BY <1>2, <1>3, ImportedNamesAreTokens
<1>5. n \in T
  BY <1>4 DEF Elements
<1> QED BY <1>3, <1>4, <1>5 DEF Editable

\* A block that gets a body and an end name is still a block.
LEMMA ClosedBlockType ==
  ASSUME NEW N, NEW S, NEW B, NEW E, NEW body \in B, NEW end \in E,
         NEW b \in [name : N, scoped : BOOLEAN, required : BOOLEAN, body : B, span : S, endName : E]
  PROVE  [b EXCEPT !.body = body, !.endName = end]
           \in [name : N, scoped : BOOLEAN, required : BOOLEAN, body : B, span : S, endName : E]
OBVIOUS

\* What a block fact can consist of.
BlockTags(text) == {Statement(i) : i \in Tags(text, {"block"})}
EndNames(text) == {Name(i, 1) : i \in Tags(text, {"named_endblock"})}
Closings(text) == {Span(TagEnd(TagOf(p.lo)), TagStart(i)) : p \in BlockTags(text), i \in DOMAIN text}
DeclaredSet(text, regions) == {DeclaredBlock(text, regions, i) : i \in Tags(text, {"block"})}
BlockSet(text, regions) ==
  [name : {d.name : d \in DeclaredSet(text, regions)}, scoped : BOOLEAN, required : BOOLEAN,
   body : {d.body : d \in DeclaredSet(text, regions)} \cup Closings(text),
   span : BlockTags(text), endName : {NoSpan} \cup EndNames(text)]

\* Each block is declared by a block tag.
LEMMA DeclaredBlocksType ==
  ASSUME NEW text, IsText(text), NEW regions
  PROVE  DeclaredBlocks(text, regions) \in Seq(BlockSet(text, regions))
<1> DEFINE B == BlockSet(text, regions)
           seqs == [i \in DOMAIN text |-> IF text[i].kind \in {"block"}
                                          THEN <<DeclaredBlock(text, regions, i)>> ELSE <<>>]
<1>1. ASSUME NEW i \in Tags(text, {"block"}) PROVE DeclaredBlock(text, regions, i) \in B
  <2> DEFINE d == DeclaredBlock(text, regions, i)
  <2>1. d \in DeclaredSet(text, regions) /\ Statement(i) \in BlockTags(text)
    BY <1>1 DEF DeclaredSet, BlockTags
  <2>2. d = [name |-> d.name, scoped |-> d.scoped, required |-> d.required,
             body |-> d.body, span |-> Statement(i), endName |-> NoSpan]
        /\ d.scoped \in BOOLEAN /\ d.required \in BOOLEAN
    BY DEF DeclaredBlock
  <2> HIDE DEF d
  <2>3. d.name \in {x.name : x \in DeclaredSet(text, regions)}
        /\ d.body \in {x.body : x \in DeclaredSet(text, regions)}
    BY <2>1
  <2>4. d \in B
    BY <2>1, <2>2, <2>3 DEF BlockSet
  <2> QED BY <2>4 DEF d
<1>2. ASSUME NEW i \in DOMAIN text PROVE seqs[i] \in Seq(B)
  <2>1. CASE i \in Tags(text, {"block"})
    <3>1. DeclaredBlock(text, regions, i) \in B /\ seqs[i] = <<DeclaredBlock(text, regions, i)>>
      BY <1>1, <2>1 DEF Tags
    <3> HIDE DEF B, seqs
    <3> QED BY <3>1
  <2>2. CASE i \notin Tags(text, {"block"})
    <3>1. seqs[i] = <<>>
      BY <2>2 DEF Tags
    <3> HIDE DEF B, seqs
    <3> QED BY <3>1
  <2> QED BY <2>1, <2>2
<1>3. FlattenSeq(seqs) \in Seq(B)
  <2>1. DOMAIN seqs = DOMAIN text /\ seqs = [i \in DOMAIN text |-> seqs[i]]
    OBVIOUS
  <2> HIDE DEF B, seqs
  <2> QED BY <1>2, <2>1, FlattenText
<1>4. DeclaredBlocks(text, regions) = FlattenSeq(seqs)
  BY DEF DeclaredBlocks, Each
<1> QED BY <1>3, <1>4

\* A named endblock gives a body to a block and leaves the others.
LEMMA CloseByNameType ==
  ASSUME NEW text, IsText(text), NEW regions, NEW i \in Tags(text, {"named_endblock"}),
         NEW blocks \in Seq(BlockSet(text, regions))
  PROVE  CloseByName(text, blocks, i) \in Seq(BlockSet(text, regions))
<1> DEFINE B == BlockSet(text, regions)
           waiting == {b \in DOMAIN blocks :
                         /\ blocks[b].name = text[i].names[1]
                         /\ blocks[b].body = NoSpan
                         /\ TagEnd(TagOf(blocks[b].span.lo)) < TagStart(i)}
           nearest == CHOOSE b \in waiting : \A w \in waiting : w <= b
           old == blocks[nearest]
           body == Span(TagEnd(TagOf(old.span.lo)), TagStart(i))
           changed == [old EXCEPT !.body = body, !.endName = Name(i, 1)]
<1>1. CloseByName(text, blocks, i) = IF waiting = {} THEN blocks ELSE [blocks EXCEPT ![nearest] = changed]
  BY Zenon DEF CloseByName
<1> HIDE DEF waiting, nearest
<1>2. ASSUME nearest \in DOMAIN blocks PROVE changed \in B
  <2>1. old \in B
    BY <1>2, ElementType
  <2> HIDE DEF old
  <2>2. old.span \in BlockTags(text)
    BY <2>1 DEF BlockSet
  <2>3. body \in Closings(text)
    <3>1. i \in DOMAIN text
      BY DEF Tags
    <3>2. \E p \in BlockTags(text), j \in DOMAIN text : body = Span(TagEnd(TagOf(p.lo)), TagStart(j))
      BY <2>2, <3>1
    <3> HIDE DEF body
    <3> QED BY <3>2 DEF Closings
  <2>4. Name(i, 1) \in EndNames(text)
    BY DEF EndNames
  <2> HIDE DEF body
  <2> QED BY <2>1, <2>3, <2>4, ClosedBlockType DEF BlockSet
<1> HIDE DEF changed
<1>3. [blocks EXCEPT ![nearest] = changed] \in Seq(B)
  BY <1>2, ExceptType
<1> QED BY <1>1, <1>3

\* Blocks, closed by region or by name, are at block tags and end at named endblocks.
LEMMA BlocksType ==
  ASSUME NEW text, IsText(text), NEW regions
  PROVE  Blocks(text, regions) \in Seq(BlockSet(text, regions))
<1> DEFINE B == BlockSet(text, regions)
           n == Len(text)
           base == DeclaredBlocks(text, regions)
           Close(g, i) == IF i = 0 THEN base
                          ELSE IF text[i].kind = "named_endblock" THEN CloseByName(text, g[i - 1], i)
                          ELSE g[i - 1]
           Rec(g) == g = [i \in 0 .. n |-> Close(g, i)]
           closed == CHOOSE g : Rec(g)
<1>1. n \in Nat /\ DOMAIN text = 1 .. n
  BY DEF IsText
<1>2. base \in Seq(B)
  BY DeclaredBlocksType
<1>3. \A i \in 1 .. n : \A s \in Seq(B) :
        text[i].kind = "named_endblock" => CloseByName(text, s, i) \in Seq(B)
  BY <1>1, CloseByNameType DEF Tags
<1>4. Blocks(text, regions) = closed[n]
  BY DEF Blocks
<1> HIDE DEF B, n, base
<1>5. \E g : Rec(g)
  <2> DEFINE step == [i \in 1 .. n |-> [s \in Seq(B) |->
                       IF text[i].kind = "named_endblock" THEN CloseByName(text, s, i) ELSE s]]
  <2>1. step \in [1 .. n -> [Seq(B) -> Seq(B)]]
    BY <1>3
  <2>2. PICK f \in [0 .. n -> Seq(B)] : Steps(f, n, base, step)
    <3> DEFINE T == Seq(B)
    <3>1. base \in T /\ step \in [1 .. n -> [T -> T]] /\ n \in Nat
      BY <1>1, <1>2, <2>1
    <3> HIDE DEF step, T
    <3>2. \E f \in [0 .. n -> T] : Steps(f, n, base, step)
      BY <3>1, Recursion
    <3> QED BY <3>2 DEF T
  <2>3. ASSUME NEW i \in 0 .. n PROVE f[i] = Close(f, i)
    <3>1. i # 0 => i \in 1 .. n /\ i - 1 \in 0 .. n
      BY <1>1
    <3>2. i # 0 => f[i - 1] \in Seq(B)
      BY <3>1
    <3> QED BY <2>2, <3>1, <3>2 DEF Steps
  <2> HIDE DEF Close
  <2>4. f = [i \in 0 .. n |-> Close(f, i)]
    BY <2>3
  <2> QED BY <2>4
<1>6. Rec(closed)
  <2> HIDE DEF Rec
  <2> QED BY <1>5
<1> HIDE DEF closed
<1>7. closed[0] \in Seq(B)
  <2>1. 0 \in 0 .. n
    BY <1>1
  <2> QED BY <1>2, <1>6, <2>1
<1>8. ASSUME NEW i \in 1 .. n, closed[i - 1] \in Seq(B) PROVE closed[i] \in Seq(B)
  <2>1. i \in 0 .. n /\ i # 0
    BY <1>1
  <2>2. closed[i] = Close(closed, i)
    BY <1>6, <2>1
  <2> QED BY <1>3, <1>8, <2>1, <2>2
<1>9. closed[n] \in Seq(B)
  BY <1>1, <1>7, <1>8, RecursionType
<1> QED BY <1>4, <1>9 DEF B

\* Neither the name of a block nor the one in its end tag is a parameter.
LEMMA BlockNamesAreEditable ==
  ASSUME NEW text, IsText(text), NEW regions, NEW b \in Elements(Blocks(text, regions))
  PROVE  /\ Editable(text, DefinitionName(b))
         /\ NonEmpty(b.endName) => Editable(text, b.endName)
<1>1. b \in BlockSet(text, regions)
  BY BlocksType DEF Elements
<1>2. b.span \in BlockTags(text) /\ b.endName \in {NoSpan} \cup EndNames(text)
  BY <1>1 DEF BlockSet
<1>3. \A i \in DOMAIN text : i \in Nat
  BY DEF IsText
<1>4. Editable(text, DefinitionName(b))
  <2>1. PICK i \in Tags(text, {"block"}) : b.span = Statement(i)
    BY <1>2 DEF BlockTags
  <2>2. i \in DOMAIN text
    BY DEF Tags
  <2>3. DefinitionName(b) = Name(i, 1)
    BY <1>3, <2>1, <2>2, HeaderIsFirstName
  <2> QED BY <2>2, <2>3 DEF Editable, Width
<1>5. ASSUME NonEmpty(b.endName) PROVE Editable(text, b.endName)
  <2>1. b.endName # NoSpan
    BY <1>5 DEF NonEmpty, NoSpan, Span
  <2>2. PICK i \in Tags(text, {"named_endblock"}) : b.endName = Name(i, 1)
    BY <1>2, <2>1 DEF EndNames
  <2>3. i \in DOMAIN text /\ text[i].kind # "macro"
    BY DEF Tags
  <2>4. 1 \in 1 .. Width - 1
    BY DEF Width
  <2> QED BY <2>2, <2>3, <2>4, Zenon DEF Editable
<1> QED BY <1>4, <1>5

\* What a rename calls the reads of a name are no parameters.
LEMMA ReadsAreEditable ==
  ASSUME NEW text, IsText(text), NEW name, NEW s \in AllReads(Extract(text), name)
  PROVE  Editable(text, s)
<1>1. PICK r \in Elements(Extract(text).references) : s = r.span
  BY DEF AllReads, Uses, Refs
<1>2. Extract(text).references = References(text)
  BY DEF Extract
<1> QED BY <1>1, <1>2, ReferencesAreEditable

\* No edit of one template by a workspace rename is at a parameter.
LEMMA TemplateEditsAreEditable ==
  ASSUME NEW text, IsText(text), NEW name, NEW blocksToo,
         NEW s \in RenameInIndex(Extract(text), name, blocksToo)
  PROVE  Editable(text, s)
<1> DEFINE facts == Extract(text)
           regions == BuildScopeRegions(text)
<1>1. /\ facts.macros = Macros(text)
      /\ facts.blocks = Blocks(text, regions)
      /\ facts.fromImports = FromImports(text)
  BY DEF Extract
<1> HIDE DEF facts, regions
<1>2. \/ \E m \in Elements(facts.macros) : s = DefinitionName(m)
      \/ \E b \in Elements(facts.blocks) : s = DefinitionName(b) \/ (s = b.endName /\ NonEmpty(b.endName))
      \/ s \in AllReads(facts, name)
      \/ \E fi \in Elements(facts.fromImports) : \E n \in Elements(fi.names) : s = n.span
  <2>1. s \in RenameInIndex(facts, name, blocksToo)
    BY DEF facts
  <2> QED BY <2>1 DEF RenameInIndex
<1>3. ASSUME NEW m \in Elements(facts.macros), s = DefinitionName(m) PROVE Editable(text, s)
  BY <1>1, <1>3, MacroNamesAreEditable
<1>4. ASSUME NEW b \in Elements(facts.blocks), s = DefinitionName(b) \/ (s = b.endName /\ NonEmpty(b.endName))
      PROVE  Editable(text, s)
  BY <1>1, <1>4, BlockNamesAreEditable
<1>5. ASSUME s \in AllReads(facts, name) PROVE Editable(text, s)
  BY <1>5, ReadsAreEditable DEF facts
<1>6. ASSUME NEW fi \in Elements(facts.fromImports), NEW n \in Elements(fi.names), s = n.span
      PROVE  Editable(text, s)
  BY <1>1, <1>6, ImportedNamesAreEditable
<1> QED BY <1>2, <1>3, <1>4, <1>5, <1>6

\* What holds of a project: its texts can be written and its index is what they say.
IsProject(files, templates) ==
  /\ DOMAIN files = Templates
  /\ \A k \in Templates : IsText(files[k])
  /\ templates = [k \in Templates |-> Extract(files[k])]

\* No edit of a rename, local or of the workspace, is at a parameter, whatever the cursor.
LEMMA EditsAreEditable ==
  ASSUME NEW files, NEW templates, IsProject(files, templates), NEW sources \in SUBSET Templates,
         NEW key \in Templates, NEW target, NEW e \in ComputeRename(templates, sources, key, target)
  PROVE  e.key \in Templates /\ Editable(files[e.key], e.span)
<1>1. \A k \in Templates : templates[k] = Extract(files[k]) /\ IsText(files[k])
  BY DEF IsProject
<1>2. CASE target.kind = "local"
  <2>1. PICK s \in RenameScoped(templates[key], target.name, target.scope) : e = Place(key, s)
    BY <1>2 DEF ComputeRename
  <2>2. s \in AllReads(Extract(files[key]), target.name)
    BY <1>1, <2>1 DEF RenameScoped
  <2> QED BY <1>1, <2>1, <2>2, ReadsAreEditable DEF Place
<1>3. CASE target.kind # "local"
  <2>1. PICK k \in Templates : \E blocksToo : \E s \in RenameInIndex(templates[k], target.name, blocksToo) :
           e = Place(k, s)
    BY <1>3 DEF ComputeRename
  <2> PICK blocksToo : \E s \in RenameInIndex(templates[k], target.name, blocksToo) : e = Place(k, s)
    BY <2>1
  <2>2. PICK s \in RenameInIndex(templates[k], target.name, blocksToo) : e = Place(k, s)
    OBVIOUS
  <2>3. e.key = k /\ e.span = s
    BY <2>2 DEF Place
  <2> QED BY <1>1, <2>2, <2>3, TemplateEditsAreEditable
<1> QED BY <1>2, <1>3

(***************************************************************************)
(* A rename leaves a text that can be written.                             *)
(***************************************************************************)
\* A position of an identifier gives back its tag and its place in the tag.
LEMMA TokenOfName ==
  ASSUME NEW i \in Nat, NEW k \in 1 .. Width - 1
  PROVE  TagOf(Name(i, k).lo) = i /\ TokenOf(Name(i, k).lo) = k
<1>1. Name(i, k).lo = 8 * i + k /\ k \in 1 .. 7
  BY DEF Name, Span, TagStart, Width
<1>2. (8 * i + k) \div 8 = i /\ (8 * i + k) % 8 = k
  BY <1>1
<1> QED BY <1>1, <1>2 DEF TagOf, TokenOf, Width

\* A tag that can be written still can after a rename that leaves its parameters.
LEMMA RetokenIsWritten ==
  ASSUME NEW tag, Written(tag), NEW edited, tag.kind = "macro" => edited \subseteq {1},
         NEW name \in STRING \ {None}
  PROVE  Written(Retoken(tag, edited, name))
<1> DEFINE names == [k \in DOMAIN tag.names |-> IF k \in edited THEN name ELSE tag.names[k]]
           aliases == [k \in DOMAIN tag.aliases |->
                        IF Len(tag.names) + k \in edited THEN name ELSE tag.aliases[k]]
           new == Retoken(tag, edited, name)
<1>1. tag \in [kind : STRING, names : Seq(STRING), aliases : Seq(STRING), target : Seq(STRING),
               count : Nat, flags : SUBSET STRING]
  BY DEF Written
<1>2. new = [tag EXCEPT !.names = names, !.aliases = aliases]
  BY Zenon DEF Retoken
<1>3. names \in Seq(STRING) /\ Len(names) = Len(tag.names) /\ DOMAIN names = DOMAIN tag.names
  <2>1. PICK n \in Nat : tag.names \in [1 .. n -> STRING]
    BY <1>1
  <2>2. names \in [1 .. n -> STRING]
    BY <2>1
  <2> HIDE DEF names
  <2> QED BY <2>1, <2>2
<1>4. aliases \in Seq(STRING) /\ Len(aliases) = Len(tag.aliases)
  <2>1. PICK n \in Nat : tag.aliases \in [1 .. n -> STRING]
    BY <1>1
  <2>2. aliases \in [1 .. n -> STRING]
    BY <2>1
  <2> HIDE DEF aliases
  <2> QED BY <2>1, <2>2
<1>5. tag.kind = "macro" => \A k \in 2 .. Len(tag.names) : names[k] = tag.names[k]
  <2>1. \A k \in 2 .. Len(tag.names) : k \in DOMAIN tag.names /\ k # 1
    BY <1>1
  <2> QED BY <2>1
<1>6. new = [kind |-> tag.kind, names |-> names, aliases |-> aliases, target |-> tag.target,
             count |-> tag.count, flags |-> tag.flags]
  <2> HIDE DEF names, aliases, new
  <2> QED BY <1>1, <1>2
<1> HIDE DEF names, aliases, new
<1>7. new.names = names /\ new.aliases = aliases /\ new.kind = tag.kind /\ new.count = tag.count
      /\ new \in [kind : STRING, names : Seq(STRING), aliases : Seq(STRING), target : Seq(STRING),
                  count : Nat, flags : SUBSET STRING]
  BY <1>1, <1>3, <1>4, <1>6
<1>8. names # <<>> <=> tag.names # <<>>
  BY <1>1, <1>3
<1>9. None \notin Elements(names)
  <2>1. \A k \in DOMAIN tag.names : tag.names[k] # None
    BY DEF Written, Elements
  <2>2. \A k \in DOMAIN names : names[k] # None
    BY <1>3, <2>1 DEF names
  <2> QED BY <2>2 DEF Elements
<1>10. tag.kind \in {"get", "invoke_member"} => Len(names) > 1
  BY <1>3 DEF Written
<1>11. tag.kind = "call" => Len(aliases) = 1 /\ aliases[1] # None
  <2>1. tag.kind = "call" => Len(tag.aliases) = 1 /\ tag.aliases[1] # None
    BY DEF Written
  <2>2. Len(tag.aliases) = 1 => 1 \in DOMAIN tag.aliases
    BY <1>1
  <2> QED BY <1>4, <2>1, <2>2 DEF aliases
<1>12. Written(new)
  <2>1. Len(names) + Len(aliases) <= Width - 3
    BY <1>3, <1>4 DEF Written
  <2>2. tag.kind \in NamingKinds => names # <<>>
    BY <1>8 DEF Written
  <2>3. tag.kind = "macro" =>
          /\ tag.count < Len(names)
          /\ \A i, j \in 2 .. Len(names) : names[i] = names[j] => i = j
    BY <1>1, <1>3, <1>5 DEF Written
  <2> QED BY <1>7, <1>9, <1>10, <1>11, <2>1, <2>2, <2>3 DEF Written
<1> QED BY <1>12 DEF new

\* A rename leaves a text that can be written, with the same tags.
LEMMA RenamedIsText ==
  ASSUME NEW text, IsText(text), NEW spans, \A s \in spans : Editable(text, s), NEW name \in STRING \ {None}
  PROVE  IsText(Renamed(text, spans, name)) /\ DOMAIN Renamed(text, spans, name) = DOMAIN text
<1> DEFINE edited(i) == {TokenOf(s.lo) : s \in {e \in spans : TagOf(e.lo) = i}}
           new == [i \in DOMAIN text |-> Retoken(text[i], edited(i), name)]
<1>1. PICK n \in Nat : DOMAIN text = 1 .. n
  BY DEF IsText
<1>2. ASSUME NEW i \in 1 .. n PROVE Written(Retoken(text[i], edited(i), name))
  <2>1. ASSUME text[i].kind = "macro", NEW s \in spans, TagOf(s.lo) = i PROVE TokenOf(s.lo) = 1
    <3>1. PICK j \in DOMAIN text, k \in 1 .. Width - 1 : s = Name(j, k) /\ (text[j].kind = "macro" => k = 1)
      BY DEF Editable
    <3>2. TagOf(s.lo) = j /\ TokenOf(s.lo) = k
      BY <1>1, <3>1, TokenOfName
    <3> QED BY <2>1, <3>1, <3>2
  <2>2. text[i].kind = "macro" => edited(i) \subseteq {1}
    BY <2>1
  <2> HIDE DEF edited
  <2> QED BY <1>1, <2>2, TagsAreWritten, RetokenIsWritten
<1>3. Renamed(text, spans, name) = new
  BY DEF Renamed
<1> HIDE DEF edited
<1>4. DOMAIN new = 1 .. n /\ new = [i \in 1 .. n |-> new[i]] /\ \A i \in 1 .. n : Written(new[i])
  BY <1>1, <1>2
<1> HIDE DEF new
<1> QED BY <1>1, <1>3, <1>4 DEF IsText

(***************************************************************************)
(* The index is what the texts say.                                        *)
(***************************************************************************)
IInv ==
  /\ IsProject(texts, index)
  /\ \A k \in Templates : Len(texts[k]) <= MaxTags[k]

\* Empty templates are a project.
LEMMA InitProject == Init => IInv
<1> SUFFICES ASSUME Init PROVE IInv
  OBVIOUS
<1>1. IsText(<<>>) /\ Len(<<>>) = 0
  <2>1. DOMAIN <<>> = 1 .. 0 /\ <<>> = [i \in 1 .. 0 |-> <<>>[i]] /\ 0 \in Nat
    OBVIOUS
  <2> QED BY <2>1 DEF IsText
<1>2. \A k \in Templates : MaxTags[k] \in Nat
  BY TextAssumption
<1>3. \A k \in Templates : texts[k] = <<>> /\ 0 <= MaxTags[k]
  BY <1>2 DEF Init
<1> QED BY <1>1, <1>3 DEF Init, IInv, IsProject

\* A tag that can be written after a text makes a text.
LEMMA AppendIsText ==
  ASSUME NEW text, IsText(text), NEW tag, Written(tag)
  PROVE  IsText(Append(text, tag)) /\ Len(Append(text, tag)) = Len(text) + 1 /\ Len(text) \in Nat
<1>1. PICK n \in Nat : text = [i \in 1 .. n |-> text[i]] /\ \A i \in 1 .. n : Written(text[i])
  BY DEF IsText
<1> DEFINE T == {text[i] : i \in 1 .. n} \cup {tag}
           more == Append(text, tag)
<1>2. tag \in T /\ text \in Seq(T) /\ Len(text) = n
  <2>1. \A i \in 1 .. n : text[i] \in T
    OBVIOUS
  <2>2. tag \in T
    OBVIOUS
  <2> HIDE DEF T
  <2> QED BY <1>1, <2>1, <2>2
<1> HIDE DEF T
<1>3. Len(more) = n + 1 /\ more \in Seq(T) /\ \A i \in 1 .. n + 1 : more[i] = IF i = n + 1 THEN tag ELSE text[i]
  BY <1>2
<1> HIDE DEF more
<1>4. more = [i \in 1 .. n + 1 |-> more[i]]
  BY <1>3
<1>5. \A i \in 1 .. n + 1 : Written(more[i])
  <2>1. \A i \in 1 .. n + 1 : i # n + 1 => i \in 1 .. n
    OBVIOUS
  <2> QED BY <1>1, <1>3, <2>1
<1>6. IsText(more)
  BY <1>4, <1>5 DEF IsText
<1> QED BY <1>2, <1>3, <1>6 DEF more

\* Typing and renaming keep every text writable and the index what the texts say.
LEMMA StepKeepsProject == IInv /\ [Next]_vars => IInv'
<1> SUFFICES ASSUME IInv, [Next]_vars PROVE IInv'
  OBVIOUS
<1>0. /\ DOMAIN texts = Templates
      /\ \A k \in Templates : IsText(texts[k]) /\ Len(texts[k]) <= MaxTags[k] /\ MaxTags[k] \in Nat
      /\ index = [k \in Templates |-> Extract(texts[k])]
  BY TextAssumption DEF IInv, IsProject
<1>1. ASSUME NEW k \in Templates, NEW tag \in Vocabulary[k], Type(k, tag) PROVE IInv'
  <2> DEFINE text == Append(texts[k], tag)
  <2>1. texts' = [texts EXCEPT ![k] = text] /\ index' = [index EXCEPT ![k] = Extract(text)]
        /\ Len(texts[k]) < MaxTags[k]
    BY <1>1 DEF Type, UpdateFile
  <2>2. Written(tag)
    BY TextAssumption
  <2>3. IsText(text) /\ Len(text) = Len(texts[k]) + 1 /\ Len(texts[k]) \in Nat
    BY <1>0, <2>2, AppendIsText
  <2> HIDE DEF text
  <2>4. Len(text) <= MaxTags[k]
    BY <1>0, <2>1, <2>3
  <2>5. DOMAIN texts' = Templates /\ \A q \in Templates : texts'[q] = IF q = k THEN text ELSE texts[q]
    BY <1>0, <2>1
  <2>6. \A q \in Templates : IsText(texts'[q]) /\ Len(texts'[q]) <= MaxTags[q]
    BY <1>0, <2>3, <2>4, <2>5
  <2>7. index' = [q \in Templates |-> Extract(texts'[q])]
    <3>1. index' = [q \in Templates |-> IF q = k THEN Extract(text) ELSE Extract(texts[q])]
      BY <1>0, <2>1
    <3> QED BY <2>5, <3>1
  <2> QED BY <2>5, <2>6, <2>7 DEF IInv, IsProject
<1>2. ASSUME NEW c \in Cursors, NEW n \in NewNames, NEW sources \in OpenSets, RenameSymbol(c, n, sources)
      PROVE  IInv'
  <2>1. PICK target : LET edits == ComputeRename(index, sources, c.key, target)
                      IN  /\ texts' = ApplyEdits(texts, edits, n)
                          /\ index' = [k \in Templates |-> Extract(texts'[k])]
    BY <1>2 DEF RenameSymbol
  <2> DEFINE edits == ComputeRename(index, sources, c.key, target)
             spans(k) == {e.span : e \in {p \in edits : p.key = k}}
  <2>2. c.key \in Templates /\ sources \in SUBSET Templates
    BY TextAssumption DEF Cursors, CursorsIn
  <2>3. n \in STRING \ {None}
    BY TextAssumption
  <2>4. \A k \in Templates : \A s \in spans(k) : Editable(texts[k], s)
    BY <2>2, EditsAreEditable DEF IInv
  <2>5. texts' = [k \in Templates |-> Renamed(texts[k], spans(k), n)]
    BY <1>0, <2>1 DEF ApplyEdits
  <2> HIDE DEF spans, edits
  <2>6. ASSUME NEW k \in Templates PROVE IsText(texts'[k]) /\ Len(texts'[k]) = Len(texts[k])
    <3>1. texts'[k] = Renamed(texts[k], spans(k), n)
      BY <2>5
    <3> DEFINE old == texts[k]
               edited == spans(k)
               new == texts'[k]
    <3>2. IsText(old) /\ new = Renamed(old, edited, n) /\ \A s \in edited : Editable(old, s)
      BY <1>0, <2>4, <3>1
    <3> HIDE DEF old, edited, new
    <3>3. IsText(new) /\ DOMAIN new = DOMAIN old
      BY <2>3, <3>2, RenamedIsText
    <3>4. IsText(texts'[k]) /\ DOMAIN texts'[k] = DOMAIN texts[k]
      BY <3>3 DEF old, new
    <3>5. PICK a \in Nat : DOMAIN texts[k] = 1 .. a
      BY <1>0 DEF IsText
    <3> QED BY <3>4, <3>5
  <2>7. DOMAIN texts' = Templates /\ index' = [k \in Templates |-> Extract(texts'[k])]
    BY <2>1, <2>5
  <2> QED BY <1>0, <2>6, <2>7 DEF IInv, IsProject
<1>3. CASE UNCHANGED vars
  BY <1>3 DEF vars, IInv, IsProject
<1> QED BY <1>1, <1>2, <1>3 DEF Next

\* The strengthened invariant holds in every reachable project.
LEMMA AlwaysProject == Spec => []IInv
BY InitProject, StepKeepsProject, PTL DEF Spec

\* After every edit and every rename the index holds exactly what the extractor finds in the texts
\* (index_file_into in src/server/state.rs re-extracts each file a command touches), for any keys,
\* vocabulary, lengths and new names.
THEOREM IndexIsExtracted == Spec => []TypeOK
<1>1. IInv => TypeOK
  BY DEF IInv, IsProject, TypeOK
<1> QED BY <1>1, AlwaysProject, PTL

(***************************************************************************)
(* A call resolves to one macro.                                           *)
(***************************************************************************)
\* A lookup finds at most one.
AtMostOne(S) == \A x, y \in S : x = y

\* There is at most one first.
LEMMA FirstIsOne ==
  ASSUME NEW list, NEW hits \in SUBSET Nat
  PROVE  AtMostOne({list[i] : i \in {j \in hits : \A h \in hits : j <= h}})
<1>1. \A i, j \in hits : i <= j /\ j <= i => i = j
  OBVIOUS
<1> QED BY <1>1 DEF AtMostOne

\* A name finds at most one macro of a template, and one the template has.
LEMMA MacroNamedIsOne ==
  ASSUME NEW text, IsText(text), NEW name
  PROVE  /\ AtMostOne(MacroNamed(Extract(text), name))
         /\ MacroNamed(Extract(text), name) \subseteq Elements(Macros(text))
<1> DEFINE list == Macros(text)
           hits == {i \in DOMAIN list : list[i].name = name}
<1>1. DOMAIN list \in SUBSET Nat
  <2>1. PICK S : list \in Seq(S)
    BY MacrosOfTags
  <2> HIDE DEF list
  <2> QED BY <2>1
<1>2. Extract(text).macros = list
  BY DEF Extract
<1>3. MacroNamed(Extract(text), name) = {list[i] : i \in {j \in hits : \A h \in hits : j <= h}}
  BY <1>2 DEF MacroNamed, Some
<1> HIDE DEF list
<1>4. hits \in SUBSET Nat
  BY <1>1
<1>5. {list[i] : i \in {j \in hits : \A h \in hits : j <= h}} \subseteq {list[i] : i \in DOMAIN list}
  OBVIOUS
<1> HIDE DEF hits
<1> QED BY <1>3, <1>4, <1>5, FirstIsOne DEF Elements, list

\* Keys are in one order.
LEMMA BeforeIsStrict ==
  ASSUME NEW k \in Templates, NEW l \in Templates
  PROVE  ~(Before(k, l) /\ Before(l, k))
<1> DEFINE place(q) == CHOOSE i \in DOMAIN Keys : Keys[i] = q
<1>1. place(k) \in DOMAIN Keys /\ place(l) \in DOMAIN Keys
  BY DEF Templates, Elements
<1>2. DOMAIN Keys \subseteq Nat
  BY KeysAssumption
<1>3. place(k) \in Nat /\ place(l) \in Nat
  BY <1>1, <1>2
<1>4. (Before(k, l) <=> place(k) < place(l)) /\ (Before(l, k) <=> place(l) < place(k))
  BY DEF Before
<1> HIDE DEF place
<1>5. ~(place(k) < place(l) /\ place(l) < place(k))
  BY <1>3
<1> QED BY <1>4, <1>5

\* A reference names at most one template, whether by its key or by the tail of one.
LEMMA ResolvedKeyIsOne ==
  ASSUME NEW templates, DOMAIN templates = Templates, NEW target
  PROVE  AtMostOne(ResolveKey(templates, target)) /\ ResolveKey(templates, target) \subseteq Templates
<1> DEFINE tails == {k \in DOMAIN templates : Len(k) > Len(target) /\ IsSuffix(target, k)}
           better(k, l) == Len(k) < Len(l) \/ (Len(k) = Len(l) /\ Before(k, l))
           best == {k \in tails : \A l \in tails \ {k} : better(k, l)}
<1>1. \A k \in Templates : Len(k) \in Nat
  <2>1. \A k \in Templates : k \in Seq(STRING)
    BY KeysAssumption DEF Templates, Elements
  <2> QED BY <2>1
<1>2. \A k, l \in Templates : ~(better(k, l) /\ better(l, k))
  BY <1>1, BeforeIsStrict
<1>3. tails \subseteq Templates
  OBVIOUS
<1>4. ResolveKey(templates, target) = IF target \in DOMAIN templates THEN {target} ELSE best
  BY DEF ResolveKey
<1> HIDE DEF tails, better
<1>5. AtMostOne(best) /\ best \subseteq Templates
  BY <1>2, <1>3 DEF AtMostOne
<1> HIDE DEF best
<1> QED BY <1>4, <1>5 DEF AtMostOne

\* At most one macro, and one that a template has.
OneOf(files, found) ==
  /\ AtMostOne(found)
  /\ \A m \in found : \E k \in Templates : m.macro \in Elements(Macros(files[k]))

\* A template has at most one macro of a name to offer.
LEMMA LocalIsOne ==
  ASSUME NEW files, NEW templates, IsProject(files, templates), NEW k \in Templates, NEW name
  PROVE  OneOf(files, At(k, MacroNamed(templates[k], name)))
<1>1. templates[k] = Extract(files[k]) /\ IsText(files[k])
  BY DEF IsProject
<1> DEFINE named == MacroNamed(templates[k], name)
<1>2. AtMostOne(named) /\ named \subseteq Elements(Macros(files[k]))
  BY <1>1, MacroNamedIsOne
<1> HIDE DEF named
<1>3. AtMostOne(At(k, named)) /\ \A m \in At(k, named) : m.macro \in named
  BY <1>2 DEF AtMostOne, At
<1>4. OneOf(files, At(k, named))
  BY <1>2, <1>3 DEF OneOf
<1> QED BY <1>4 DEF named

\* What one lookup among at most one finds is at most one.
LEMMA UnionIsOne ==
  ASSUME NEW files, NEW S, AtMostOne(S), NEW f, \A x \in S : OneOf(files, f[x]),
         NEW found, \A m \in found : \E x \in S : m \in f[x]
  PROVE  OneOf(files, found)
BY DEF AtMostOne, OneOf

\* A from-import gives at most one macro under a name.
LEMMA ImportedIsOne ==
  ASSUME NEW files, NEW templates, IsProject(files, templates), NEW fi, NEW name
  PROVE  OneOf(files, Imported(templates, fi, name))
<1> DEFINE keys == ResolveKey(templates, fi.source)
           f == [k \in keys |-> At(k, MacroNamed(templates[k], name))]
<1>1. AtMostOne(keys) /\ keys \subseteq Templates
  <2>1. DOMAIN templates = Templates
    BY DEF IsProject
  <2> QED BY <2>1, ResolvedKeyIsOne
<1>2. \A m \in Imported(templates, fi, name) : \E k \in keys : m \in f[k]
  BY DEF Imported
<1> HIDE DEF keys
<1>3. \A k \in keys : OneOf(files, f[k])
  BY <1>1, LocalIsOne
<1> HIDE DEF f
<1> QED BY <1>1, <1>2, <1>3, UnionIsOne

\* The workspace gives at most one macro under a name.
LEMMA AnywhereIsOne ==
  ASSUME NEW files, NEW templates, IsProject(files, templates), NEW name
  PROVE  OneOf(files, FindMacroWithPath(templates, name))
<1> DEFINE owners == {k \in DOMAIN templates : MacroNamed(templates[k], name) # {}}
           first == {k \in owners : \A o \in owners \ {k} : Before(k, o)}
           f == [k \in first |-> At(k, MacroNamed(templates[k], name))]
<1>1. \A m \in FindMacroWithPath(templates, name) : \E k \in first : m \in f[k]
  BY DEF FindMacroWithPath
<1>2. owners \subseteq Templates
  BY DEF IsProject
<1> HIDE DEF owners
<1>3. AtMostOne(first) /\ first \subseteq Templates
  BY <1>2, BeforeIsStrict DEF AtMostOne
<1> HIDE DEF first
<1>4. \A k \in first : OneOf(files, f[k])
  BY <1>3, LocalIsOne
<1> HIDE DEF f
<1> QED BY <1>1, <1>3, <1>4, UnionIsOne

\* The places of a sequence are numbers.
LEMMA NaturalDomain ==
  ASSUME NEW s, NEW S, s \in Seq(S)
  PROVE  DOMAIN s \in SUBSET Nat
OBVIOUS

\* resolve_macro finds at most one macro, and one that a template has.
LEMMA CallResolvesToOne ==
  ASSUME NEW files, NEW templates, IsProject(files, templates), NEW key \in Templates, NEW callee
  PROVE  OneOf(files, ResolveMacro(templates, key, callee))
<1> DEFINE facts == templates[key]
           list == facts.fromImports
           givenAt(fi) == {i \in DOMAIN fi.names : Effective(fi.names[i]) = callee}
           given(fi) == {fi.names[i] : i \in {j \in givenAt(fi) : \A h \in givenAt(fi) : j <= h}}
           found(fi) == UNION {Imported(templates, fi, n.name) : n \in given(fi)}
           hits == {i \in DOMAIN list : found(list[i]) # {}}
           decisive == {list[i] : i \in {j \in hits : \A h \in hits : j <= h}}
           imported == UNION {found(fi) : fi \in decisive}
<1>1. ResolveMacro(templates, key, callee) =
        IF MacroNamed(facts, callee) # {} THEN At(key, MacroNamed(facts, callee))
        ELSE IF imported # {} THEN imported
        ELSE FindMacroWithPath(templates, callee)
  BY DEF ResolveMacro, Some
<1>2. list = FromImports(files[key]) /\ IsText(files[key])
  BY DEF IsProject, Extract
<1>3. DOMAIN list \in SUBSET Nat
  BY <1>2, FromImportsOfTags, NaturalDomain
<1>4. ASSUME NEW fi \in Elements(list) PROVE OneOf(files, found(fi))
  <2>1. DOMAIN fi.names \in SUBSET Nat
    <3> DEFINE import(i) == [source |-> files[key][i].target, names |-> ImportedNames(files[key][i], i), span |-> Literal(i)]
               S == {import(i) : i \in Tags(files[key], {"from"})}
    <3>1. fi \in S
      <4>1. list \in Seq(S)
        BY <1>2, FromImportsOfTags
      <4> HIDE DEF S, list
      <4> QED BY <4>1 DEF Elements
    <3>2. PICK i \in Tags(files[key], {"from"}) : fi.names = ImportedNames(files[key][i], i)
      BY <3>1
    <3>3. PICK T : fi.names \in Seq(T)
      BY <1>2, <3>2, ImportedNamesAreTokens DEF Tags
    <3> QED BY <3>3, NaturalDomain
  <2>2. AtMostOne(given(fi))
    <3>1. givenAt(fi) \in SUBSET Nat
      BY <2>1
    <3> HIDE DEF givenAt
    <3> QED BY <3>1, FirstIsOne
  <2> DEFINE f == [n \in given(fi) |-> Imported(templates, fi, n.name)]
  <2> HIDE DEF given
  <2>3. \A n \in given(fi) : OneOf(files, f[n])
    BY ImportedIsOne
  <2>4. \A m \in found(fi) : \E n \in given(fi) : m \in f[n]
    OBVIOUS
  <2> HIDE DEF f, found
  <2> QED BY <2>2, <2>3, <2>4, UnionIsOne
<1>5. AtMostOne(decisive) /\ decisive \subseteq Elements(list)
  <2>1. hits \in SUBSET Nat
    BY <1>3
  <2>2. decisive \subseteq Elements(list)
    <3> HIDE DEF list, found
    <3> QED BY DEF Elements
  <2> HIDE DEF hits
  <2> QED BY <2>1, <2>2, FirstIsOne
<1> HIDE DEF found, list, hits, decisive
<1>6. OneOf(files, imported)
  <2> DEFINE f == [fi \in decisive |-> found(fi)]
  <2>1. \A fi \in decisive : OneOf(files, f[fi])
    BY <1>4, <1>5
  <2>2. \A m \in imported : \E fi \in decisive : m \in f[fi]
    OBVIOUS
  <2> HIDE DEF f, imported
  <2> QED BY <1>5, <2>1, <2>2, UnionIsOne
<1>7. OneOf(files, At(key, MacroNamed(facts, callee))) /\ OneOf(files, FindMacroWithPath(templates, callee))
  BY LocalIsOne, AnywhereIsOne
<1> HIDE DEF imported
<1> QED BY <1>1, <1>6, <1>7

(***************************************************************************)
(* Wrong calls are reported.                                               *)
(***************************************************************************)
\* A macro fact has parameters of different names, the required ones first.
LEMMA MacrosAreDeclared ==
  ASSUME NEW text, IsText(text), NEW m \in Elements(Macros(text))
  PROVE  Declared(m)
<1> DEFINE S == {Macro(text, i) : i \in Tags(text, {"macro"})}
<1>1. m \in S
  <2>1. Macros(text) \in Seq(S)
    BY MacrosOfTags
  <2> HIDE DEF S
  <2> QED BY <2>1 DEF Elements
<1>2. PICK i \in Tags(text, {"macro"}) : m = Macro(text, i)
  BY <1>1
<1> DEFINE names == text[i].names
           arity == Len(names) - 1
           r == arity - text[i].count
<1>3. Written(text[i]) /\ text[i].kind = "macro"
  BY TagsAreWritten DEF Tags
<1>4. /\ text[i].count \in Nat /\ text[i].count < Len(names) /\ Len(names) \in Nat
      /\ \A j, k \in 2 .. Len(names) : names[j] = names[k] => j = k
  BY <1>3 DEF Written
<1>5. arity \in Nat /\ r \in 0 .. arity
  BY <1>4
<1> HIDE DEF names
<1>6. m.parameters = [k \in 1 .. arity |->
         [name |-> names[k + 1], required |-> k <= arity - text[i].count, span |-> Name(i, k + 1)]]
  BY <1>2 DEF Macro, names
<1>7. \A k \in 1 .. arity : k + 1 \in 2 .. Len(names)
  BY <1>4
<1>8. \A j, k \in 1 .. arity : names[j + 1] = names[k + 1] => j = k
  BY <1>4, <1>7
<1>9. \A k \in 1 .. arity : m.parameters[k].name = names[k + 1] /\ (m.parameters[k].required <=> k <= r)
  <2> TAKE k \in 1 .. arity
  <2>1. m.parameters[k] = [name |-> names[k + 1], required |-> k <= r, span |-> Name(i, k + 1)]
    <3> HIDE DEF arity
    <3> QED BY <1>6
  <2> DEFINE p == m.parameters[k]
             name == names[k + 1]
             required == k <= r
             span == Name(i, k + 1)
  <2>2. p = [name |-> name, required |-> required, span |-> span]
    BY <2>1
  <2> HIDE DEF p, name, required, span
  <2>3. p.name = name /\ p.required = required
    BY <2>2
  <2> QED BY <2>3 DEF p, name, required
<1>10. m.parameters = [k \in 1 .. arity |-> m.parameters[k]]
  BY <1>6
<1> HIDE DEF arity, r
<1>11. \A j, k \in 1 .. arity : m.parameters[j].name = m.parameters[k].name => j = k
  BY <1>8, <1>9
<1> QED BY <1>5, <1>9, <1>10, <1>11 DEF Declared

\* Two call sites of a template are at different places.
LEMMA CallsByPlace ==
  ASSUME NEW text, IsText(text)
  PROVE  \A c, d \in Elements(MacroCalls(text)) : c.positional \in Nat /\ (c.span = d.span => c = d)
<1> DEFINE S == {MacroCall(text, i) : i \in Tags(text, {"invoke"})}
<1>1. Elements(MacroCalls(text)) \subseteq S
  <2>1. MacroCalls(text) \in Seq(S)
    BY CallsOfTags
  <2> HIDE DEF S
  <2> QED BY <2>1 DEF Elements
<1>2. \A i \in Tags(text, {"invoke"}) : i \in Nat /\ i \in DOMAIN text
  BY DEF Tags, IsText
<1>3. \A i, j \in Nat : Name(i, 1) = Name(j, 1) => i = j
  BY DEF Name, Span, TagStart, Width
<1>4. ASSUME NEW c \in S, NEW d \in S PROVE c.positional \in Nat /\ (c.span = d.span => c = d)
  <2>1. PICK i \in Tags(text, {"invoke"}) : c = MacroCall(text, i)
    OBVIOUS
  <2>2. PICK j \in Tags(text, {"invoke"}) : d = MacroCall(text, j)
    OBVIOUS
  <2>3. c.span = Name(i, 1) /\ d.span = Name(j, 1) /\ c.positional = text[i].count
    BY <2>1, <2>2 DEF MacroCall
  <2>4. text[i].count \in Nat
    BY <1>2, TagsAreWritten DEF Written
  <2> QED BY <1>2, <1>3, <2>1, <2>2, <2>3, <2>4
<1> HIDE DEF S
<1> QED BY <1>1, <1>4

\* In a project whose index is what its texts say, E501 is at the calls whose arguments do not bind.
LEMMA ProjectReportsWrongCalls == IInv => WrongCallsAreReported
<1> SUFFICES ASSUME IInv, NEW k \in Templates, NEW c \in Elements(index[k].macroCalls),
                    NEW m \in ResolveMacro(index, k, c.callee), ~Doubled(m.macro, c)
             PROVE  Finding("E501", c.span) \in E501(index, k) <=> ~Binds(m.macro, c)
  BY DEF WrongCallsAreReported
<1>0. IsProject(texts, index)
  BY DEF IInv
<1>1. IsText(texts[k]) /\ index[k].macroCalls = MacroCalls(texts[k])
  BY <1>0 DEF IsProject, Extract
<1>2. OneOf(texts, ResolveMacro(index, k, c.callee))
  BY <1>0, CallResolvesToOne
<1>3. PICK q \in Templates : m.macro \in Elements(Macros(texts[q])) /\ IsText(texts[q])
  BY <1>0, <1>2 DEF OneOf, IsProject
<1>4. Declared(m.macro)
  BY <1>3, MacrosAreDeclared
<1>5. c.positional \in Nat /\ \A d \in Elements(index[k].macroCalls) : d.span = c.span => d = c
  BY <1>1, CallsByPlace
<1>6. WrongArguments(m.macro, c) <=> ~Binds(m.macro, c)
  BY <1>4, <1>5, CountingIsMatching
<1>7. Finding("E501", c.span) \in E501(index, k) <=> WrongArguments(m.macro, c)
  <2>1. \A n \in ResolveMacro(index, k, c.callee) : n = m
    BY <1>2 DEF OneOf, AtMostOne
  <2>2. Finding("E501", c.span) \in E501(index, k)
          <=> \E d \in Elements(index[k].macroCalls) :
                /\ \E n \in ResolveMacro(index, k, d.callee) : WrongArguments(n.macro, d)
                /\ Finding("E501", c.span) = Finding("E501", d.span)
    BY DEF E501
  <2>3. \A d : Finding("E501", c.span) = Finding("E501", d.span) => c.span = d.span
    BY DEF Finding, Named
  <2> QED BY <1>5, <2>1, <2>2, <2>3
<1> QED BY <1>6, <1>7

\* In every reachable project, E501 is reported exactly for the calls whose arguments Python could not
\* bind to the macro the call resolves to, whatever is typed or renamed (check_e501), a parameter
\* given twice aside.
THEOREM WrongCallsReported == Spec => []WrongCallsAreReported
BY AlwaysProject, ProjectReportsWrongCalls, PTL

(***************************************************************************)
(* The call hierarchy is symmetric.                                        *)
(***************************************************************************)
\* A set of numbers that is not empty has a least one.
LEMMA LeastExists ==
  ASSUME NEW S \in SUBSET Nat, S # {}
  PROVE  \E i \in S : \A j \in S : i <= j
<1> DEFINE N == {n \in Nat : \A j \in S : n <= j}
<1>1. SUFFICES ASSUME ~\E i \in S : \A j \in S : i <= j PROVE FALSE
  OBVIOUS
<1>2. 0 \in N
  OBVIOUS
<1>3. ASSUME NEW n \in Nat, n \in N PROVE n + 1 \in N
  <2>1. n \notin S
    BY <1>1, <1>3
  <2> QED BY <1>3, <2>1
<1>4. Nat \subseteq N
  <2> HIDE DEF N
  <2> QED BY <1>2, <1>3, Induction
<1>5. PICK j \in S : TRUE
  OBVIOUS
<1>6. j + 1 \in N
  BY <1>4
<1> QED BY <1>5, <1>6

\* The first of three lookups that finds something.
LEMMA FirstOfThree ==
  ASSUME NEW A, NEW B, NEW C
  PROVE  FirstFound(<<A, B, C>>) = IF A # {} THEN A ELSE IF B # {} THEN B ELSE C
<1> DEFINE s == <<A, B, C>>
           hits == {i \in DOMAIN s : s[i] # {}}
           first == {j \in hits : \A h \in hits : j <= h}
<1>1. FirstFound(s) = UNION {s[i] : i \in first}
  BY DEF FirstFound, Some
<1>2. DOMAIN s = {1, 2, 3} /\ s[1] = A /\ s[2] = B /\ s[3] = C
  OBVIOUS
<1> HIDE DEF s
<1>3. CASE A # {}
  <2>1. first = {1}
    BY <1>2, <1>3
  <2> HIDE DEF first
  <2> QED BY <1>1, <1>2, <1>3, <2>1 DEF s
<1>4. CASE A = {} /\ B # {}
  <2>1. first = {2}
    BY <1>2, <1>4
  <2> HIDE DEF first
  <2> QED BY <1>1, <1>2, <1>4, <2>1 DEF s
<1>5. CASE A = {} /\ B = {}
  <2>1. first \subseteq {3} /\ (C # {} => first = {3})
    BY <1>2, <1>5
  <2> HIDE DEF first
  <2> QED BY <1>1, <1>2, <1>5, <2>1 DEF s
<1> QED BY <1>3, <1>4, <1>5

\* A macro that a template has is found by its name, and what is found has the name.
LEMMA MacroIsFound ==
  ASSUME NEW text, IsText(text), NEW name
  PROVE  /\ \A m \in MacroNamed(Extract(text), name) : m \in Elements(Macros(text)) /\ m.name = name
         /\ \A m \in Elements(Macros(text)) : m.name = name => MacroNamed(Extract(text), name) # {}
<1> DEFINE list == Macros(text)
           hits == {i \in DOMAIN list : list[i].name = name}
           first == {j \in hits : \A h \in hits : j <= h}
<1>1. DOMAIN list \in SUBSET Nat
  BY MacrosOfTags, NaturalDomain
<1>2. MacroNamed(Extract(text), name) = {list[i] : i \in first}
  BY DEF MacroNamed, Some, Extract
<1> HIDE DEF list
<1>3. ASSUME hits # {} PROVE first # {}
  <2>1. hits \in SUBSET Nat
    BY <1>1
  <2> HIDE DEF hits
  <2> QED BY <1>3, <2>1, LeastExists
<1>4. \A m \in Elements(list) : m.name = name => hits # {}
  BY DEF Elements
<1>5. \A i \in first : list[i] \in Elements(list) /\ list[i].name = name
  BY DEF Elements
<1> HIDE DEF hits, first
<1> QED BY <1>2, <1>3, <1>4, <1>5 DEF list

\* A macro that some template has is found in the workspace, under its own name.
LEMMA MacroIsSomewhere ==
  ASSUME NEW files, NEW templates, IsProject(files, templates), NEW name
  PROVE  /\ \A m \in FindMacroWithPath(templates, name) :
              /\ m.key \in Templates /\ m.macro.name = name
              /\ MacroNamed(templates[m.key], name) # {}
         /\ \A k \in Templates : MacroNamed(templates[k], name) # {} => FindMacroWithPath(templates, name) # {}
<1> DEFINE owners == {k \in DOMAIN templates : MacroNamed(templates[k], name) # {}}
           first == {k \in owners : \A o \in owners \ {k} : Before(k, o)}
<1>1. \A k \in Templates : templates[k] = Extract(files[k]) /\ IsText(files[k])
  BY DEF IsProject
<1>2. owners \subseteq Templates /\ \A k \in Templates : MacroNamed(templates[k], name) # {} => k \in owners
  BY DEF IsProject
<1>3. FindMacroWithPath(templates, name) = UNION {At(k, MacroNamed(templates[k], name)) : k \in first}
  BY DEF FindMacroWithPath
<1>4. ASSUME NEW m \in FindMacroWithPath(templates, name)
      PROVE  m.key \in Templates /\ m.macro.name = name /\ MacroNamed(templates[m.key], name) # {}
  <2>1. PICK k \in first : m \in At(k, MacroNamed(templates[k], name))
    <3> HIDE DEF first
    <3> QED BY <1>3
  <2>2. k \in Templates /\ m.key = k /\ m.macro \in MacroNamed(templates[k], name)
    BY <1>2, <2>1 DEF At
  <2> QED BY <1>1, <2>2, MacroIsFound
<1>5. ASSUME owners # {} PROVE FindMacroWithPath(templates, name) # {}
  <2> DEFINE place(k) == CHOOSE i \in DOMAIN Keys : Keys[i] = k
             places == {place(k) : k \in owners}
  <2>1. \A k \in Templates : place(k) \in DOMAIN Keys /\ Keys[place(k)] = k
    BY DEF Templates, Elements
  <2>2. DOMAIN Keys \subseteq Nat
    BY KeysAssumption
  <2> HIDE DEF owners
  <2>3. \A k, l \in Templates : Before(k, l) <=> place(k) < place(l)
    BY DEF Before
  <2> HIDE DEF place
  <2>4. places \in SUBSET Nat /\ places # {}
    BY <1>2, <1>5, <2>1, <2>2
  <2>5. PICK i \in places : \A j \in places : i <= j
    BY <2>4, LeastExists
  <2>6. PICK k \in owners : i = place(k)
    BY <2>5
  <2>7. ASSUME NEW o \in owners \ {k} PROVE Before(k, o)
    <3>1. place(k) <= place(o) /\ place(k) # place(o) /\ place(k) \in Nat /\ place(o) \in Nat
      BY <1>2, <2>1, <2>2, <2>5, <2>6
    <3> QED BY <1>2, <2>3, <3>1
  <2>8. k \in first
    BY <2>7
  <2>9. MacroNamed(templates[k], name) # {}
    BY <2>6 DEF owners
  <2>10. At(k, MacroNamed(templates[k], name)) # {}
    BY <2>9 DEF At
  <2> HIDE DEF first
  <2> QED BY <1>3, <2>8, <2>10
<1> QED BY <1>2, <1>4, <1>5

\* What a use leads to is a macro of its name, and a macro when some template has one.
LEMMA CalleeOfUse ==
  ASSUME NEW files, NEW templates, IsProject(files, templates), NEW k \in Templates, NEW name
  PROVE  /\ \A i \in Callee(templates, k, name) :
              i.kind = "macro" =>
                i.name = name /\ i.key \in Templates /\ (i.key = k \/ MacroNamed(templates[k], name) = {})
         /\ \A q \in Templates : MacroNamed(templates[q], name) # {} => Callee(templates, k, name) # {}
<1> DEFINE local == {Item("macro", m.name, k) : m \in MacroNamed(templates[k], name)}
           elsewhere == {Item("macro", m.macro.name, m.key) : m \in FindMacroWithPath(templates, name)}
           global == {Item("global", n, <<>>) : n \in {name} \cap Registry.function}
<1>1. Callee(templates, k, name) = IF local # {} THEN local ELSE IF elsewhere # {} THEN elsewhere ELSE global
  <2>1. Callee(templates, k, name) = FirstFound(<<local, elsewhere, global>>)
    BY DEF Callee
  <2> HIDE DEF local, elsewhere, global
  <2> QED BY <2>1, FirstOfThree
<1>2. templates[k] = Extract(files[k]) /\ IsText(files[k])
  BY DEF IsProject
<1>3. \A i \in local : i.name = name /\ i.key = k
  <2>1. \A m \in MacroNamed(templates[k], name) : m.name = name
    BY <1>2, MacroIsFound
  <2> QED BY <2>1 DEF Item
<1>4. \A i \in elsewhere : i.name = name /\ i.key \in Templates
  <2>1. \A m \in FindMacroWithPath(templates, name) : m.macro.name = name /\ m.key \in Templates
    BY MacroIsSomewhere
  <2> QED BY <2>1 DEF Item
<1>5. \A i \in global : i.kind # "macro"
  BY DEF Item
<1>6. local = {} => MacroNamed(templates[k], name) = {}
  OBVIOUS
<1>7. \A q \in Templates : MacroNamed(templates[q], name) # {} => elsewhere # {}
  <2>1. FindMacroWithPath(templates, name) # {} => elsewhere # {}
    OBVIOUS
  <2> HIDE DEF elsewhere
  <2> QED BY <2>1, MacroIsSomewhere
<1> HIDE DEF local, elsewhere, global
<1> QED BY <1>1, <1>3, <1>4, <1>5, <1>6, <1>7

\* What a macro calls lists the use among its incoming calls.
LEMMA OutgoingIsIncoming ==
  ASSUME NEW files, NEW templates, IsProject(files, templates), NEW k \in Templates, NEW name,
         NEW out \in OutgoingCalls(templates, Item("macro", name, k)), out.to.kind = "macro"
  PROVE  out.at \in {call.at : call \in IncomingCalls(templates, out.to)}
<1> DEFINE facts == templates[k]
<1>1. PICK r \in Refs(facts, {"function", "identifier"}) :
        out.to \in Callee(templates, k, r.name) /\ out.at = Place(k, r.span)
  <2>1. PICK m \in MacroNamed(facts, name) :
          out \in CallsInBody(templates, k, m) \/ out \in LoadsInBody(templates, k, m)
    BY DEF OutgoingCalls, Item
  <2>2. out \notin LoadsInBody(templates, k, m)
    <3>1. ASSUME NEW load \in LoadsInBody(templates, k, m)
          PROVE  \E path : load.to = Item("template", "", path)
      <4> DEFINE loads == {t \in Elements(templates[k].templateRefs) :
                             /\ t.kind \in {"include", "import"} /\ ~t.isDynamic /\ ~t.ignoreMissing
                             /\ Covers(m.body, t.span)}
      <4>1. LoadsInBody(templates, k, m)
              = {[to |-> Item("template", "", t.path), at |-> Place(k, t.span)] : t \in loads}
        BY DEF LoadsInBody
      <4> HIDE DEF loads
      <4>2. PICK t \in loads : load = [to |-> Item("template", "", t.path), at |-> Place(k, t.span)]
        BY <4>1
      <4> QED BY <4>2
    <3>2. \A path : Item("template", "", path).kind # "macro"
      BY DEF Item
    <3> QED BY <3>1, <3>2
  <2>3. PICK r \in Refs(facts, {"function", "identifier"}) :
          out \in {[to |-> i, at |-> Place(k, r.span)] : i \in Callee(templates, k, r.name)}
    BY <2>1, <2>2 DEF CallsInBody
  <2> QED BY <2>3
<1> DEFINE to == out.to
<1>2. to.name = r.name /\ to.key \in Templates /\ (to.key = k \/ MacroNamed(facts, r.name) = {})
  BY <1>1, CalleeOfUse
<1>3. r \in Uses(facts, to.name)
  BY <1>2 DEF Uses, Refs
<1>4. DOMAIN templates = Templates
  BY DEF IsProject
<1>5. Place(k, r.span) \in MacroUses(templates, to.name, to.key)
  BY <1>2, <1>3, <1>4 DEF MacroUses, Shadows
<1>6. \E call \in IncomingCalls(templates, to) : call.at = Place(k, r.span)
  <2> DEFINE p == Place(k, r.span)
             call == [from |-> Caller(templates[p.key], p.key, p.span), at |-> p]
  <2>1. call \in IncomingCalls(templates, to)
    <3> HIDE DEF p, to
    <3> QED BY <1>5 DEF IncomingCalls, p
  <2>2. call.at = p
    OBVIOUS
  <2> QED BY <2>1, <2>2
<1> QED BY <1>1, <1>6

\* The owner of a use, when it is a macro, is one of the template with the use in its body.
LEMMA OwnerIsAround ==
  ASSUME NEW text, IsText(text), NEW span, EnclosingOwner(Extract(text), span).kind = "macro"
  PROVE  /\ EnclosingOwner(Extract(text), span).definition \in Elements(Macros(text))
         /\ Covers(EnclosingOwner(Extract(text), span).definition.body, span)
<1> DEFINE facts == Extract(text)
           around(definitions) == {d \in Elements(definitions) : Covers(d.body, span)}
           smallest(definitions) == Some(definitions, LAMBDA d :
             d \in around(definitions) /\ \A e \in around(definitions) : Length(d.body) <= Length(e.body))
           macro == smallest(facts.macros)
           block == smallest(facts.blocks)
           outside == macro = {} /\ block = {}
           inner == block = {} \/ (macro # {} /\ Length(Only(macro).body) <= Length(Only(block).body))
<1>1. EnclosingOwner(facts, span) =
        IF outside THEN [kind |-> "template"]
        ELSE IF inner THEN [kind |-> "macro", definition |-> Only(macro)]
        ELSE [kind |-> "block", definition |-> Only(block)]
  BY DEF EnclosingOwner
<1>2. facts.macros = Macros(text)
  BY DEF Extract
<1>3. \A d \in macro : d \in Elements(Macros(text)) /\ Covers(d.body, span)
  BY <1>2 DEF Some
<1> HIDE DEF macro, block, facts
<1>4. ~outside /\ inner
  BY <1>1 DEF facts
<1>5. macro # {}
  BY <1>4
<1>6. Only(macro) \in macro
  BY <1>5 DEF Only
<1>7. EnclosingOwner(facts, span).definition = Only(macro)
  BY <1>1, <1>4
<1> QED BY <1>3, <1>6, <1>7 DEF facts

\* A use in the body of a macro is among its outgoing calls, when its name is that of a macro.
LEMMA UseIsOutgoing ==
  ASSUME NEW files, NEW templates, IsProject(files, templates), NEW q \in Templates,
         NEW d \in Elements(Macros(files[q])), OnceDefined(templates[q], d.name),
         NEW r \in Refs(templates[q], {"function", "identifier"}), Covers(d.body, r.span),
         NEW k \in Templates, MacroNamed(templates[k], r.name) # {}
  PROVE  Place(q, r.span) \in {out.at : out \in OutgoingCalls(templates, Item("macro", d.name, q))}
<1> DEFINE facts == templates[q]
           item == Item("macro", d.name, q)
<1>1. facts = Extract(files[q]) /\ IsText(files[q]) /\ facts.macros = Macros(files[q])
  BY DEF IsProject, Extract
<1>2. PICK m \in MacroNamed(facts, d.name) : TRUE
  BY <1>1, MacroIsFound
<1>3. m = d
  <2>1. m \in Elements(Macros(files[q])) /\ m.name = d.name
    BY <1>1, <1>2, MacroIsFound
  <2> QED BY <1>1, <2>1 DEF OnceDefined
<1>4. PICK i \in Callee(templates, q, r.name) : TRUE
  BY CalleeOfUse
<1> DEFINE out == [to |-> i, at |-> Place(q, r.span)]
<1>5. out \in CallsInBody(templates, q, d)
  <2> DEFINE leads(u) == {[to |-> j, at |-> Place(q, u.span)] : j \in Callee(templates, q, u.name)}
  <2>1. out \in leads(r)
    OBVIOUS
  <2>2. r \in {u \in Refs(facts, {"function", "identifier"}) : Covers(d.body, u.span)}
    OBVIOUS
  <2>3. CallsInBody(templates, q, d)
          = UNION {leads(u) : u \in {u \in Refs(facts, {"function", "identifier"}) : Covers(d.body, u.span)}}
    BY DEF CallsInBody
  <2> HIDE DEF leads, out
  <2> QED BY <2>1, <2>2, <2>3
<1>6. out \in OutgoingCalls(templates, item)
  <2> HIDE DEF out
  <2>1. item.key = q /\ item.name = d.name
    BY DEF Item
  <2> QED BY <1>2, <1>3, <1>5, <2>1 DEF OutgoingCalls
<1>7. out.at = Place(q, r.span)
  OBVIOUS
<1> HIDE DEF out
<1> QED BY <1>6, <1>7

\* An incoming call from a macro is one of its outgoing calls.
LEMMA IncomingIsOutgoing ==
  ASSUME NEW files, NEW templates, IsProject(files, templates), NEW k \in Templates, NEW name,
         MacroNamed(templates[k], name) # {},
         NEW call \in IncomingCalls(templates, Item("macro", name, k)), call.from.kind = "macro",
         OnceDefined(templates[call.from.key], call.from.name)
  PROVE  call.at \in {out.at : out \in OutgoingCalls(templates, call.from)}
<1>1. PICK p \in MacroUses(templates, name, k) :
        call.at = p /\ call.from = Caller(templates[p.key], p.key, p.span)
  BY DEF IncomingCalls, Item
<1>2. PICK q \in Templates : \E r \in Uses(templates[q], name) : p = Place(q, r.span)
  <2>1. DOMAIN templates = Templates
    BY DEF IsProject
  <2> QED BY <2>1 DEF MacroUses
<1>3. PICK r \in Uses(templates[q], name) : p = Place(q, r.span)
  BY <1>2
<1>4. p.key = q /\ p.span = r.span
  BY <1>3 DEF Place
<1>5. r \in Refs(templates[q], {"function", "identifier"}) /\ r.name = name
  BY DEF Uses, Refs
<1>6. templates[q] = Extract(files[q]) /\ IsText(files[q])
  BY DEF IsProject
<1> DEFINE owner == EnclosingOwner(templates[q], r.span)
           d == owner.definition
<1>7. owner.kind = "macro" /\ call.from = Item("macro", d.name, q)
  <2>1. call.from = IF owner.kind = "macro" THEN Item("macro", d.name, q) ELSE Item("template", "", q)
    BY <1>1, <1>4 DEF Caller
  <2>2. Item("template", "", q).kind # "macro"
    BY DEF Item
  <2> HIDE DEF owner, d
  <2> QED BY <2>1, <2>2
<1>8. d \in Elements(Macros(files[q])) /\ Covers(d.body, r.span)
  BY <1>6, <1>7, OwnerIsAround
<1>9. OnceDefined(templates[q], d.name)
  BY <1>7 DEF Item
<1> HIDE DEF owner, d
<1>10. Place(q, r.span) \in {out.at : out \in OutgoingCalls(templates, Item("macro", d.name, q))}
  BY <1>5, <1>8, <1>9, UseIsOutgoing
<1> QED BY <1>1, <1>3, <1>7, <1>10

\* In a project whose index is what its texts say, the two directions of the hierarchy agree.
LEMMA ProjectIsSymmetric == IInv => HierarchyIsSymmetric
<1> SUFFICES ASSUME IInv, NEW k \in Templates, NEW m \in Elements(index[k].macros)
             PROVE  LET item == Item("macro", m.name, k)
                    IN  /\ \A out \in OutgoingCalls(index, item) :
                             out.to.kind = "macro" => out.at \in {call.at : call \in IncomingCalls(index, out.to)}
                        /\ \A call \in IncomingCalls(index, item) :
                             call.from.kind = "macro" /\ OnceDefined(index[call.from.key], call.from.name) =>
                               call.at \in {out.at : out \in OutgoingCalls(index, call.from)}
  BY DEF HierarchyIsSymmetric
<1>1. IsProject(texts, index)
  BY DEF IInv
<1>2. MacroNamed(index[k], m.name) # {}
  <2>1. index[k] = Extract(texts[k]) /\ IsText(texts[k]) /\ index[k].macros = Macros(texts[k])
    BY <1>1 DEF IsProject, Extract
  <2> QED BY <2>1, MacroIsFound
<1> QED BY <1>1, <1>2, OutgoingIsIncoming, IncomingIsOutgoing

\* In every reachable project, what a macro calls lists the use among its incoming calls and an
\* incoming call from a macro that is alone in its template under its name is one of that macro's
\* outgoing calls (call_hierarchy.rs), whatever the templates define, import and rename.
THEOREM HierarchySymmetric == Spec => []HierarchyIsSymmetric
BY AlwaysProject, ProjectIsSymmetric, PTL
=============================================================================
