---------------------------- MODULE TemplateText ----------------------------
(***************************************************************************)
(* A template as the extractor sees it: the grammar is flat, so a source   *)
(* is a sequence of tags (control statements and render expressions) in    *)
(* which the identifiers and the string literal of each tag are tokens.    *)
(* A position stands for a byte offset: tag i owns the Width positions     *)
(* from TagStart(i), its k-th identifier the position k after that, and    *)
(* one position of ordinary text follows every tag.                        *)
(***************************************************************************)
EXTENDS Integers, Sequences, FiniteSets, SequencesExt

Width == 8
TagStart(i) == Width * i
TagEnd(i) == Width * i + Width - 1
SourceEnd(text) == Width * (Len(text) + 1)

Span(lo, hi) == [lo |-> lo, hi |-> hi]
NoSpan == Span(0, 0)
NonEmpty(s) == s.lo < s.hi
Length(s) == IF s.lo < s.hi THEN s.hi - s.lo ELSE 0
\* Span::contains: an empty span contains nothing.
Covers(s, t) == NonEmpty(s) /\ s.lo <= t.lo /\ t.hi <= s.hi
ByteIn(byte, s) == s.lo <= byte /\ byte < s.hi

\* Where the k-th identifier, the string literal and the statement of tag i are.
Name(i, k) == Span(TagStart(i) + k, TagStart(i) + k + 1)
Literal(i) == Span(TagStart(i) + Width - 2, TagStart(i) + Width - 1)
Statement(i) == Span(TagStart(i), TagEnd(i))
TagOf(byte) == byte \div Width
TokenOf(byte) == byte % Width

(***************************************************************************)
(* names: the identifiers, in order (a definition's own name first, a call *)
(* its callee and then its keywords); aliases: what follows "as" for each  *)
(* imported name, None where there is none; target: the path in a string   *)
(* literal; count: parameters that have a default, or positional           *)
(* arguments; flags: scoped, required, dynamic, ignore missing.            *)
(***************************************************************************)
None == ""
Tag(kind, names) ==
  [kind |-> kind, names |-> names, aliases |-> <<>>, target |-> <<>>, count |-> 0, flags |-> {}]

\* The k-th identifier token of a tag: what is bound after "as" comes last.
Token(tag, k) == IF k <= Len(tag.names) THEN tag.names[k] ELSE tag.aliases[k - Len(tag.names)]
Tokens(tag) == 1 .. Len(tag.names) + Len(tag.aliases)

Tags(text, kinds) == {i \in DOMAIN text : text[i].kind \in kinds}

\* What F yields for every tag of these kinds, in document order.
Each(text, kinds, F(_)) ==
  FlattenSeq([i \in DOMAIN text |-> IF text[i].kind \in kinds THEN F(i) ELSE <<>>])

Elements(s) == {s[i] : i \in DOMAIN s}
\* Some(s, P): the first element of a list that satisfies P, as a set of at most one.
Some(s, P(_)) ==
  LET hits == {i \in DOMAIN s : P(s[i])}
  IN  {s[i] : i \in {j \in hits : \A h \in hits : j <= h}}
Only(set) == CHOOSE x \in set : TRUE
\* The first of several lookups that finds something.
FirstFound(lookups) == UNION Some(lookups, LAMBDA found : found # {})
\* The first of the elements that satisfy P with the smallest M.
SmallestFirst(s, P(_), M(_)) ==
  Some(s, LAMBDA x : P(x) /\ \A y \in Elements(s) : P(y) => M(x) <= M(y))
\* The elements of a list that satisfy P, in their order.
Satisfying(s, P(_)) == FlattenSeq([i \in DOMAIN s |-> IF P(s[i]) THEN <<s[i]>> ELSE <<>>])
=============================================================================
