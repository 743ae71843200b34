--------------------------- MODULE SemanticTokens ---------------------------
(***************************************************************************)
(* Semantic tokens (src/features/semantic_tokens.rs) and the columns of    *)
(* the protocol (src/server/convert.rs).  Every tag is on a line of its    *)
(* own, which is a sequence of characters, each the pair of its length in  *)
(* bytes and in UTF-16 units.  The k-th name of a tag is the character     *)
(* after the first k of its line.                                          *)
(***************************************************************************)
EXTENDS Checks

Ascii == <<1, 1>>
Wide == <<2, 1>>
Astral == <<4, 2>>  \* a surrogate pair in UTF-16

Bytes(line, n) == FoldLeft(LAMBDA sum, j : sum + line[j][1], 0, [j \in 1 .. n |-> j])
Units(line, n) == FoldLeft(LAMBDA sum, j : sum + line[j][2], 0, [j \in 1 .. n |-> j])

\* Up to the character at which the count of units is reached.
LspCharToByteCol(line, character, utf8) ==
  LET reached == {n \in 0 .. Len(line) : n = Len(line) \/ Units(line, n) >= character}
  IN  IF utf8 THEN character
      ELSE Bytes(line, CHOOSE n \in reached : \A m \in reached : n <= m)

\* A byte within a character counts as its first.
ByteColToLspChar(line, byteCol, utf8) ==
  LET before == {n \in 0 .. Len(line) : Bytes(line, n) <= byteCol}
  IN  IF utf8 THEN byteCol
      ELSE Units(line, CHOOSE n \in before : \A m \in before : m <= n)

(***************************************************************************)
(* Classification.  Whether a name of the registry is built in or of the   *)
(* user is left out.                                                       *)
(***************************************************************************)
Class(type, modifiers) == [type |-> type, modifiers |-> modifiers]
OfUser == {"defined", "user"}
OfRegistry == {"defined"}
Unknown == {"unknown"}

\* Sources of imports are taken by their exact keys, imported names as they are in their source.
IsMacro(templates, facts, name) ==
  LET sources == {a.source : a \in Elements(facts.importAliases)}
                 \cup {fi.source : fi \in {f \in Elements(facts.fromImports) :
                                             \E n \in Elements(f.names) : n.name = name}}
  IN  \/ name \in MacroNames(facts)
      \/ \E k \in sources \cap DOMAIN templates : name \in MacroNames(templates[k])

ClassifyCall(templates, facts, name) ==
  IF IsMacro(templates, facts, name) THEN Class("macro", OfUser)
  ELSE IF name \in Registry.function THEN Class("function", OfRegistry)
  ELSE Class("variable", Unknown)

\* Mutant: only what is bound at the top level is known.
ClassifyTopLevel(facts, name) ==
  IF \E v \in Elements(facts.variables) : v.name = name /\ v.scope = "template"
  THEN Class("variable", OfUser) ELSE Class("variable", Unknown)

\* A variable counts in the whole file.
ClassifyIdentifier(facts, name) ==
  IF name \in Registry.variable \cup DOMAIN Registry.context THEN Class("variable", OfRegistry)
  ELSE IF name \in AliasNames(facts) \/ \E v \in Elements(facts.variables) : v.name = name
  THEN Class("variable", OfUser) ELSE Class("variable", Unknown)

Classify(templates, facts, ref) ==
  CASE ref.kind = "filter" -> Class("filter", IF ref.name \in Registry.filter THEN OfRegistry ELSE Unknown)
    [] ref.kind = "test" -> Class("test", IF ref.name \in Registry.test THEN OfRegistry ELSE Unknown)
    [] ref.kind = "function" -> ClassifyCall(templates, facts, ref.name)
    [] OTHER -> ClassifyIdentifier(facts, ref.name)

(***************************************************************************)
(* Tokens, with columns in bytes, and their deltas on the wire.            *)
(***************************************************************************)
SemanticToken(lines, span, class) ==
  LET line == lines[TagOf(span.lo)]
      start == Bytes(line, TokenOf(span.lo))
  IN  [line |-> TagOf(span.lo), start |-> start, length |-> Bytes(line, TokenOf(span.lo) + 1) - start,
       class |-> class]

CollectTokens(templates, key, lines) ==
  LET facts == templates[key]
  IN  {SemanticToken(lines, Name(TagOf(b.span.lo), 1), Class("block", {})) : b \in Elements(facts.blocks)}
      \cup UNION {{SemanticToken(lines, m.nameSpan, Class("macro", OfUser))}
                  \cup {SemanticToken(lines, p.span, Class("parameter", {})) : p \in Elements(m.parameters)} :
                    m \in Elements(facts.macros)}
      \cup {SemanticToken(lines, r.span, Classify(templates, facts, r)) :
              r \in {q \in Elements(facts.references) : q.kind # "attribute"}}

\* By place; a filter or test name has a second token behind that of the identifier.
SemanticTokensFull(templates, key, lines) ==
  LET tokens == CollectTokens(templates, key, lines)
      before(t, u) ==
        \/ t.line < u.line
        \/ t.line = u.line /\ t.start < u.start
        \/ t.line = u.line /\ t.start = u.start /\ t.class.type = "variable" /\ u.class.type # "variable"
      rank(t) == 1 + Cardinality({u \in tokens : before(u, t)})
  IN  [i \in 1 .. Cardinality(tokens) |-> CHOOSE t \in tokens : rank(t) = i]

SemanticTokensRange(templates, key, lines, from, to) ==
  SelectSeq(SemanticTokensFull(templates, key, lines), LAMBDA t : from <= t.line /\ t.line <= to)

WireStart(token, lines, utf8) == ByteColToLspChar(lines[token.line], token.start, utf8)
WireLength(token, lines, utf8) ==
  ByteColToLspChar(lines[token.line], token.start + token.length, utf8) - WireStart(token, lines, utf8)

\* Mutant: the start counts from the token before, on whatever line that is.
StartFromLast(tokens, lines, utf8, i) ==
  WireStart(tokens[i], lines, utf8) - (IF i = 1 THEN 0 ELSE WireStart(tokens[i - 1], lines, utf8))

DeltaStart(tokens, lines, utf8, i) ==
  WireStart(tokens[i], lines, utf8)
    - (IF i = 1 \/ tokens[i - 1].line # tokens[i].line THEN 0 ELSE WireStart(tokens[i - 1], lines, utf8))

TokensToLspData(tokens, lines, utf8) ==
  [i \in DOMAIN tokens |->
    [deltaLine |-> tokens[i].line - (IF i = 1 THEN 0 ELSE tokens[i - 1].line),
     deltaStart |-> DeltaStart(tokens, lines, utf8, i),
     length |-> WireLength(tokens[i], lines, utf8), class |-> tokens[i].class]]
=============================================================================
