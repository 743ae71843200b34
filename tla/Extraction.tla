----------------------------- MODULE Extraction -----------------------------
(***************************************************************************)
(* extract (src/parsing/extractor.rs): the facts of one template.  Control *)
(* tags are siblings, so every body is found by pairing tags: macro bodies *)
(* by counting, other scopes with a stack, and the body of a block that is *)
(* closed by a named endblock, which the grammar does not know, from the   *)
(* error node.                                                             *)
(***************************************************************************)
EXTENDS TemplateText

ScopeKinds == {"macro", "block", "filter", "autoescape", "for", "with"}
Closes == [endmacro |-> "macro", endblock |-> "block", endfilter |-> "filter",
           endautoescape |-> "autoescape", endfor |-> "for", endwith |-> "with"]
\* "endblock name" and a set without a value parse as error nodes, and so does whatever is malformed.
ErrorKinds == {"named_endblock", "malformed", "set_block"}

(***************************************************************************)
(* Scope regions.                                                          *)
(***************************************************************************)
OpenScope(acc, i, kind) ==
  [acc EXCEPT !.stack = Append(@, [scope |-> kind, start |-> TagEnd(i), depth |-> Len(@)])]

\* Mutant: the closing tag takes the top of the stack, whatever it opened.
CloseTop(acc, i, kind) ==
  IF acc.stack = <<>> THEN acc
  ELSE [stack |-> Front(acc.stack),
        regions |-> Append(acc.regions,
          [scope |-> Last(acc.stack).scope, depth |-> Last(acc.stack).depth,
           span |-> Span(Last(acc.stack).start, TagStart(i))])]

CloseScope(acc, i, kind) ==
  LET matching == {k \in DOMAIN acc.stack : acc.stack[k].scope = kind}
      top == CHOOSE k \in matching : \A m \in matching : m <= k
      entry == acc.stack[top]
  IN  IF matching = {} THEN acc
      ELSE [stack |-> SubSeq(acc.stack, 1, top - 1),
            regions |-> Append(acc.regions,
              [scope |-> entry.scope, depth |-> entry.depth,
               span |-> Span(entry.start, TagStart(i))])]

BuildScopeRegions(text) ==
  LET after[i \in 0 .. Len(text)] ==
        IF i = 0 THEN [stack |-> <<>>, regions |-> <<>>]
        ELSE IF text[i].kind \in ScopeKinds THEN OpenScope(after[i - 1], i, text[i].kind)
        ELSE IF text[i].kind \in DOMAIN Closes THEN CloseScope(after[i - 1], i, Closes[text[i].kind])
        ELSE after[i - 1]
  IN  after[Len(text)].regions

\* Mutant: the outermost region.
OutermostRegion(regions, byte) ==
  LET around == {r \in Elements(regions) : ByteIn(byte, r.span)}
  IN  {r \in around : \A q \in around : r.depth <= q.depth}

\* The innermost region around a byte, as a set of at most one.
EnclosingRegion(regions, byte) ==
  LET around == {r \in Elements(regions) : ByteIn(byte, r.span)}
  IN  {r \in around : \A q \in around : q.depth <= r.depth}

ScopeForByte(regions, byte) ==
  LET here == EnclosingRegion(regions, byte)
  IN  IF here = {} THEN "template" ELSE Only(here).scope

(***************************************************************************)
(* Macros.                                                                 *)
(***************************************************************************)
\* Open macros after tag j, counted from the macro tag i.
MacroDepth(text, i, j) ==
  Cardinality(Tags(text, {"macro"}) \cap i..j) - Cardinality(Tags(text, {"endmacro"}) \cap i..j)

MacroBody(text, i) ==
  LET ends == {j \in i + 1 .. Len(text) : MacroDepth(text, i, j) = 0}
  IN  Span(TagEnd(i), IF ends = {} THEN SourceEnd(text)
                      ELSE TagStart(CHOOSE j \in ends : \A e \in ends : j <= e))

Macro(text, i) ==
  LET tag == text[i]
      arity == Len(tag.names) - 1
  IN  [name |-> tag.names[1],
       parameters |-> [k \in 1..arity |->
         [name |-> tag.names[k + 1], required |-> k <= arity - tag.count, span |-> Name(i, k + 1)]],
       body |-> MacroBody(text, i), span |-> Statement(i), nameSpan |-> Name(i, 1)]

Macros(text) == Each(text, {"macro"}, LAMBDA i : <<Macro(text, i)>>)

(***************************************************************************)
(* Blocks: a body comes from the region that starts at the tag; what has   *)
(* none yet is given to the named endblocks, each taking the nearest       *)
(* preceding block of its name.                                            *)
(***************************************************************************)
DeclaredBlock(text, regions, i) ==
  LET tag == text[i]
      own == {r \in Elements(regions) : r.scope = "block" /\ r.span.lo = TagEnd(i)}
  IN  [name |-> tag.names[1], scoped |-> "scoped" \in tag.flags, required |-> "required" \in tag.flags,
       body |-> IF own = {} THEN NoSpan ELSE Only(own).span,
       span |-> Statement(i), endName |-> NoSpan]

DeclaredBlocks(text, regions) == Each(text, {"block"}, LAMBDA i : <<DeclaredBlock(text, regions, i)>>)

\* Mutant: the first block of the name instead of the nearest.
CloseFirst(text, blocks, i) ==
  LET waiting == {b \in DOMAIN blocks : blocks[b].name = text[i].names[1] /\ blocks[b].body = NoSpan}
      first == CHOOSE b \in waiting : \A w \in waiting : b <= w
  IN  IF waiting = {} THEN blocks
      ELSE [blocks EXCEPT ![first].body = Span(TagEnd(TagOf(blocks[first].span.lo)), TagStart(i))]

CloseByName(text, blocks, i) ==
  LET waiting == {b \in DOMAIN blocks :
                    /\ blocks[b].name = text[i].names[1]
                    /\ blocks[b].body = NoSpan
                    /\ TagEnd(TagOf(blocks[b].span.lo)) < TagStart(i)}
      nearest == CHOOSE b \in waiting : \A w \in waiting : w <= b
  IN  IF waiting = {} THEN blocks
      ELSE [blocks EXCEPT ![nearest] =
             [@ EXCEPT !.body = Span(TagEnd(TagOf(blocks[nearest].span.lo)), TagStart(i)), !.endName = Name(i, 1)]]

Blocks(text, regions) ==
  LET closed[i \in 0 .. Len(text)] ==
        IF i = 0 THEN DeclaredBlocks(text, regions)
        ELSE IF text[i].kind = "named_endblock" THEN CloseByName(text, closed[i - 1], i)
        ELSE closed[i - 1]
  IN  closed[Len(text)]

(***************************************************************************)
(* Variables.  The list is grouped by the query that finds them, not in    *)
(* document order.                                                         *)
(***************************************************************************)
Bindings(text, kinds, scope(_), range(_)) ==
  Each(text, kinds, LAMBDA i :
    [k \in DOMAIN text[i].names |->
      [name |-> text[i].names[k], scope |-> scope(i), span |-> Name(i, k), validRange |-> range(i)]])

\* Mutant: a set lives to the end of the source.
SetToSourceEnd(text, regions, i) == Span(TagEnd(i), SourceEnd(text))

\* A set lives to the end of the innermost scope around it.
SetRange(text, regions, i) ==
  LET around == EnclosingRegion(regions, TagEnd(i))
  IN  Span(TagEnd(i), IF around = {} THEN SourceEnd(text) ELSE Only(around).span.hi)

\* A loop or with binding lives in the body of its own tag, to the end of the source if unclosed.
BodyRange(text, regions, i) ==
  LET own == {r \in Elements(regions) : r.scope = text[i].kind /\ r.span.lo = TagEnd(i)}
  IN  IF own = {} THEN Span(TagEnd(i), SourceEnd(text)) ELSE Only(own).span

\* The tags of a kind that bind several names are met first, then those that bind one.
Unpacking(text, kind) == {i \in Tags(text, {kind}) : Len(text[i].names) > 1}
OnlyTags(text, chosen) == [i \in DOMAIN text |-> IF i \in chosen THEN text[i] ELSE Tag("other", <<>>)]
SeveralThenOne(text, kind, scope(_), range(_)) ==
  LET several == Unpacking(text, kind)
  IN  Bindings(OnlyTags(text, several), {kind}, scope, range)
      \o Bindings(OnlyTags(text, Tags(text, {kind}) \ several), {kind}, scope, range)

SetVariables(text, regions) ==
  SeveralThenOne(text, "set", LAMBDA i : ScopeForByte(regions, TagStart(i)),
                 LAMBDA i : SetRange(text, regions, i))
SetBlockVariables(text, regions) ==
  Bindings(text, {"set_block"}, LAMBDA i : ScopeForByte(regions, TagStart(i)),
           LAMBDA i : SetRange(text, regions, i))
ForVariables(text, regions) ==
  SeveralThenOne(text, "for", LAMBDA i : "for", LAMBDA i : BodyRange(text, regions, i))
WithVariables(text, regions) ==
  Bindings(text, {"with"}, LAMBDA i : "with", LAMBDA i : BodyRange(text, regions, i))
\* What trans and call bind gets no range.
TransVariables(text) == Bindings(text, {"trans"}, LAMBDA i : "trans", LAMBDA i : NoSpan)
CallerArguments(text) == Bindings(text, {"call"}, LAMBDA i : "call", LAMBDA i : NoSpan)

Variables(text, regions) ==
  FlattenSeq(<<SetVariables(text, regions), SetBlockVariables(text, regions),
               ForVariables(text, regions), WithVariables(text, regions),
               TransVariables(text), CallerArguments(text)>>)

(***************************************************************************)
(* Template references, imports, uses and call sites.                      *)
(***************************************************************************)
TemplateRef(text, i, kind) ==
  [kind |-> kind, path |-> text[i].target, ignoreMissing |-> "ignore_missing" \in text[i].flags,
   isDynamic |-> "dynamic" \in text[i].flags, span |-> Literal(i)]

TemplateRefs(text) ==
  Each(text, {"extends"}, LAMBDA i : <<TemplateRef(text, i, "extends")>>)
  \o Each(text, {"include"}, LAMBDA i : <<TemplateRef(text, i, "include")>>)
  \o Each(text, {"import"}, LAMBDA i : <<TemplateRef(text, i, "import")>>)
  \o Each(text, {"from"}, LAMBDA i : <<TemplateRef(text, i, "from")>>)

ImportAliases(text) ==
  Each(text, {"import"}, LAMBDA i :
    << [alias |-> text[i].names[1], source |-> text[i].target,
        span |-> Literal(i), aliasSpan |-> Name(i, 1)] >>)

\* Names are collected by name: a name imported twice keeps its first place and its last alias.
ImportedNames(tag, i) ==
  LET uses(n) == {k \in DOMAIN tag.names : tag.names[k] = n}
      first(n) == CHOOSE k \in uses(n) : \A u \in uses(n) : k <= u
      aliased(n) == {k \in uses(n) : tag.aliases[k] # None}
      alias(n) == IF aliased(n) = {} THEN None
                  ELSE tag.aliases[CHOOSE k \in aliased(n) : \A a \in aliased(n) : a <= k]
  IN  FlattenSeq([k \in DOMAIN tag.names |->
        IF first(tag.names[k]) = k
        THEN << [name |-> tag.names[k], alias |-> alias(tag.names[k]), span |-> Name(i, k)] >>
        ELSE <<>>])

FromImports(text) ==
  Each(text, {"from"}, LAMBDA i :
    << [source |-> text[i].target, names |-> ImportedNames(text[i], i), span |-> Literal(i)] >>)

Reference(text, i, k, kind) == [name |-> Token(text[i], k), kind |-> kind, span |-> Name(i, k)]

\* What a print is captured as beside its identifier: a filter or test name is an identifier too.
Qualified == [get |-> "attribute", filtered |-> "filter", tested |-> "test"]
CallKinds == {"invoke", "invoke_in", "invoke_member", "call"}
\* An alias in front of a call is not captured; the callee of a call tag follows its arguments.
CalleeToken(tag) ==
  IF tag.kind = "call" THEN Len(tag.names) + 1 ELSE IF tag.kind = "invoke_member" THEN 2 ELSE 1

\* A condition yields its calls only.
References(text) ==
  Each(text, {"print"} \cup DOMAIN Qualified \cup CallKinds, LAMBDA i :
    LET kind == text[i].kind
    IN  IF kind \in CallKinds THEN <<Reference(text, i, CalleeToken(text[i]), "function")>>
        ELSE <<Reference(text, i, 1, "identifier")>>
             \o (IF kind \in DOMAIN Qualified
                 THEN <<Reference(text, i, IF kind = "get" THEN 2 ELSE 1, Qualified[kind])>>
                 ELSE <<>>))

\* Only a call that is a whole render expression is a call site.
MacroCall(text, i) ==
  [callee |-> text[i].names[1], positional |-> text[i].count,
   keywords |-> Tail(text[i].names), span |-> Name(i, 1)]

MacroCalls(text) == Each(text, {"invoke"}, LAMBDA i : <<MacroCall(text, i)>>)

SyntaxErrors(text) == Each(text, ErrorKinds, LAMBDA i : <<Statement(i)>>)

Extract(text) ==
  LET regions == BuildScopeRegions(text)
  IN  [syntaxErrors |-> SyntaxErrors(text), macros |-> Macros(text),
       blocks |-> Blocks(text, regions), variables |-> Variables(text, regions),
       templateRefs |-> TemplateRefs(text), importAliases |-> ImportAliases(text),
       fromImports |-> FromImports(text), references |-> References(text),
       macroCalls |-> MacroCalls(text)]
=============================================================================
