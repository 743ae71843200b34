------------------------------ MODULE Outline ------------------------------
(***************************************************************************)
(* What the editor shows of the structure of a template (src/features/):   *)
(* folds, endblock echoes, the outline and the end tag that completion     *)
(* offers.  Each scans the source and pairs the tags with a stack of its   *)
(* own, apart from the extractor's.  A tag stands for the line it is on.   *)
(***************************************************************************)
EXTENDS Checks

Expressions == {"print", "get", "filtered", "tested", "invoke", "invoke_member"}
\* Mutant: an endblock with a name is a word of its own.
KeywordOfKind(tag) == IF tag.kind \in Expressions THEN None ELSE tag.kind

\* The first word of a statement.
Keyword(tag) ==
  CASE tag.kind \in Expressions -> None
    [] tag.kind = "set_block" -> "set"
    [] tag.kind = "named_endblock" -> "endblock"
    [] tag.kind = "invoke_in" -> "if"
    [] tag.kind = "malformed" -> "from"
    [] OTHER -> tag.kind

Opened == [endblock |-> "block", endmacro |-> "macro", endfor |-> "for", endwith |-> "with",
           endif |-> "if", endfilter |-> "filter", endautoescape |-> "autoescape",
           endcall |-> "call", endset |-> "set", endtrans |-> "trans"]
\* The words that open nothing, a clause of an open tag among them.
Standalone == {None, "extends", "include", "import", "from", "set", "break", "continue", "debug", "do",
               "elif", "else", "pluralize"}

\* The tags of a text run through a step, from a start value.
Scan(text, start, Step(_, _)) ==
  LET after[i \in 0 .. Len(text)] == IF i = 0 THEN start ELSE Step(after[i - 1], i)
  IN  after[Len(text)]
Unpaired == [stack |-> <<>>, pairs |-> {}]

\* An end tag takes the innermost open tag of its kind off the stack.
CloseInnermost(text, acc, i) ==
  LET own == {k \in DOMAIN acc.stack : Keyword(text[acc.stack[k]]) = Opened[Keyword(text[i])]}
      top == CHOOSE k \in own : \A o \in own : o <= k
  IN  IF own = {} THEN acc
      ELSE [stack |-> RemoveAt(acc.stack, top), pairs |-> acc.pairs \cup {<<acc.stack[top], i>>}]

(***************************************************************************)
(* Folds.                                                                  *)
(***************************************************************************)
\* An end tag folds with the last open tag only if that is its own.
CloseLast(text, acc, i) ==
  IF acc.stack = <<>> \/ Keyword(text[Last(acc.stack)]) # Opened[Keyword(text[i])] THEN acc
  ELSE [stack |-> Front(acc.stack), pairs |-> acc.pairs \cup {<<Last(acc.stack), i>>}]

FoldAt(text, acc, i) ==
  CASE Keyword(text[i]) \in DOMAIN Opened -> CloseLast(text, acc, i)
    [] Keyword(text[i]) \in Standalone -> acc
    [] OTHER -> [acc EXCEPT !.stack = Append(@, i)]

FoldRanges(text) == Scan(text, Unpaired, LAMBDA acc, i : FoldAt(text, acc, i)).pairs

(***************************************************************************)
(* Echoes: the name of the block that an endblock without a name closes.   *)
(***************************************************************************)
EchoAt(text, acc, i) ==
  CASE Keyword(text[i]) = "block" -> [acc EXCEPT !.stack = Append(@, text[i].names[1])]
    [] Keyword(text[i]) = "endblock" /\ acc.stack # <<>> ->
         [stack |-> Front(acc.stack),
          echoes |-> acc.echoes \cup {<<j, Last(acc.stack)>> : j \in {i} \cap Tags(text, {"endblock"})}]
    [] OTHER -> acc

EndblockEchoes(text) ==
  Scan(text, [stack |-> <<>>, echoes |-> {}], LAMBDA acc, i : EchoAt(text, acc, i)).echoes

(***************************************************************************)
(* The end tag offered after tag i.  An inline set counts as open.         *)
(***************************************************************************)
Pairs == {Opened[word] : word \in DOMAIN Opened}
OpenAt(text, stack, j) ==
  LET word == Keyword(text[j])
  IN  CASE word \in DOMAIN Opened /\ stack # <<>> /\ Last(stack) = Opened[word] -> Front(stack)
        [] word \in Pairs -> Append(stack, word)
        [] OTHER -> stack

FindInnermostOpenBlock(text, i) ==
  LET open == Scan(SubSeq(text, 1, i), <<>>, LAMBDA stack, j : OpenAt(text, stack, j))
  IN  IF open = <<>> THEN None ELSE Last(open)

(***************************************************************************)
(* The outline: nodes for definitions, top-level sets and references to    *)
(* templates, nested by containment.                                       *)
(***************************************************************************)
FullExtents(text) ==
  LET step(acc, i) ==
        CASE text[i].kind \in {"block", "macro"} -> [acc EXCEPT !.stack = Append(@, i)]
          [] Keyword(text[i]) \in {"endblock", "endmacro"} -> CloseInnermost(text, acc, i)
          [] OTHER -> acc
  IN  Scan(text, Unpaired, step).pairs

\* Mutant: the extent of a definition is that of the first one of its name.
FirstExtent(text, definition) ==
  LET named == {e \in FullExtents(text) : text[e[1]].names[1] = definition.name}
      first == {e \in named : \A o \in named : e[1] <= o[1]}
  IN  IF first = {} THEN definition.span
      ELSE Span(TagStart(Only(first)[1]), TagEnd(Only(first)[2]))

FullTagSpan(text, definition) ==
  LET own == {e \in FullExtents(text) : e[1] = TagOf(definition.span.lo)}
  IN  IF own = {} THEN definition.span ELSE Span(TagStart(Only(own)[1]), TagEnd(Only(own)[2]))

\* The first set of the name outside of macros and blocks, whichever set the variable is from.
FindSetSpan(text, name) ==
  LET inside(i) == \E e \in FullExtents(text) : e[1] < i /\ i < e[2]
      sets == {i \in Tags(text, {"set", "set_block"}) : text[i].names = <<name>> /\ ~inside(i)}
  IN  {Statement(i) : i \in {j \in sets : \A s \in sets : j <= s}}

CollectFlat(text, facts) ==
  LET node(kind, name, span) == [kind |-> kind, name |-> name, span |-> span]
      definitions(kind, list) ==
        [k \in DOMAIN list |-> node(kind, list[k].name, FullTagSpan(text, list[k]))]
      sets == SelectSeq(facts.variables, LAMBDA v : v.scope = "template" /\ FindSetSpan(text, v.name) # {})
      modules == SelectSeq(facts.templateRefs, LAMBDA r : ~r.isDynamic /\ r.kind \in {"extends", "include"})
      listed(kind, list) == [k \in DOMAIN list |-> node(kind, None, list[k].span)]
  IN  definitions("block", facts.blocks) \o definitions("macro", facts.macros)
      \o [k \in DOMAIN sets |-> node("variable", sets[k].name, Only(FindSetSpan(text, sets[k].name)))]
      \o listed("import", facts.importAliases) \o listed("from", facts.fromImports)
      \o listed("module", modules)

\* By start, the longer one first.
Sorted(nodes) ==
  LET before(i, j) ==
        \/ nodes[i].span.lo < nodes[j].span.lo
        \/ nodes[i].span.lo = nodes[j].span.lo /\ nodes[i].span.hi > nodes[j].span.hi
        \/ nodes[i].span = nodes[j].span /\ i < j
      rank(i) == 1 + Cardinality({j \in DOMAIN nodes : before(j, i)})
  IN  [k \in DOMAIN nodes |-> nodes[CHOOSE i \in DOMAIN nodes : rank(i) = k]]

\* The parent of every node of a sorted list, 0 where there is none.
Parents(nodes) ==
  LET contains(p, i) == nodes[p].span.hi > nodes[i].span.lo /\ nodes[i].span.hi <= nodes[p].span.hi
      step(acc, i) ==
        LET around == {k \in DOMAIN acc.stack : contains(acc.stack[k], i)}
            kept == SubSeq(acc.stack, 1, IF around = {} THEN 0 ELSE CHOOSE k \in around : \A a \in around : a <= k)
        IN  [stack |-> Append(kept, i),
             parents |-> Append(acc.parents, IF kept = <<>> THEN 0 ELSE Last(kept))]
  IN  Scan(nodes, [stack |-> <<>>, parents |-> <<>>], step).parents

\* Each node with the tag its parent starts at, 0 at the top.
DocumentSymbols(text, facts) ==
  LET nodes == Sorted(CollectFlat(text, facts))
      parents == Parents(nodes)
  IN  {[node |-> nodes[i], under |-> IF parents[i] = 0 THEN 0 ELSE TagOf(nodes[parents[i]].span.lo)] :
         i \in DOMAIN nodes}
=============================================================================
