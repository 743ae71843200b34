---------------------------- MODULE TemplateViews ----------------------------
(***************************************************************************)
(* What an author sees while writing: properties that relate the outline,  *)
(* the offers and the cards to what the tags mean and to what the checks   *)
(* and the navigation find, in every reachable project.                    *)
(***************************************************************************)
EXTENDS TemplateProject, Outline, Assistance, Layout, SemanticTokens

(***************************************************************************)
(* Structure.                                                              *)
(***************************************************************************)
Crossing(folds) == \E f, g \in folds : f[1] < g[1] /\ g[1] < f[2] /\ f[2] < g[2]

\* A text of scopes, their ends, expressions and what has no end.  Any other word opens a fold, closed or not.
Structured(text) ==
  \A i \in DOMAIN text :
    text[i].kind \in ScopeKinds \cup DOMAIN Closes \cup {"named_endblock", "malformed"} \cup Expressions
                      \cup (Standalone \ {None})

\* Folds never cross, whatever is half typed (REQ-FOLD2-06), and those of a well nested template of scopes
\* are the pairs of an opening tag and its end.
FoldsAreNesting ==
  \A k \in Templates :
    LET folds == FoldRanges(texts[k])
    IN  /\ ~Crossing(folds)
        /\ WellNested(texts[k]) /\ Structured(texts[k]) =>
             folds = {<<i, Partner(texts[k], i)>> : i \in Openers(texts[k])}

\* The scans that pair blocks on their own agree in a well nested template: the echo at an endblock
\* names the block it closes, and the end tag offered in its place, or in that of any end tag, is that
\* tag, as long as no set stands before it.
EndsAreRecognised ==
  \A k \in Templates : WellNested(texts[k]) =>
    LET echoes == EndblockEchoes(texts[k])
    IN  /\ echoes = {<<Partner(texts[k], i), texts[k][i].names[1]>> :
                       i \in {b \in Tags(texts[k], {"block"}) : texts[k][Partner(texts[k], b)].kind = "endblock"}}
        /\ \A i \in Openers(texts[k]) :
             Structured(texts[k]) /\ Tags(texts[k], {"set"}) \cap 1 .. Partner(texts[k], i) = {} =>
               FindInnermostOpenBlock(texts[k], Partner(texts[k], i) - 1) = texts[k][i].kind

\* In the outline of a well nested template everything is under the innermost macro or block around
\* it, a set only at the top, and the node of a macro or a block reaches to its end.
OutlineIsNesting ==
  \A k \in Templates : WellNested(texts[k]) /\ Readable(texts[k]) =>
    \A s \in DocumentSymbols(texts[k], index[k]) :
      LET i == TagOf(s.node.span.lo)
          around == Latest(Around(texts[k], i) \cap Tags(texts[k], {"macro", "block"}))
      IN  /\ s.node.kind # "variable" => s.under = IF around = {} THEN 0 ELSE Only(around)
          /\ s.node.kind = "variable" => around = {}
          /\ s.node.kind \in {"macro", "block"} => s.node.span.hi = TagEnd(Partner(texts[k], i))

(***************************************************************************)
(* Layout.  A text is laid out on lines by what is behind each of its tags *)
(* but the last: nothing, a line end, or an empty line.                    *)
(***************************************************************************)
LineOf(gaps, i) ==
  1 + Cardinality({j \in 1 .. i - 1 : gaps[j] # "nothing"})
    + Cardinality({j \in 1 .. i - 1 : gaps[j] = "empty_line"})
OnLine(text, gaps, r) == {i \in DOMAIN text : LineOf(gaps, i) = r}
Laid(text, gaps) ==
  [r \in 1 .. IF text = <<>> THEN 1 ELSE LineOf(gaps, Len(text)) |->
    Row(r, [k \in 1 .. Cardinality(OnLine(text, gaps, r)) |->
              text[CHOOSE i \in OnLine(text, gaps, r) :
                     Cardinality({j \in OnLine(text, gaps, r) : j <= i}) = k]])]

\* Bound: the texts that are laid out, well nested ones one tag longer.
LaidOut(text) ==
  Tags(text, ErrorKinds) = {} /\ (Len(text) < FreeTags - 1 \/ (Len(text) < FreeTags /\ WellNested(text)))
Layouts(text) ==
  IF LaidOut(text) THEN [1 .. Len(text) - 1 -> {"nothing", "line", "empty_line"}] ELSE {}

AsIs == [blankLines |-> 0, lstrip |-> FALSE, newline |-> FALSE]
FormatConfigs == [blankLines : 0 .. 2, lstrip : BOOLEAN, newline : {TRUE}]

\* The openers and end tags on the line of a tag, the line's first tag, and what is open around it.
Structural(text, gaps, i) == OnLine(text, gaps, LineOf(gaps, i)) \cap (Openers(text) \cup Closers(text))
First(set) == CHOOSE i \in set : \A j \in set : i <= j
OpenOver(text, gaps, i) ==
  LET from == First(OnLine(text, gaps, LineOf(gaps, i)))
      turn == IF Structural(text, gaps, i) = {} THEN from ELSE First(Structural(text, gaps, i))
  IN  {o \in Openers(text) : o < from /\ turn < Partner(text, o)}

\* A tag line stands as many units to the right of the outermost tag open over it as there are tags open
\* over it, and a line that begins with an end tag is level with the tag it ends, on whatever lines they
\* are (REQ-FMT-02).  Where the outermost one itself stands is left open.
IndentsAreNesting(text, gaps) ==
  LET formatted == FormatWithConfig(Laid(text, gaps), AsIs)
      line(i) == formatted[LineOf(gaps, i)]
      leads(i) == i = First(OnLine(text, gaps, LineOf(gaps, i)))
      outermost(i) == {o \in OpenOver(text, gaps, i) : \A p \in OpenOver(text, gaps, i) : o <= p}
  IN  /\ \A i \in DOMAIN text : IsTagLine(line(i)) =>
           \A o \in outermost(i) : leads(o) =>
             line(i).indent = line(o).indent + Cardinality(OpenOver(text, gaps, i))
      /\ \A o \in Openers(text) : leads(o) /\ leads(Partner(text, o)) =>
           line(Partner(text, o)).indent = line(o).indent

\* An empty line comes behind each line that ends something and leaves nothing open, and nowhere else,
\* as long as no line with such a tag begins with an expression.
SpacedAtTopLevel(text, gaps) ==
  LET ends(i) == /\ Closers(text) \cap OnLine(text, gaps, LineOf(gaps, i)) # {}
                 /\ \A o \in Openers(text) : o <= i => Partner(text, o) <= i
      spaced == [i \in DOMAIN gaps |-> IF gaps[i] = "line" /\ ends(i) THEN "empty_line" ELSE gaps[i]]
      contents(source) == [r \in DOMAIN source |-> source[r].tags]
  IN  (\A i \in Openers(text) \cup Closers(text) : IsTagLine(Laid(text, gaps)[LineOf(gaps, i)])) =>
        contents(InsertBlankLines(Laid(text, gaps), 1)) = contents(Laid(text, spaced))

\* Formatting what is formatted changes nothing (REQ-FMT-06), and the ranges of a source formatted one
\* by one give what formatting it at once gives (REQ-FMT-07).
Settles(source) ==
  /\ \A config \in FormatConfigs :
       LET once == FormatWithConfig(source, config) IN FormatWithConfig(once, config) = once
  /\ \A cut \in DOMAIN source :
       FormatRange(FormatRange(source, cut + 1, Len(source), AsIs), 1, cut, AsIs) = FormatWithConfig(source, AsIs)

LayoutIsNesting ==
  \A k \in Templates : \A gaps \in Layouts(texts[k]) :
    /\ Settles(Laid(texts[k], gaps))
    /\ WellNested(texts[k]) => IndentsAreNesting(texts[k], gaps) /\ SpacedAtTopLevel(texts[k], gaps)

\* The scans that pair tags on their own, for folds, echoes and end tags, find the nesting.
ViewsFollowNesting == FoldsAreNesting /\ EndsAreRecognised

(***************************************************************************)
(* Offers.                                                                 *)
(***************************************************************************)
\* Completion at a use offers a name that is not of the registry if it has a live binding there, and only
\* then or if it is a parameter, of which the code offers none and REQ-CMP-11 all; nothing it offers is
\* undefined but a function or what is hinted for another template, and a special variable is offered
\* exactly inside its construct.
OfferedIsDefined ==
  \A k \in Templates : Intact(texts[k]) =>
    \A i \in Tags(texts[k], {"print"}) :
      LET name == texts[k][i].names[1]
          anywhere == Registry.function \cup DOMAIN Registry.context
          offered == CompleteExpression(index[k], Name(i, 1).lo)
          inside(kind) == Around(texts[k], i) \cap Tags(texts[k], {kind}) # {}
          special(n) == n \in Registry.variable \ anywhere /\ MeantBy(texts[k], i, n) = {}
          bound == MeantBy(texts[k], i, name) # {}
      IN  /\ name \notin anywhere \cup Registry.variable =>
               /\ bound => name \in offered
               /\ name \in offered => bound \/ IsParameterAt(texts[k], i, name)
          /\ name \in offered \ anywhere => Finding("E101", Name(i, 1)) \notin RunChecks(texts[k], index, k)
          /\ special("loop") => ("loop" \in offered <=> inside("for"))
          /\ special("self") => ("self" \in offered <=> inside("block"))
          /\ special("caller") => ("caller" \in offered <=> inside("macro"))

(***************************************************************************)
(* Colours.                                                                *)
(***************************************************************************)
\* A name that is shown as unknown has no live binding and is reported, unless it is a parameter or the
\* name of a filter or test; a call that is reported is shown as unknown.
ColoursFollowChecks ==
  \A k \in Templates : index[k].syntaxErrors = <<>> =>
    LET facts == index[k]
        unknown(r) == Classify(index, facts, r).modifiers = Unknown
        qualifies(r) == \E q \in Refs(facts, {"filter", "test"}) : q.span = r.span
    IN  /\ \A r \in Refs(facts, {"identifier"}) :
             unknown(r) /\ ~qualifies(r) =>
               /\ InnermostBinding(facts, r) = {}
               /\ Finding("E101", r.span) \in E101(index, k)
                  \/ r.name \in MacroNames(facts) \cup EffectiveNames(facts) \/ IsParameter(facts, r)
        /\ \A r \in Refs(facts, {"function"}) :
             Named("E103", r.span, r.name) \in E103(index, k) => unknown(r)

\* What a client makes of the deltas: absolute lines and starts.
Decoded(data) ==
  LET step(acc, d) ==
        LET last == IF acc = <<>> THEN [line |-> 0, start |-> 0] ELSE Last(acc)
        IN  Append(acc, [line |-> last.line + d.deltaLine, length |-> d.length,
                         start |-> d.deltaStart + IF d.deltaLine = 0 THEN last.start ELSE 0])
  IN  FoldLeft(step, <<>>, data)

\* Bound: the characters in front of the names and the first name of a tag vary, the same on every line.
Characters == {Ascii, Wide, Astral}
LinesOf(text) == {[i \in DOMAIN text |-> <<c[1], c[2], Ascii, c[1]>>] : c \in Characters \X Characters}

\* The tokens a client decodes lie on the names of the tags, in document order, in either encoding and
\* whatever characters are on the line, and a request at a decoded place is for the name that is there.
TokensAreOnNames ==
  \A k \in Templates : Len(texts[k]) < FreeTags =>
    \A lines \in LinesOf(texts[k]), utf8 \in BOOLEAN :
      LET count(i, n) == IF utf8 THEN Bytes(lines[i], n) ELSE Units(lines[i], n)
          tokens == SemanticTokensFull(index, k, lines)
          decoded == Decoded(TokensToLspData(tokens, lines, utf8))
          names == {<<TagOf(d.span.lo), 1>> : d \in Elements(index[k].macros) \cup Elements(index[k].blocks)}
                   \cup {<<TagOf(p.span.lo), TokenOf(p.span.lo)>> :
                           p \in UNION {Elements(m.parameters) : m \in Elements(index[k].macros)}
                                 \cup {r \in Elements(index[k].references) : r.kind # "attribute"}}
      IN  /\ {[line |-> n[1], start |-> count(n[1], n[2]), length |-> count(n[1], n[2] + 1) - count(n[1], n[2])] :
                n \in names} = Elements(decoded)
          /\ \A i \in DOMAIN decoded :
               /\ i > 1 => decoded[i - 1].line < decoded[i].line
                           \/ (decoded[i - 1].line = decoded[i].line /\ decoded[i - 1].start < decoded[i].start)
               /\ LspCharToByteCol(lines[decoded[i].line], decoded[i].start, utf8) = tokens[i].start

\* What has places of its own, the outline, the lines of a layout and the tokens, is where the text has it.
PlacesFollowText == OutlineIsNesting /\ LayoutIsNesting /\ TokensAreOnNames

\* Where a name is defined, the check, the completion, the colours and the meaning of the text agree.
UsesAreDefinedAlike == UndefinedIsReported /\ OfferedIsDefined /\ ColoursFollowChecks

\* No import gives the name twice; the checks take the first, the features the first that exists.
GivenOnce(key, name) ==
  \A fi \in Elements(index[key].fromImports) :
    \A m, n \in Elements(fi.names) : Effective(m) = name /\ Effective(n) = name => m = n

\* The parameters shown at a call, by signature help as by hints, are those of the macro that its
\* arguments are checked against, and if the check passes every positional argument is labelled but
\* those that already read like their parameter (REQ-INLAY-06), whichever these are.
HelpShowsCheckedMacro ==
  \A k \in Templates : \A c \in Elements(index[k].macroCalls) :
    LET checked == ResolveMacro(index, k, c.callee)
        known == c.callee \in MacroNames(index[k]) \cup EffectiveNames(index[k])
        signature == ResolveSignature(index, k, c.callee)
        hinted == ResolveMacroParams(index, k, c.callee)
    IN  ~ImportedElsewise(k, c.callee) =>
          /\ signature = hinted
          /\ signature # {} /\ GivenOnce(k, c.callee) => known /\ signature = checked
          /\ \A m \in hinted : ~WrongArguments(m.macro, c) =>
               \A matching \in SUBSET (1 .. c.positional) :
                 {h.argument : h \in ParamHints(m.macro, c, matching)} = (1 .. c.positional) \ matching

\* Whatever shows a call to the author shows what the checks say of it.
CallsAreShownAlike == HelpShowsCheckedMacro /\ ColoursFollowChecks

(***************************************************************************)
(* Hover.                                                                  *)
(***************************************************************************)
\* The card of a block names what its lenses lead to, above it as below it, although it walks the
\* parents on its own.
HoverAgreesWithLenses ==
  \A k \in Templates : \A b \in Elements(index[k].blocks) :
    /\ ~InCycle(k) => FindParentBlock(index, k, b.name) = LensTargets(index, k, "block", b.name, "overrides")
    /\ FindBlockOverriders(index, k, b.name) = LensTargets(index, k, "block", b.name, "extended")

\* Definition, lenses, super() and cards, each with a walk of its own, show one inheritance.
InheritanceIsOne == InheritanceIsMutual /\ HoverAgreesWithLenses
=============================================================================
