---------------------------- MODULE TemplateFixes ----------------------------
(***************************************************************************)
(* What a user gets who applies a code action to a project being written:  *)
(* properties over the fixes of every finding in every reachable project.  *)
(***************************************************************************)
EXTENDS TemplateProject, CodeActions

After(key, text) == [index EXCEPT ![key] = Extract(text)]
Count(findings, finding) ==
  Cardinality({f \in findings : f.code = finding.code /\ f.name = finding.name})

\* The fixes on offer for the findings of a template, with the finding they are for.
Offered(key) ==
  UNION {{[finding |-> f, fix |-> x] : x \in QuickFixes(texts[key], key, index, f)} :
           f \in RunChecks(texts[key], index, key)}

\* A quick-fix resolves its finding ("resolves a specific diagnostic", F17-code-actions.md:40): its
\* template has one finding less of that code and name.  The import of a macro that is only
\* similar, which is never preferred, is the exception, and so is a created file, for which the code
\* gives a path from the root of the file system.
FixesResolveFindings ==
  \A k \in Templates : Intact(texts[k]) =>
    LET before == RunChecks(texts[k], index, k)
    IN  \A o \in Offered(k) :
          o.fix.creates = {} /\ (o.fix.preferred \/ Len(o.fix.text) = Len(texts[k])) =>
            Count(RunChecks(o.fix.text, After(k, o.fix.text), k), o.finding) < Count(before, o.finding)

(***************************************************************************)
(* Removals.                                                               *)
(***************************************************************************)
RemovingCodes == {"W202", "W203", "W301", "W302", "W303", "W304"}
Errors(findings) == {<<f.code, f.name>> : f \in {g \in findings :
  g.code \in {"E001", "E101", "E102", "E103", "E104", "E401", "E403", "E404", "E501", "E601"}}}

\* Macros and imports are outside of macros and blocks, a block in a block repeats its name, and a
\* tag imports a name once: what is removed holds no definition that something else needs.
Plain(text) ==
  /\ \A i \in Tags(text, {"macro", "block", "import", "from"}) :
       \A j \in Around(text, i) \cap Tags(text, {"macro", "block"}) :
         text[i].kind = "block" /\ text[i].names = text[j].names
  /\ \A i \in Tags(text, {"from"}) :
       LET bound == [k \in Tokens(text[i]) |-> Token(text[i], k)]
       IN  \A j, k \in DOMAIN bound : bound[j] = bound[k] /\ bound[j] # None => j = k

\* A fix that removes something unused or defined twice leaves the template well nested and gives
\* no template an error it had not, although the end of what goes is found by counting lines and
\* the name that goes out of an import by splitting its line.
RemovalsBreakNothing ==
  \A k \in Templates : Intact(texts[k]) /\ Plain(texts[k]) =>
    \A o \in Offered(k) : o.finding.code \in RemovingCodes =>
      /\ Intact(o.fix.text)
      /\ LET after == After(k, o.fix.text)
             textAfter == [texts EXCEPT ![k] = o.fix.text]
         IN  \A q \in Templates :
               Errors(RunChecks(textAfter[q], after, q)) \subseteq Errors(RunChecks(texts[q], index, q))

(***************************************************************************)
(* Refactors.                                                              *)
(***************************************************************************)
\* Wrapping a well nested part in an if, which is no scope, leaves every identifier with the binding
\* it had; a for or a block around the part takes only its bindings from what is behind it.
WrappingKeepsBindings ==
  \A k \in Templates : Intact(texts[k]) =>
    \A to \in DOMAIN texts[k] : \A from \in 1 .. to : Intact(Lines(texts[k], from, to)) =>
      \A kind \in {"if", "for", "block"} :
        LET facts == Extract(WrapSelection(texts[k], from, to, kind, "new_block"))
            moved(i) == IF i < from THEN i ELSE IF i <= to THEN i + 1 ELSE i + 2
            resolved(i) == UNION {{TagOf(v.span.lo) : v \in InnermostBinding(facts, r)} :
                             r \in {u \in Refs(facts, {"identifier"}) : TagOf(u.span.lo) = moved(i)}}
        IN  \A i \in Tags(texts[k], {"print"}) :
              LET meant == MeantBy(texts[k], i, texts[k][i].names[1])
                  taken == kind # "if" /\ i > to /\ meant \cap from .. to # {}
              IN  IF taken THEN \A j \in meant : moved(j) \notin resolved(i)
                  ELSE resolved(i) = {moved(j) : j \in meant}

\* Neither a removal nor a wrap takes what something needs.
EditsTakeNothing == RemovalsBreakNothing /\ WrappingKeepsBindings

\* The selection of a well nested part extracted to a macro of a new name: the template stays well
\* nested, the call left in place is to the new macro, and the body of that is the selection.
ExtractionIsCalled ==
  \A k \in Templates, name \in NewNames : Intact(texts[k]) /\ Fresh(name) =>
    \A to \in DOMAIN texts[k] : \A from \in 1 .. to :
      LET selection == Lines(texts[k], from, to)
          extracted == ExtractMacro(texts[k], from, to, name)
          called == CalledMacro(After(k, extracted), k, name)
      IN  Intact(selection) =>
            /\ Intact(extracted)
            /\ {m.key : m \in called} = {k}
            /\ \A m \in called :
                 Lines(extracted, TagOf(m.macro.body.lo) + 1, TagOf(m.macro.body.hi) - 1) = selection
            /\ Cardinality(Refs(After(k, extracted)[k], {"function"}))
                 = 1 + Cardinality(Refs(index[k], {"function"}))
=============================================================================
