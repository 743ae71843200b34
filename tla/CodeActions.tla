----------------------------- MODULE CodeActions -----------------------------
(***************************************************************************)
(* Quick-fixes (src/features/code_actions.rs) and selection refactors      *)
(* (wrap.rs, extract_macro.rs): the text that a client has after applying  *)
(* the edits.  Edits are by line, and every tag is on a line of its own.   *)
(* A fix is computed from the code, the line and the quoted name of a      *)
(* finding and from the present facts, not from what the check looked at.  *)
(***************************************************************************)
EXTENDS Checks

CONSTANT Similar  \* the pairs of names within the edit distance for a suggestion

Line(finding) == TagOf(finding.span.lo)
Lines(text, from, to) == SubSeq(text, from, to)
RemoveLines(text, from, to) == Lines(text, 1, from - 1) \o Lines(text, to + 1, Len(text))
InsertLines(text, after, lines) == Lines(text, 1, after) \o lines \o Lines(text, after + 1, Len(text))

\* A fix leaves a text, and may create files.
Fix(text, preferred) == {[text |-> text, preferred |-> preferred, creates |-> {}]}

\* What has the finding's name and begins on its line.
Found(s, finding, name(_)) ==
  Some(s, LAMBDA x : name(x) = finding.name /\ TagOf(x.span.lo) = Line(finding))

(***************************************************************************)
(* Removals.                                                               *)
(***************************************************************************)
\* From the macro tag to the line of the byte its body ends at: the endmacro, or the last line.
RemoveMacro(text, facts, finding) ==
  UNION {Fix(RemoveLines(text, TagOf(m.span.lo), TagOf(m.body.hi)), TRUE) :
           m \in Found(facts.macros, finding, LAMBDA m : m.name)}

\* Mutant: the next endblock.
NextEndblock(text, i) ==
  LET ends == {j \in i + 1 .. Len(text) : text[j].kind \in {"endblock", "named_endblock"}}
  IN  {j \in ends : \A e \in ends : j <= e}

\* The line that brings the count of open blocks back to zero, a scan of its own.
FindEndblockLine(text, i) ==
  LET closing == Tags(text, {"endblock", "named_endblock"})
      open(j) == Cardinality(Tags(text, {"block"}) \cap i .. j) - Cardinality(closing \cap i + 1 .. j)
      ends == {j \in i + 1 .. Len(text) : open(j) = 0}
  IN  {j \in ends : \A e \in ends : j <= e}

RemoveBlock(text, facts, finding) ==
  UNION {UNION {Fix(RemoveLines(text, TagOf(b.span.lo), j), TRUE) :
                  j \in FindEndblockLine(text, TagOf(b.span.lo))} :
           b \in Found(facts.blocks, finding, LAMBDA b : b.name)}

\* Mutant: only the name in front of "as" is compared.
DropImported(text, i, name) ==
  LET kept == SelectSeq([k \in DOMAIN text[i].names |-> k], LAMBDA k : text[i].names[k] # name)
  IN  [text EXCEPT ![i].names = [k \in DOMAIN kept |-> @[kept[k]]],
                   ![i].aliases = [k \in DOMAIN kept |-> @[kept[k]]]]

\* Every entry with the name on either side of "as" goes; an import of nothing does not parse.
DropName(text, i, name) ==
  LET tag == text[i]
      kept == SelectSeq([k \in DOMAIN tag.names |-> k],
                        LAMBDA k : tag.names[k] # name /\ tag.aliases[k] # name)
  IN  IF kept = <<>> THEN [text EXCEPT ![i] = Tag("malformed", <<>>)]
      ELSE [text EXCEPT ![i].names = [k \in DOMAIN kept |-> @[kept[k]]],
                        ![i].aliases = [k \in DOMAIN kept |-> @[kept[k]]]]

RemoveAlias(text, facts, finding) ==
  UNION {Fix(RemoveLines(text, Line(finding), Line(finding)), TRUE) :
           a \in Found(facts.importAliases, finding, LAMBDA a : a.alias)}

\* Mutant: the whole import goes, whatever else it imports.
RemoveWholeImport(text, facts, finding) ==
  UNION {Fix(RemoveLines(text, Line(finding), Line(finding)), TRUE) :
           fi \in Some(facts.fromImports, LAMBDA f : TagOf(f.span.lo) = Line(finding))}

RemoveImported(text, facts, finding) ==
  LET i == Line(finding)
      imports == Some(facts.fromImports, LAMBDA f : TagOf(f.span.lo) = i)
      rest(fi) == IF Len(fi.names) = 1 THEN RemoveLines(text, i, i) ELSE DropName(text, i, finding.name)
  IN  UNION {Fix(rest(fi), TRUE) : fi \in imports}

\* An unused name is looked for among the aliases first, then among the imported names.
RemoveUnusedImport(text, facts, finding) ==
  LET binds == \E fi \in Elements(facts.fromImports) :
                 /\ TagOf(fi.span.lo) = Line(finding)
                 /\ \E n \in Elements(fi.names) : finding.name \in {n.name, n.alias}
  IN  FirstFound(<<RemoveAlias(text, facts, finding),
                   IF binds THEN RemoveImported(text, facts, finding) ELSE {} >>)

(***************************************************************************)
(* Insertions and replacements.                                            *)
(***************************************************************************)
Replace(text, span, name) == [text EXCEPT ![TagOf(span.lo)].names[TokenOf(span.lo)] = name]
ExtendsLines(facts) == {TagOf(r.span.lo) : r \in Extends(facts)}

\* Mutant: the stub's name is not that of the finding.
InsertFirstStub(text, facts, finding) ==
  UNION {Fix(InsertLines(text, i, <<Tag("block", <<"b">>), Tag("endblock", <<>>)>>), TRUE) :
           i \in ExtendsLines(facts)}

\* The stub goes below the extends tag; a dynamic parent offers no place.
InsertBlockStub(text, facts, finding) ==
  UNION {Fix(InsertLines(text, i, <<Tag("block", <<finding.name>>), Tag("endblock", <<>>)>>), TRUE) :
           i \in ExtendsLines(facts)}

ImportMacro(text, facts, key, name, preferred) ==
  LET import == [Tag("from", <<name>>) EXCEPT !.target = key, !.aliases = <<None>>]
      after == IF ExtendsLines(facts) = {} THEN 0 ELSE Only(ExtendsLines(facts))
  IN  Fix(InsertLines(text, after, <<import>>), preferred)

\* Any of the templates that define a similar macro: they are met in the order of a hash map.
ResolveUndefined(text, key, templates, finding) ==
  LET near == {n \in UNION {MacroNames(templates[k]) : k \in DOMAIN templates} \cup Registry.function :
                 <<finding.name, n>> \in Similar}
      owners(n) == {k \in DOMAIN templates : n \in MacroNames(templates[k])}
      import(k, n, preferred) == ImportMacro(text, templates[key], k, n, preferred)
  IN  UNION {import(m.key, finding.name, TRUE) : m \in FindMacroWithPath(templates, finding.name)}
      \cup UNION {UNION {import(k, n, FALSE) : k \in owners(n)} : n \in near}
      \cup UNION {Fix(Replace(text, finding.span, n), FALSE) : n \in near}

SuggestSpelling(text, finding, known) ==
  UNION {Fix(Replace(text, finding.span, n), FALSE) :
           n \in {k \in known : <<finding.name, k>> \in Similar}}

\* The binding and every use of the name from its line on, also beyond its scope.
RenameShadowing(text, facts, finding) ==
  LET newName == finding.name \o "_2"
      uses == {r \in Refs(facts, {"identifier"}) :
                 r.name = finding.name /\ TagOf(r.span.lo) >= Line(finding)}
      places == {finding.span} \cup {r.span : r \in uses}
      tokens(i) == {TokenOf(s.lo) : s \in {p \in places : TagOf(p.lo) = i}}
  IN  Fix([i \in DOMAIN text |->
             [text[i] EXCEPT !.names = [k \in DOMAIN @ |-> IF k \in tokens(i) THEN newName ELSE @[k]]]],
          TRUE)

\* The file of a path that exists nowhere, unless the path leads out of the directories.
CreateTemplate(text, facts, finding) ==
  LET missing == {r.path : r \in {f \in Elements(facts.templateRefs) : f.span = finding.span}}
      leadsOut(path) == ".." \in Elements(path) \/ (path # <<>> /\ path[1] = "")
  IN  {[text |-> text, preferred |-> TRUE, creates |-> {path}] : path \in {p \in missing : ~leadsOut(p)}}

QuickFixes(text, key, templates, finding) ==
  LET facts == templates[key]
  IN  CASE finding.code \in {"W202", "W302"} -> RemoveMacro(text, facts, finding)
        [] finding.code = "W203" -> RemoveUnusedImport(text, facts, finding)
        [] finding.code = "W301" -> RemoveBlock(text, facts, finding)
        [] finding.code = "W303" -> RemoveAlias(text, facts, finding)
        [] finding.code = "W304" -> RemoveImported(text, facts, finding)
        [] finding.code = "W305" -> RenameShadowing(text, facts, finding)
        [] finding.code = "E102" -> SuggestSpelling(text, finding, Registry.filter)
        [] finding.code = "E103" -> ResolveUndefined(text, key, templates, finding)
        [] finding.code = "E104" -> SuggestSpelling(text, finding, Registry.test)
        [] finding.code = "E403" -> InsertBlockStub(text, facts, finding)
        [] finding.code = "E601" -> CreateTemplate(text, facts, finding)
        [] OTHER -> {}

(***************************************************************************)
(* Refactors of the lines from..to.  Only the delimiters are balanced      *)
(* first, and here every line is a whole tag.                              *)
(***************************************************************************)
WrapTags(kind, name) ==
  CASE kind = "if" -> <<Tag("if", <<>>), Tag("endif", <<>>)>>
    [] kind = "for" -> <<Tag("for", <<"item">>), Tag("endfor", <<>>)>>
    [] kind = "block" -> <<Tag("block", <<name>>), Tag("endblock", <<>>)>>

WrapSelection(text, from, to, kind, name) ==
  LET tags == WrapTags(kind, name)
  IN  Lines(text, 1, from - 1) \o <<tags[1]>> \o Lines(text, from, to) \o <<tags[2]>>
        \o Lines(text, to + 1, Len(text))

\* Mutant: the last selected line stays where it was.
ExtractHalf(text, from, to, name) ==
  Lines(text, 1, from - 1) \o <<Tag("invoke", <<name>>)>> \o Lines(text, to, Len(text))
    \o <<Tag("macro", <<name>>)>> \o Lines(text, from, to) \o <<Tag("endmacro", <<>>)>>

ExtractMacro(text, from, to, name) ==
  Lines(text, 1, from - 1) \o <<Tag("invoke", <<name>>)>> \o Lines(text, to + 1, Len(text))
    \o <<Tag("macro", <<name>>)>> \o Lines(text, from, to) \o <<Tag("endmacro", <<>>)>>
=============================================================================
