------------------------------- MODULE Checks -------------------------------
(***************************************************************************)
(* run_checks (src/diagnostics/checks/): the findings of one template over *)
(* its facts and those of the workspace.  A finding is a code, the span it *)
(* is reported at and the name its message quotes, where a fix reads it    *)
(* again; wording and order are left out.                                  *)
(***************************************************************************)
EXTENDS WorkspaceIndex

(***************************************************************************)
(* Registry: the names the builtin packs and the hints know, by category.  *)
(* Registry.context maps a hinted variable to the template it is for (<<>>  *)
(* when for all) and to its declared attributes.                           *)
(***************************************************************************)
CONSTANT Registry

IsHostOwned(name) ==
  name \in Registry.filter \cup Registry.function \cup Registry.test
           \cup Registry.variable \cup DOMAIN Registry.context

PathMatchesTemplateScope(key, template) ==
  key = template \/ (Len(key) > Len(template) /\ IsSuffix(template, key))

HintApplies(key, name) ==
  /\ name \in DOMAIN Registry.context
  /\ Registry.context[name].template = <<>> \/ PathMatchesTemplateScope(key, Registry.context[name].template)

Named(code, span, name) == [code |-> code, span |-> span, name |-> name]
Finding(code, span) == Named(code, span, None)
Refs(facts, kinds) == {r \in Elements(facts.references) : r.kind \in kinds}
EffectiveNames(facts) == UNION {{Effective(n) : n \in Elements(fi.names)} : fi \in Elements(facts.fromImports)}
MacroNames(facts) == {m.name : m \in Elements(facts.macros)}
AliasNames(facts) == {a.alias : a \in Elements(facts.importAliases)}

E001(facts) == {Finding("E001", e) : e \in Elements(facts.syntaxErrors)}

\* Mutant: a parameter counts in the whole file.
IsParameterAnywhere(facts, ref) ==
  \E m \in Elements(facts.macros) : \E p \in Elements(m.parameters) : p.name = ref.name

\* An identifier that nothing of the template, the registry or the hints defines.
IsParameter(facts, ref) ==
  \E m \in Elements(facts.macros) :
    Covers(m.body, ref.span) /\ \E p \in Elements(m.parameters) : p.name = ref.name

Undefined(templates, key, ref) ==
  LET facts == templates[key]
  IN  /\ ~\E r \in Refs(facts, {"filter", "test"}) : r.span.lo = ref.span.lo
      /\ HostOwned(templates, key, ref)
      /\ ref.name \notin MacroNames(facts) \cup AliasNames(facts) \cup EffectiveNames(facts)
      /\ ref.name \notin Registry.variable
      /\ ~IsParameter(facts, ref)
      /\ ~HintApplies(key, ref.name)

E101(templates, key) ==
  {Finding("E101", r.span) :
     r \in {i \in Refs(templates[key], {"identifier"}) : Undefined(templates, key, i)}}

E102(facts) ==
  {Named("E102", r.span, r.name) : r \in {f \in Refs(facts, {"filter"}) : f.name \notin Registry.filter}}
E104(facts) ==
  {Named("E104", r.span, r.name) : r \in {t \in Refs(facts, {"test"}) : t.name \notin Registry.test}}

E103(templates, key) ==
  {Named("E103", r.span, r.name) :
     r \in {f \in Refs(templates[key], {"function"}) :
              /\ HostOwned(templates, key, f)
              /\ f.name \notin Registry.function \cup Registry.filter}}

W106(text, key, facts) ==
  {Finding("W106", r.span) :
     r \in {a \in Refs(facts, {"attribute"}) :
              LET parent == Token(text[TagOf(a.span.lo)], 1)
              IN  /\ HintApplies(key, parent)
                  /\ Registry.context[parent].attrs # {}
                  /\ a.name \notin Registry.context[parent].attrs}}

UsedNames(facts) == {r.name : r \in Elements(facts.references)}

W201(facts) ==
  {Finding("W201", v.span) :
     v \in {u \in Elements(facts.variables) : NonEmpty(u.validRange) /\ u.name \notin UsedNames(facts)}}

\* A macro is used by a local name, by a call in any template, or by an import from this one.
UsedMacros(templates, key) ==
  {r.name : r \in Refs(templates[key], {"function", "identifier"})}
  \cup UNION {{r.name : r \in Refs(templates[k], {"function"})} : k \in DOMAIN templates}
  \cup UNION {UNION {{n.name : n \in Elements(fi.names)} :
                fi \in {f \in Elements(templates[k].fromImports) :
                          key \in ResolveKey(templates, f.source) \cup {f.source}}} :
              k \in DOMAIN templates}

W202(templates, key) ==
  {Named("W202", m.span, m.name) :
     m \in {d \in Elements(templates[key].macros) : d.name \notin UsedMacros(templates, key)}}

\* The scan of the text also meets a template whose file is named like the alias.
AliasBeforeDot(text, alias) ==
  \E i \in DOMAIN text :
    \/ text[i].kind \in {"get", "invoke_member"} /\ text[i].names[1] = alias
    \/ text[i].target # <<>> /\ Last(text[i].target) = alias

W203(text, facts) ==
  {Named("W203", a.span, a.alias) :
     a \in {i \in Elements(facts.importAliases) :
              i.alias \notin UsedNames(facts) /\ ~AliasBeforeDot(text, i.alias)}}
  \cup UNION {{Named("W203", fi.span, n) :
                n \in {Effective(i) : i \in Elements(fi.names)} \ UsedNames(facts)} :
             fi \in Elements(facts.fromImports)}

\* The second and later entries of a list that have a name already met.
Repeated(code, s) ==
  {Named(code, s[i].span, s[i].name) : i \in {j \in DOMAIN s : \E h \in 1 .. j - 1 : s[h].name = s[j].name}}

Duplicates(facts) ==
  LET named(span, name) == [span |-> span, name |-> name]
      aliases == [i \in DOMAIN facts.importAliases |->
                    named(facts.importAliases[i].span, facts.importAliases[i].alias)]
      imported == FlattenSeq([i \in DOMAIN facts.fromImports |->
                    [k \in DOMAIN facts.fromImports[i].names |->
                      named(facts.fromImports[i].span, Effective(facts.fromImports[i].names[k]))]])
  IN  Repeated("W301", facts.blocks) \cup Repeated("W302", facts.macros)
      \cup Repeated("W303", aliases) \cup Repeated("W304", imported)

\* A binding nested in one that the list has before it.
W305(facts) ==
  LET vars == facts.variables
      shadows(i) == \E h \in 1 .. i - 1 :
                      vars[h].name = vars[i].name /\ Covers(vars[h].validRange, vars[i].validRange)
  IN  {Named("W305", vars[i].span, vars[i].name) :
         i \in {j \in DOMAIN vars : NonEmpty(vars[j].validRange) /\ shadows(j)}}

IsChild(facts) == \E r \in Elements(facts.templateRefs) : r.kind = "extends"

InsideBody(facts, byte) ==
  \E d \in Elements(facts.blocks) \cup Elements(facts.macros) : ByteIn(byte, d.body)

W402(facts) ==
  {Finding("W402", v.span) :
     v \in {u \in Elements(facts.variables) : IsChild(facts) /\ ~InsideBody(facts, u.span.lo)}}
E401(facts) ==
  {Finding("E401", r.span) :
     r \in {f \in Refs(facts, {"function"}) :
              IsChild(facts) /\ f.name = "super" /\ ~InsideBody(facts, f.span.lo)}}

\* Only the direct parent is asked for its required blocks.
E403(templates, key) ==
  LET facts == templates[key]
      parent == UNION {GetByRef(templates, r.path) :
                  r \in Some(facts.templateRefs, LAMBDA r : r.kind = "extends")}
      overridden == {b.name : b \in Elements(facts.blocks)}
  IN  {Named("E403", NoSpan, b.name) :
         b \in {c \in UNION {Elements(p.blocks) : p \in parent} : c.required /\ c.name \notin overridden}}

(***************************************************************************)
(* E404: a depth-first walk over the static references that load macros or *)
(* a parent, which stops at templates already visited.                     *)
(***************************************************************************)
Loads(ref) == ref.kind \in {"extends", "import", "from"} /\ ~ref.isDynamic /\ ~ref.ignoreMissing
LoadedBy(facts) == Satisfying(facts.templateRefs, Loads)

\* Mutant: only the chain of parents is followed.
ParentChainContains(templates, current, target, seen) ==
  target \in UNION {Elements(TemplateChain(templates, k)) : k \in ResolveKey(templates, current)}

\* [found, visited] after the walk from current, which never descends into a visited template.
ImportChainContains(templates, current, target, seen) ==
  LET visit[visited \in SUBSET DOMAIN templates] ==
        [path \in Seq(STRING) |->
          LET resolved == ResolveKey(templates, path)
              k == Only(resolved)
              refs == LoadedBy(templates[k])
              next[i \in 0 .. Len(refs)] ==
                IF i = 0 THEN [found |-> FALSE, visited |-> visited \cup {k}]
                ELSE IF next[i - 1].found THEN next[i - 1]
                ELSE visit[next[i - 1].visited][refs[i].path]
          IN  IF resolved = {} THEN [found |-> FALSE, visited |-> visited]
              ELSE IF k = target THEN [found |-> TRUE, visited |-> visited]
              ELSE IF k \in visited THEN [found |-> FALSE, visited |-> visited]
              ELSE next[Len(refs)]]
  IN  visit[seen][current].found

E404(templates, key) ==
  {Finding("E404", r.span) :
     r \in {l \in Elements(LoadedBy(templates[key])) :
              ImportChainContains(templates, l.path, key, {key})}}

(***************************************************************************)
(* E501: the arguments of a call against the parameters of its macro.      *)
(***************************************************************************)
\* Mutant: imports are not looked at.
ResolveUnimported(templates, key, callee) ==
  LET local == At(key, MacroNamed(templates[key], callee))
  IN  IF local # {} THEN local ELSE FindMacroWithPath(templates, callee)

ResolveMacro(templates, key, callee) ==
  LET facts == templates[key]
      given(fi) == Some(fi.names, LAMBDA n : Effective(n) = callee)
      found(fi) == UNION {Imported(templates, fi, n.name) : n \in given(fi)}
      imported == UNION {found(fi) : fi \in Some(facts.fromImports, LAMBDA f : found(f) # {})}
  IN  IF MacroNamed(facts, callee) # {} THEN At(key, MacroNamed(facts, callee))
      ELSE IF imported # {} THEN imported
      ELSE FindMacroWithPath(templates, callee)

\* Mutant: a keyword does not count as given.
WrongPositional(macro, call) ==
  \/ \E k \in Elements(call.keywords) : k \notin {p.name : p \in Elements(macro.parameters)}
  \/ call.positional < Cardinality({p \in Elements(macro.parameters) : p.required})
  \/ call.positional > Len(macro.parameters)

WrongArguments(macro, call) ==
  LET parameters == Elements(macro.parameters)
      required == {p \in parameters : p.required}
      byKeyword == {p \in required : p.name \in Elements(call.keywords)}
  IN  \/ \E k \in Elements(call.keywords) : k \notin {p.name : p \in parameters}
      \/ call.positional < Cardinality(required) - Cardinality(byKeyword)
      \/ call.positional > Len(macro.parameters)

E501(templates, key) ==
  {Finding("E501", c.span) :
     c \in {d \in Elements(templates[key].macroCalls) :
              \E m \in ResolveMacro(templates, key, d.callee) : WrongArguments(m.macro, d)}}

E601(templates, key) ==
  {Finding("E601", r.span) :
     r \in {t \in Elements(templates[key].templateRefs) :
              ~t.isDynamic /\ ~t.ignoreMissing /\ ResolveKey(templates, t.path) = {}}}

\* Only the syntax errors are reported when there are any.
RunChecks(text, templates, key) ==
  LET facts == templates[key]
  IN  IF facts.syntaxErrors # <<>> THEN E001(facts)
      ELSE UNION {W106(text, key, facts), E101(templates, key), E103(templates, key),
                  E102(facts), E104(facts), W201(facts), W202(templates, key), W203(text, facts),
                  Duplicates(facts), W305(facts), E403(templates, key), E404(templates, key),
                  E501(templates, key), W402(facts), E401(facts), E601(templates, key)}
=============================================================================
