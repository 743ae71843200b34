----------------------------- MODULE Assistance -----------------------------
(***************************************************************************)
(* What the editor offers while a template is typed (src/features/):       *)
(* completion, signature help, parameter hints and the block card of       *)
(* hover.  They look names up on their own, not as the checks do.          *)
(***************************************************************************)
EXTENDS Navigation

\* Both ends of a range belong to it here.
Within(byte, range) == range.lo <= byte /\ byte <= range.hi

(***************************************************************************)
(* Completion in an expression.                                            *)
(***************************************************************************)
\* Special variables are offered only in the construct that defines them.
SpecialIn(facts, byte, name) ==
  CASE name = "loop" ->
         \E v \in Elements(facts.variables) : v.scope = "for" /\ Within(byte, v.validRange)
    [] name \in {"self", "super"} -> \E b \in Elements(facts.blocks) : Within(byte, b.body)
    [] name \in {"caller", "varargs", "kwargs"} -> \E m \in Elements(facts.macros) : Within(byte, m.body)
    [] OTHER -> TRUE

\* Mutant: every variable of the template.
AllLocals(facts, byte) == {v.name : v \in Elements(facts.variables)}

ScopeLocals(facts, byte) ==
  {v.name : v \in {u \in Elements(facts.variables) : Within(byte, u.validRange)}}

CompleteExpression(facts, byte) ==
  Registry.function \cup {n \in Registry.variable : SpecialIn(facts, byte, n)}
  \cup DOMAIN Registry.context \cup ScopeLocals(facts, byte)

(***************************************************************************)
(* Whose parameters are shown for a call.  No feature looks beyond the     *)
(* template and its from-imports.                                          *)
(***************************************************************************)
\* The imports that give the callee, or have it under another name, in order.
ImportedCallee(templates, facts, Gives(_)) ==
  LET found(fi) == FirstFound([k \in DOMAIN fi.names |->
                     IF Gives(fi.names[k]) THEN Imported(templates, fi, fi.names[k].name) ELSE {}])
  IN  FirstFound([i \in DOMAIN facts.fromImports |-> found(facts.fromImports[i])])

\* Mutant: a macro of the workspace before an imported one.
ResolveInWorkspace(templates, key, callee) ==
  FirstFound(<<At(key, MacroNamed(templates[key], callee)), FindMacroWithPath(templates, callee)>>)

\* Keyword completion and signature help.
ResolveSignature(templates, key, callee) ==
  FirstFound(<<At(key, MacroNamed(templates[key], callee)),
               ImportedCallee(templates, templates[key], LAMBDA n : n.name = callee \/ n.alias = callee)>>)

\* Parameter hints.
ResolveMacroParams(templates, key, name) ==
  FirstFound(<<At(key, MacroNamed(templates[key], name)),
               ImportedCallee(templates, templates[key], LAMBDA n : Effective(n) = name)>>)

\* The labels in front of the positional arguments.  The text of an argument is not in the facts, so those
\* that match their parameter (its name, or a dot or subscript that ends in it) are given; they have none.
ParamHints(macro, call, matching) ==
  {[argument |-> i, label |-> macro.parameters[i].name] :
     i \in {k \in DOMAIN macro.parameters \ matching : k <= call.positional}}

(***************************************************************************)
(* Hover: what a block overrides and what overrides it.                    *)
(***************************************************************************)
FindParentBlock(templates, key, name) == AboveBlock(templates, templates[key], name)

\* Mutant: only a template that extends the ancestor itself.
IsChildOf(templates, descendant, ancestor) ==
  \E r \in Extends(templates[descendant]) : ancestor \in ResolveKey(templates, r.path)

\* A walk up the parents of its own, which ends where a parent is met again.
IsDescendantOf(templates, descendant, ancestor) ==
  LET walk[seen \in SUBSET DOMAIN templates] ==
        [key \in DOMAIN templates |->
          \E r \in Extends(templates[key]) :
            \/ r.path = ancestor
            \/ \E parent \in ResolveKey(templates, r.path) :
                 \/ parent = ancestor
                 \/ parent \notin seen /\ walk[seen \cup {parent}][parent]]
  IN  walk[{}][descendant]

FindBlockOverriders(templates, key, name) ==
  UNION {{Place(k, b.span) : b \in BlockNamed(templates[k], name)} :
           k \in {t \in DOMAIN templates \ {key} : IsDescendantOf(templates, t, key)}}
=============================================================================
