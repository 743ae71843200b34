--------------------------- MODULE WorkspaceIndex ---------------------------
(***************************************************************************)
(* WorkspaceIndex and TemplateIndex (src/workspace/index.rs): lookups over *)
(* the facts of every template.  A key is a path as the sequence of its    *)
(* segments; what a tag names is a key or the tail of one.                 *)
(***************************************************************************)
EXTENDS Extraction

CONSTANT Keys  \* every template key of the project, in the order of their text

ASSUME KeysAssumption == /\ Keys \in Seq(Seq(STRING) \ {<<>>})
                         /\ \A i, j \in DOMAIN Keys : Keys[i] = Keys[j] => i = j

Before(k, l) == (CHOOSE i \in DOMAIN Keys : Keys[i] = k) < (CHOOSE i \in DOMAIN Keys : Keys[i] = l)

\* The key a reference names: exact, or the shortest and then the first that ends with it.
ResolveKey(templates, target) ==
  LET tails == {k \in DOMAIN templates : Len(k) > Len(target) /\ IsSuffix(target, k)}
      better(k, l) == Len(k) < Len(l) \/ (Len(k) = Len(l) /\ Before(k, l))
  IN  IF target \in DOMAIN templates THEN {target}
      ELSE {k \in tails : \A l \in tails \ {k} : better(k, l)}

GetByRef(templates, target) == {templates[k] : k \in ResolveKey(templates, target)}

\* TemplateIndex::extends: dynamic ones do not count.
Extends(facts) == Some(facts.templateRefs, LAMBDA r : r.kind = "extends" /\ ~r.isDynamic)

\* The templates from key up to the root; a key met again ends the walk.
TemplateChain(templates, key) ==
  LET walk[chain \in Seq(Seq(STRING))] ==
        [path \in Seq(STRING) |->
          LET next == ResolveKey(templates, path) \ Elements(chain)
              k == Only(next)
              parent == Extends(templates[k])
          IN  IF next = {} THEN chain
              ELSE IF parent = {} THEN Append(chain, k)
              ELSE walk[Append(chain, k)][Only(parent).path]]
  IN  walk[<<>>][key]

MacroNamed(facts, name) == Some(facts.macros, LAMBDA m : m.name = name)
BlockNamed(facts, name) == Some(facts.blocks, LAMBDA b : b.name = name)

\* A macro with the template that defines it.
At(key, macros) == {[key |-> key, macro |-> m] : m \in macros}

\* The first template in key order that defines the macro.
FindMacroWithPath(templates, name) ==
  LET owners == {k \in DOMAIN templates : MacroNamed(templates[k], name) # {}}
      first == {k \in owners : \A o \in owners \ {k} : Before(k, o)}
  IN  UNION {At(k, MacroNamed(templates[k], name)) : k \in first}

Effective(imported) == IF imported.alias = None THEN imported.name ELSE imported.alias

(***************************************************************************)
(* resolve_reference.                                                      *)
(***************************************************************************)
InnermostBinding(facts, ref) ==
  SmallestFirst(facts.variables, LAMBDA v : v.name = ref.name /\ Covers(v.validRange, ref.span),
                LAMBDA v : Length(v.validRange))

\* What a from-import statement gives under a name: the name it has there, or itself.
ImportedAs(fi, name) ==
  LET given == Some(fi.names, LAMBDA n : Effective(n) = name)
  IN  IF given = {} THEN name ELSE Only(given).name

Imports(fi, name) == \E n \in Elements(fi.names) : Effective(n) = name \/ n.name = name

\* The macro of a from-import whose source has it under the imported name.
Imported(templates, fi, name) ==
  UNION {At(k, MacroNamed(templates[k], name)) : k \in ResolveKey(templates, fi.source)}

ImportedMacro(templates, facts, name) ==
  UNION {Imported(templates, fi, ImportedAs(fi, name)) :
           fi \in Some(facts.fromImports, LAMBDA f :
             Imports(f, name) /\ Imported(templates, f, ImportedAs(f, name)) # {})}

\* The macro a call names: local, imported, or anywhere in the workspace.
CalledMacro(templates, key, name) ==
  LET facts == templates[key]
      local == At(key, MacroNamed(facts, name))
      imported == ImportedMacro(templates, facts, name)
  IN  IF local # {} THEN local
      ELSE IF imported # {} THEN imported
      ELSE FindMacroWithPath(templates, name)

\* TRUE when the reference binds to nothing of the project.
HostOwned(templates, key, ref) ==
  CASE ref.kind = "identifier" -> InnermostBinding(templates[key], ref) = {}
    [] ref.kind = "function" -> CalledMacro(templates, key, ref.name) = {}
    [] OTHER -> TRUE

(***************************************************************************)
(* enclosing_owner: the smallest macro or block body around a span.        *)
(***************************************************************************)
EnclosingOwner(facts, span) ==
  LET around(definitions) == {d \in Elements(definitions) : Covers(d.body, span)}
      smallest(definitions) == Some(definitions, LAMBDA d :
        d \in around(definitions) /\ \A e \in around(definitions) : Length(d.body) <= Length(e.body))
      macro == smallest(facts.macros)
      block == smallest(facts.blocks)
  IN  IF macro = {} /\ block = {} THEN [kind |-> "template"]
      ELSE IF block = {} \/ (macro # {} /\ Length(Only(macro).body) <= Length(Only(block).body))
      THEN [kind |-> "macro", definition |-> Only(macro)]
      ELSE [kind |-> "block", definition |-> Only(block)]
=============================================================================
