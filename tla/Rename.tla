------------------------------- MODULE Rename -------------------------------
(***************************************************************************)
(* The rename command (src/features/rename.rs, jinja-lsp.rename in         *)
(* src/server/mod.rs): what is renamed from a cursor, when it is refused,  *)
(* and the edits.  An edit is the place of one identifier token.           *)
(***************************************************************************)
EXTENDS Navigation

Target(kind, name, scope) == {[kind |-> kind, name |-> name, scope |-> scope]}
LocalTarget(facts, name, byte) ==
  Target("local", name, {v.validRange : v \in TightestBinding(facts, name, byte)})

RenameAtCursor(text, facts, cursor) ==
  LET byte == Byte(cursor)
      name == Word(text, cursor)
      used == {r \in Some(UsesAt(facts, byte), LAMBDA r : TRUE) : r.kind = "identifier"}
  IN  FirstFound(<<
        IF MacroNamed(facts, name) # {} \/ BlockNamed(facts, name) # {}
        THEN Target("workspace", name, {}) ELSE {},
        UNION {LocalTarget(facts, r.name, byte) : r \in used},
        IF \E v \in Elements(facts.variables) : v.name = name
        THEN LocalTarget(facts, name, byte) ELSE {} >>)

\* A local target without a binding reaches over the whole file.
HasCollision(facts, newName, scope) ==
  \E v \in Elements(facts.variables) :
    /\ v.name = newName
    /\ IF scope = {} THEN v.validRange.hi > 0
       ELSE \A s \in scope : v.validRange.lo < s.hi /\ v.validRange.hi > s.lo

Refused(facts, target, newName) ==
  target.kind = "local" /\ HasCollision(facts, newName, target.scope)

IsInBlockFamily(templates, key, other) ==
  \/ other = key
  \/ other \in Elements(TemplateChain(templates, key))
  \/ key \in Elements(TemplateChain(templates, other))

\* Mutant: the names of from-imports stay.
RenameWithoutImports(facts, name, allowBlocks) ==
  {DefinitionName(d) : d \in {m \in Elements(facts.macros) : m.name = name}} \cup AllReads(facts, name)

RenameInIndex(facts, name, allowBlocks) ==
  LET named(definitions) == {d \in Elements(definitions) : d.name = name}
      blocks == IF allowBlocks THEN named(facts.blocks) ELSE {}
  IN  UNION {{DefinitionName(m) : m \in named(facts.macros)},
             {DefinitionName(b) : b \in blocks},
             {b.endName : b \in {c \in blocks : NonEmpty(c.endName)}},
             AllReads(facts, name),
             UNION {{n.span : n \in {i \in Elements(fi.names) : i.name = name}} :
                      fi \in Elements(facts.fromImports)}}

RenameScoped(facts, name, scope) ==
  {s \in AllReads(facts, name) : \A r \in scope : r.lo <= s.lo /\ s.lo <= r.hi}

\* A template whose text the server has not (one that was scanned and never opened) is skipped.
ComputeRename(templates, sources, key, target) ==
  LET others == {k \in sources \ {key} : ~Shadows(templates[k], target.name)}
      inOther(k) == RenameInIndex(templates[k], target.name, IsInBlockFamily(templates, key, k))
      at(k, spans) == {Place(k, s) : s \in spans}
  IN  IF target.kind = "local"
      THEN at(key, RenameScoped(templates[key], target.name, target.scope))
      ELSE at(key, RenameInIndex(templates[key], target.name, TRUE))
           \cup UNION {at(k, inOther(k)) : k \in others}

\* The client applies every edit to its own copy of the text.
Retoken(tag, edited, name) ==
  [tag EXCEPT
     !.names = [k \in DOMAIN tag.names |-> IF k \in edited THEN name ELSE tag.names[k]],
     !.aliases = [k \in DOMAIN tag.aliases |->
                   IF Len(tag.names) + k \in edited THEN name ELSE tag.aliases[k]]]

Renamed(text, spans, name) ==
  [i \in DOMAIN text |->
    Retoken(text[i], {TokenOf(s.lo) : s \in {e \in spans : TagOf(e.lo) = i}}, name)]

ApplyEdits(texts, edits, name) ==
  [k \in DOMAIN texts |-> Renamed(texts[k], {e.span : e \in {p \in edits : p.key = k}}, name)]
=============================================================================
