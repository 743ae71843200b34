----------------------------- MODULE Navigation -----------------------------
(***************************************************************************)
(* The read-only features that start from a symbol (src/features/):        *)
(* go to definition, find references, document highlight, call hierarchy   *)
(* and code lenses.  Each is its own walk over the facts, with its own     *)
(* copy of how a name is resolved.  A cursor is on an identifier token:    *)
(* [key, tag, token].                                                      *)
(***************************************************************************)
EXTENDS Checks

Place(key, span) == [key |-> key, span |-> span]
Byte(cursor) == Name(cursor.tag, cursor.token).lo
Here(cursor) == Name(cursor.tag, cursor.token)
Word(text, cursor) == Token(text[cursor.tag], cursor.token)
UsesAt(facts, byte) == Satisfying(facts.references, LAMBDA r : ByteIn(byte, r.span))
Uses(facts, name) == {r \in Refs(facts, {"identifier", "function"}) : r.name = name}
Shadows(facts, name) == MacroNamed(facts, name) # {}

\* Mutant: the first binding around the byte, not the narrowest.
FirstBinding(facts, name, byte) ==
  Some(facts.variables, LAMBDA v :
    v.name = name /\ NonEmpty(v.validRange) /\ v.validRange.lo <= byte /\ byte <= v.validRange.hi)

\* The narrowest binding of the name around a byte, the end of its range included.
TightestBinding(facts, name, byte) ==
  SmallestFirst(facts.variables,
                LAMBDA v : v.name = name /\ NonEmpty(v.validRange)
                           /\ v.validRange.lo <= byte /\ byte <= v.validRange.hi,
                LAMBDA v : Length(v.validRange))

(***************************************************************************)
(* Definition.                                                             *)
(***************************************************************************)
BlockInChain(templates, chain, name) ==
  UNION {{Place(k, b.span) : b \in BlockNamed(templates[k], name)} :
           k \in Some(chain, LAMBDA c : BlockNamed(templates[c], name) # {})}

AboveBlock(templates, facts, name) ==
  UNION {BlockInChain(templates, TemplateChain(templates, r.path), name) : r \in Extends(facts)}

ResolveSelfBlock(templates, key, name) ==
  FirstFound(<< {Place(key, b.span) : b \in BlockNamed(templates[key], name)},
                AboveBlock(templates, templates[key], name) >>)

ResolveSuper(templates, key, byte) ==
  LET within == Some(templates[key].blocks, LAMBDA b : ByteIn(byte, b.body))
  IN  UNION {AboveBlock(templates, templates[key], b.name) : b \in within}

\* The first import of the name decides, also when its source has no such macro.
ImportedDefinition(templates, facts, name) ==
  LET fis == Some(facts.fromImports, LAMBDA f :
               \E n \in Elements(f.names) : n.name = name \/ n.alias = name)
      imported(fi) == Some(fi.names, LAMBDA n : n.name = name \/ n.alias = name)
  IN  UNION {UNION {{Place(m.key, m.macro.span) : m \in Imported(templates, fi, n.name)} :
                      n \in imported(fi)} : fi \in fis}

ResolveIdent(templates, key, name, byte) ==
  LET facts == templates[key]
      found == FirstFound(<<
        {Place(key, m.span) : m \in MacroNamed(facts, name)},
        ImportedDefinition(templates, facts, name),
        {Place(key, a.span) : a \in Some(facts.importAliases, LAMBDA i : i.alias = name)} >>)
      binding == SmallestFirst(facts.variables,
                               LAMBDA v : v.name = name /\ ByteIn(byte, v.validRange),
                               LAMBDA v : Length(v.validRange))
  IN  IF name = "super" THEN ResolveSuper(templates, key, byte)
      ELSE IF found # {} THEN found
      ELSE IF IsHostOwned(name) THEN {}
      ELSE {Place(key, v.span) : v \in binding}

ResolveAliasAttr(templates, facts, parent, attr) ==
  UNION {UNION {{Place(k, m.span) : m \in MacroNamed(templates[k], attr)} :
                  k \in ResolveKey(templates, a.source)} :
           a \in Some(facts.importAliases, LAMBDA i : i.alias = parent)}

\* Blocks: the nearest ancestor that declares the block the cursor is in the tag of.
OverriddenBlock(templates, key, byte) ==
  LET chain == TemplateChain(templates, key)
  IN  UNION {BlockInChain(templates, Tail(chain), b.name) :
               b \in Some(templates[key].blocks, LAMBDA c : ByteIn(byte, c.span))}

GoToDefinition(texts, templates, cursor) ==
  LET key == cursor.key
      facts == templates[key]
      tag == texts[key][cursor.tag]
      name == Word(texts[key], cursor)
      kinds == {r.kind : r \in Elements(UsesAt(facts, Byte(cursor)))}
      plain == IF kinds \cap {"function", "identifier"} = {} THEN {}
               ELSE ResolveIdent(templates, key, name, Byte(cursor))
      member == IF "attribute" \notin kinds THEN {}
                ELSE IF tag.names[1] = "self" THEN ResolveSelfBlock(templates, key, name)
                ELSE ResolveAliasAttr(templates, facts, tag.names[1], name)
      afterSelf == tag.kind = "invoke_member" /\ tag.names[1] = "self" /\ cursor.token = 2
  IN  IF kinds \cap {"filter", "test"} # {} THEN {}
      ELSE IF plain \cup member # {} THEN FirstFound(<<plain, member>>)
      ELSE IF afterSelf THEN ResolveSelfBlock(templates, key, name)
      ELSE FirstFound(<<ImportedDefinition(templates, facts, name),
                        OverriddenBlock(templates, key, Byte(cursor))>>)

(***************************************************************************)
(* References.  A symbol is a macro (of a template), a block, an import    *)
(* alias or a scope-local variable; nothing for what the host owns.        *)
(***************************************************************************)
Symbol(kind, name, places, scope) == {[kind |-> kind, name |-> name, places |-> places, scope |-> scope]}
MacroSymbol(name, key, span) == Symbol("macro", name, {Place(key, span)}, {})
LocalSymbol(facts, name, byte) ==
  Symbol("local", name, {}, {v.validRange : v \in TightestBinding(facts, name, byte)})

\* An import whose source or macro is unknown still names a macro, with no definition to show.
ImportedSymbol(templates, facts, name) ==
  LET fis == Some(facts.fromImports, LAMBDA f :
               \E n \in Elements(f.names) : n.name = name \/ n.alias = name)
      source(fi) == FirstFound(<<ResolveKey(templates, fi.source), {fi.source}>>)
      imported(fi) == Some(fi.names, LAMBDA n : n.name = name \/ n.alias = name)
      defined(fi) == UNION {Imported(templates, fi, n.name) : n \in imported(fi)}
      span(fi) == IF defined(fi) = {} THEN NoSpan ELSE Only(defined(fi)).macro.span
  IN  UNION {UNION {MacroSymbol(name, k, span(fi)) : k \in source(fi)} : fi \in fis}

ClassifyReference(templates, key, name, byte) ==
  LET facts == templates[key]
  IN  FirstFound(<<
        UNION {MacroSymbol(name, key, m.span) : m \in MacroNamed(facts, name)},
        ImportedSymbol(templates, facts, name),
        IF name \in AliasNames(facts) THEN Symbol("alias", name, {}, {}) ELSE {},
        IF \E v \in Elements(facts.variables) : v.name = name
        THEN LocalSymbol(facts, name, byte) ELSE {} >>)

SymbolAt(texts, templates, cursor) ==
  LET key == cursor.key
      facts == templates[key]
      byte == Byte(cursor)
      name == Word(texts[key], cursor)
  IN  IF UsesAt(facts, byte) # <<>> THEN ClassifyReference(templates, key, name, byte)
      ELSE FirstFound(<<
        UNION {MacroSymbol(m.name, key, m.span) :
                 m \in Some(facts.macros, LAMBDA d : ByteIn(byte, d.span))},
        UNION {Symbol("block", b.name, {}, {}) :
                 b \in Some(facts.blocks, LAMBDA d : ByteIn(byte, d.span))},
        IF name \in AliasNames(facts) THEN Symbol("alias", name, {}, {}) ELSE {},
        IF \E v \in Elements(facts.variables) : v.name = name
        THEN LocalSymbol(facts, name, byte) ELSE {} >>)

\* Mutant: a template that defines the macro is skipped, also the one asked about.
UsesElsewhere(templates, name, definedIn) ==
  UNION {{Place(k, r.span) : r \in Uses(templates[k], name)} :
           k \in {t \in DOMAIN templates : ~Shadows(templates[t], name)}}
\* Mutant: only the template that defines the macro is searched.
UsesHere(templates, name, definedIn) ==
  {Place(definedIn, r.span) : r \in Uses(templates[definedIn], name)}

MacroUses(templates, name, definedIn) ==
  UNION {{Place(k, r.span) : r \in Uses(templates[k], name)} :
           k \in {t \in DOMAIN templates : t = definedIn \/ ~Shadows(templates[t], name)}}

\* The alias is looked for in the text: its uses in front of a dot are not references.
AliasTokens(text, key, name) ==
  {Place(key, Name(t[1], t[2])) : t \in
     {p \in (DOMAIN text) \X (1 .. Width - 3) :
        p[2] \in Tokens(text[p[1]]) /\ Token(text[p[1]], p[2]) = name}}

LocalReferences(facts, key, symbol, includeDeclaration) ==
  LET inScope(span) == \A s \in symbol.scope : s.lo <= span.lo /\ span.lo <= s.hi
      declared == Some(facts.variables, LAMBDA v :
                    v.name = symbol.name /\ \A s \in symbol.scope : v.validRange = s)
  IN  {Place(key, r.span) : r \in {u \in Uses(facts, symbol.name) : inScope(u.span)}}
      \cup {Place(key, v.span) : v \in {d \in declared : includeDeclaration}}

AliasReferences(text, facts, key, name, includeDeclaration) ==
  LET entry == Some(facts.importAliases, LAMBDA a : a.alias = name)
      declaration == {Place(key, a.aliasSpan) : a \in entry}
      found == {Place(key, r.span) : r \in {u \in Refs(facts, {"identifier"}) : u.name = name}}
               \cup AliasTokens(text, key, name)
  IN  IF includeDeclaration THEN found \cup {Place(key, a.span) : a \in entry}
      ELSE found \ declaration

FindReferences(texts, templates, cursor, includeDeclaration) ==
  LET key == cursor.key
      facts == templates[key]
      symbols == SymbolAt(texts, templates, cursor)
      symbol == Only(symbols)
      macros == MacroUses(templates, symbol.name, Only(symbol.places).key)
      blocks == UNION {{Place(k, b.span) :
                         b \in {c \in Elements(templates[k].blocks) :
                                  c.name = symbol.name /\ (includeDeclaration \/ k # key)}} :
                       k \in DOMAIN templates}
  IN  IF symbols = {} THEN {}
      ELSE CASE symbol.kind = "macro" -> macros \cup {p \in symbol.places : includeDeclaration}
             [] symbol.kind = "block" -> blocks
             [] symbol.kind = "alias" ->
                  AliasReferences(texts[key], facts, key, symbol.name, includeDeclaration)
             [] symbol.kind = "local" -> LocalReferences(facts, key, symbol, includeDeclaration)

(***************************************************************************)
(* Document highlight: at most one write and the reads of the name.        *)
(***************************************************************************)
DefinitionName(d) == Span(d.span.lo + 1, d.span.lo + 2)
Highlighted(writes, reads) == [writes |-> writes, reads |-> reads]
AllReads(facts, name) == {r.span : r \in Uses(facts, name)}

\* The parameter of the first macro whose body is around the byte, with its reads in that body.
HighlightParameter(facts, name, byte) ==
  LET macros == Some(facts.macros, LAMBDA m :
                  /\ m.body.lo <= byte /\ byte <= m.body.hi
                  /\ \E p \in Elements(m.parameters) : p.name = name)
      param(m) == Some(m.parameters, LAMBDA p : p.name = name)
      reads(m) == {s \in AllReads(facts, name) : m.body.lo <= s.lo /\ s.hi <= m.body.hi}
  IN  {Highlighted({p.span : p \in param(m)}, reads(m)) : m \in macros}

HighlightUse(facts, name, byte) ==
  LET reads == AllReads(facts, name)
      with(writes) == {Highlighted(writes, reads)}
      binding == SmallestFirst(facts.variables,
                               LAMBDA v : v.name = name /\ v.validRange.lo <= byte /\ byte <= v.validRange.hi,
                               LAMBDA v : Length(v.validRange))
      imported == \E fi \in Elements(facts.fromImports) : \E n \in Elements(fi.names) : n.name = name
  IN  FirstFound(<<
        UNION {with({DefinitionName(m)}) : m \in MacroNamed(facts, name)},
        UNION {with({DefinitionName(b)}) : b \in BlockNamed(facts, name)},
        HighlightParameter(facts, name, byte),
        IF \E v \in Elements(facts.variables) : v.name = name
        THEN with({v.span : v \in binding}) ELSE {},
        UNION {with({a.span}) : a \in Some(facts.importAliases, LAMBDA i : i.alias = name)},
        IF imported THEN with({}) ELSE {} >>)

DocumentHighlight(text, facts, cursor) ==
  LET byte == Byte(cursor)
      name == Word(text, cursor)
      header(definitions) == Some(definitions, LAMBDA d : d.name = name /\ ByteIn(byte, d.span))
      onHeader == FirstFound(<<header(facts.macros), header(facts.blocks)>>)
      bound == name \in AliasNames(facts) \/ \E v \in Elements(facts.variables) : v.name = name
  IN  IF onHeader # {}
      THEN {Highlighted({DefinitionName(d)}, AllReads(facts, name)) : d \in onHeader}
      ELSE IF IsHostOwned(name) THEN {}
      ELSE IF UsesAt(facts, byte) # <<>> THEN HighlightUse(facts, name, byte)
      ELSE IF bound THEN {Highlighted({Here(cursor)}, AllReads(facts, name))} ELSE {}

(***************************************************************************)
(* Call hierarchy.  An item is a macro of a template, or a template.       *)
(***************************************************************************)
Item(kind, name, key) == [kind |-> kind, name |-> name, key |-> key]

ResolveMacroItem(templates, key, name) ==
  LET facts == templates[key]
      defined(fi) == UNION {Imported(templates, fi, n.name) :
                       n \in Some(fi.names, LAMBDA i : i.name = name \/ i.alias = name)}
      macro == FirstFound(<<At(key, MacroNamed(facts, name)),
                            UNION {defined(fi) : fi \in Some(facts.fromImports, LAMBDA f : defined(f) # {})},
                            FindMacroWithPath(templates, name)>>)
  IN  {Item("macro", m.macro.name, m.key) : m \in macro}

PrepareCallHierarchy(text, templates, cursor) ==
  LET facts == templates[cursor.key]
      used == Some(facts.references, LAMBDA r :
                r.kind \in {"function", "identifier"} /\ ByteIn(Byte(cursor), r.span))
  IN  IF used # {} THEN ResolveMacroItem(templates, cursor.key, Only(used).name)
      ELSE {Item("macro", m.name, cursor.key) :
              m \in Some(facts.macros, LAMBDA d : ByteIn(Byte(cursor), d.span))}

Caller(facts, key, span) ==
  LET owner == EnclosingOwner(facts, span)
  IN  IF owner.kind = "macro" THEN Item("macro", owner.definition.name, key)
      ELSE Item("template", "", key)

\* Calls are pairs of the other end and the place of one use.
IncomingCalls(templates, item) ==
  {[from |-> Caller(templates[p.key], p.key, p.span), at |-> p] :
     p \in MacroUses(templates, item.name, item.key)}

\* What a use leads to from the body of a macro: a macro, or a function of the registry.
Callee(templates, key, name) ==
  FirstFound(<<
    {Item("macro", m.name, key) : m \in MacroNamed(templates[key], name)},
    {Item("macro", m.macro.name, m.key) : m \in FindMacroWithPath(templates, name)},
    {Item("global", n, <<>>) : n \in {name} \cap Registry.function} >>)

CallsInBody(templates, key, m) ==
  UNION {{[to |-> i, at |-> Place(key, r.span)] : i \in Callee(templates, key, r.name)} :
           r \in {u \in Refs(templates[key], {"function", "identifier"}) : Covers(m.body, u.span)}}

LoadsInBody(templates, key, m) ==
  {[to |-> Item("template", "", r.path), at |-> Place(key, r.span)] :
     r \in {t \in Elements(templates[key].templateRefs) :
              /\ t.kind \in {"include", "import"} /\ ~t.isDynamic /\ ~t.ignoreMissing
              /\ Covers(m.body, t.span)}}

OutgoingCalls(templates, item) ==
  UNION {CallsInBody(templates, item.key, m) \cup LoadsInBody(templates, item.key, m) :
           m \in MacroNamed(templates[item.key], item.name)}

(***************************************************************************)
(* Code lenses: what resolving one looks up, and jumps to.                 *)
(***************************************************************************)
SymbolExists(templates, key, kind, name) ==
  key \in DOMAIN templates
  /\ IF kind = "macro" THEN MacroNamed(templates[key], name) # {}
     ELSE BlockNamed(templates[key], name) # {}

AncestorBlock(templates, key, name) ==
  LET chain == TemplateChain(templates, key)
  IN  IF chain = <<>> THEN {} ELSE BlockInChain(templates, Tail(chain), name)

\* Mutant: only the templates that extend this one directly.
ChildOverrides(templates, key, name) ==
  UNION {{Place(k, b.span) : b \in BlockNamed(templates[k], name)} :
           k \in {t \in DOMAIN templates \ {key} :
                    key \in UNION {ResolveKey(templates, r.path) : r \in Extends(templates[t])}}}

DescendantOverrides(templates, key, name) ==
  UNION {{Place(k, b.span) : b \in BlockNamed(templates[k], name)} :
           k \in {t \in DOMAIN templates \ {key} : key \in Elements(TemplateChain(templates, t))}}

LensTargets(templates, key, kind, name, lens) ==
  CASE kind = "macro" /\ lens = "references" -> MacroUses(templates, name, key)
    [] kind = "block" /\ lens = "overrides" -> AncestorBlock(templates, key, name)
    [] kind = "block" /\ lens # "overrides" -> DescendantOverrides(templates, key, name)
    [] OTHER -> {}

\* The number of the title; none is shown for a symbol that is gone, or that nothing uses.
ReferenceCount(templates, key, kind, name) ==
  IF SymbolExists(templates, key, kind, name)
  THEN Cardinality(LensTargets(templates, key, kind, name, "references")) ELSE 0
=============================================================================
