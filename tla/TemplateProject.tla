--------------------------- MODULE TemplateProject ---------------------------
(***************************************************************************)
(* Templates being written: every edit re-extracts the facts of its file   *)
(* (index_file_into in src/server/state.rs), and a rename command edits    *)
(* every file it names.  All checks and navigation features are functions  *)
(* of the texts and the index, so the properties compare what they say in  *)
(* every reachable project.                                                *)
(***************************************************************************)
EXTENDS Rename

CONSTANTS
  Vocabulary,  \* the tags that may be typed in each template
  MaxTags,     \* bound on the length of each template
  FreeTags,    \* up to this length it is any sequence of its tags
  NewNames,    \* the names a symbol may be renamed to
  OpenSets     \* the sets of templates whose text the server may have when it renames

VARIABLES texts, index
vars == <<texts, index>>

Templates == Elements(Keys)

\* The tags that name what they use, bind or define.
NamingKinds ==
  {"print", "get", "filtered", "tested", "invoke", "invoke_in", "invoke_member", "set", "set_block", "for",
   "block", "named_endblock", "import", "from"}

\* What can be written in a tag: the names fit, and a macro has parameters of different names, of
\* which the last ones have a default.
Written(tag) ==
  /\ tag \in [kind : STRING, names : Seq(STRING), aliases : Seq(STRING), target : Seq(STRING),
              count : Nat, flags : SUBSET STRING]
  /\ Len(tag.names) + Len(tag.aliases) <= Width - 3
  /\ None \notin Elements(tag.names)
  /\ tag.kind \in NamingKinds => tag.names # <<>>
  /\ tag.kind \in {"get", "invoke_member"} => Len(tag.names) > 1
  /\ tag.kind = "call" => Len(tag.aliases) = 1 /\ tag.aliases[1] # None
  /\ tag.kind = "macro" =>
       /\ tag.count < Len(tag.names)
       /\ \A i, j \in 2 .. Len(tag.names) : tag.names[i] = tag.names[j] => i = j

ASSUME TextAssumption ==
  /\ \A k \in Templates : MaxTags[k] \in Nat /\ \A tag \in Vocabulary[k] : Written(tag)
  /\ NewNames \subseteq STRING \ {None}
  /\ OpenSets \subseteq SUBSET Templates

Init ==
  /\ texts = [k \in Templates |-> <<>>]
  /\ index = [k \in Templates |-> Extract(<<>>)]

\* Mutant: the text of the edit is stored, its facts are not extracted.
UpdateTextOnly(key, text) ==
  texts' = [texts EXCEPT ![key] = text] /\ UNCHANGED index

UpdateFile(key, text) ==
  /\ texts' = [texts EXCEPT ![key] = text]
  /\ index' = [index EXCEPT ![key] = Extract(text)]

(***************************************************************************)
(* Nesting: every opening tag has the partner that balances it.            *)
(***************************************************************************)
ClosedKind(tag) ==
  IF tag.kind \in DOMAIN Closes THEN Closes[tag.kind]
  ELSE IF tag.kind = "named_endblock" THEN "block" ELSE None
Openers(text) == Tags(text, ScopeKinds)
Closers(text) == {i \in DOMAIN text : ClosedKind(text[i]) # None}

Balancing(text, i) ==
  {j \in i + 1 .. Len(text) : Cardinality(Openers(text) \cap i .. j) = Cardinality(Closers(text) \cap i .. j)}
Partner(text, i) == CHOOSE j \in Balancing(text, i) : \A h \in Balancing(text, i) : j <= h

\* Every end tag ends what is opened by its partner, and some tags may still be open.
EndsItsOwn(text, i, j) ==
  /\ ClosedKind(text[j]) = text[i].kind
  /\ text[j].kind = "named_endblock" => text[j].names[1] = text[i].names[1]
Orderly(text) ==
  /\ \A j \in Closers(text) : \E i \in Openers(text) : Balancing(text, i) # {} /\ Partner(text, i) = j
  /\ \A i \in Openers(text) : Balancing(text, i) # {} => EndsItsOwn(text, i, Partner(text, i))

\* Bounds: nothing is typed after a rename, and beyond FreeTags only an orderly text is continued.
Renaming == \E k \in Templates : ~(Elements(texts[k]) \subseteq Vocabulary[k])
Type(key, tag) ==
  /\ Len(texts[key]) < MaxTags[key]
  /\ Len(texts[key]) >= FreeTags => Orderly(texts[key])
  /\ ~Renaming
  /\ UpdateFile(key, Append(texts[key], tag))

\* The server has the text of the templates that were opened or changed since it started (sources).
RenameSymbol(cursor, newName, sources) ==
  /\ cursor.key \in sources
  /\ \E target \in RenameAtCursor(texts[cursor.key], index[cursor.key], cursor) :
    /\ ~Refused(index[cursor.key], target, newName)
    /\ LET edits == ComputeRename(index, sources, cursor.key, target)
       IN  /\ edits # {}
           /\ texts' = ApplyEdits(texts, edits, newName)
           /\ index' = [k \in Templates |-> Extract(texts'[k])]

CursorsIn(key) ==
  {[key |-> key, tag |-> t[1], token |-> t[2]] : t \in
     {p \in (DOMAIN texts[key]) \X (1 .. Width - 3) : p[2] \in Tokens(texts[key][p[1]])}}
Cursors == UNION {CursorsIn(k) : k \in Templates}

Next ==
  \/ \E k \in Templates : \E tag \in Vocabulary[k] : Type(k, tag)
  \/ \E c \in Cursors, n \in NewNames, sources \in OpenSets : RenameSymbol(c, n, sources)

Spec == Init /\ [][Next]_vars

TypeOK ==
  /\ DOMAIN texts = Templates
  /\ \A k \in Templates : Len(texts[k]) <= MaxTags[k] /\ index[k] = Extract(texts[k])

(***************************************************************************)
(* Reference semantics: a name means its latest binding that is still live *)
(* where it is used.                                                       *)
(***************************************************************************)
\* Every opening tag has its end and every end tag its opening one.
WellNested(text) == Orderly(text) /\ \A i \in Openers(text) : Balancing(text, i) # {}

\* Well nested and without error nodes.
Intact(text) == WellNested(text) /\ Tags(text, ErrorKinds) = {}

\* The error node of a set without a value may take what is behind it with it.
Readable(text) == Tags(text, {"set_block"}) = {}

Around(text, i) == {j \in Openers(text) : j < i /\ i < Partner(text, j)}
Latest(set) == {i \in set : \A j \in set : j <= i}

LiveAt(text, i, use) ==
  /\ i < use
  /\ IF text[i].kind \in {"for", "with"} THEN use < Partner(text, i)
     ELSE \A scope \in Around(text, i) : use < Partner(text, scope)

MeantBy(text, use, name) ==
  Latest({i \in Tags(text, {"set", "set_block", "for", "with"}) :
            name \in Elements(text[i].names) /\ LiveAt(text, i, use)})

\* In a well nested template without error nodes an identifier resolves to the latest binding
\* that is still live where it is used (REQ-DATA-11), although scopes come from a stack over flat
\* tags, ranges from offsets and the list of variables is not in document order.
BindingsAreLexical ==
  \A k \in Templates :
    Intact(texts[k]) =>
      \A r \in Refs(index[k], {"identifier"}) :
        {TagOf(v.span.lo) : v \in InnermostBinding(index[k], r)}
          = MeantBy(texts[k], TagOf(r.span.lo), r.name)

\* What else gives a name a meaning in a template: its macros and imports, the registry and the hints.
DefinedApart(key, name) ==
  \/ name \in MacroNames(index[key]) \cup AliasNames(index[key]) \cup EffectiveNames(index[key])
  \/ name \in Registry.variable \/ HintApplies(key, name)

\* A parameter of a macro around tag i.
IsParameterAt(text, i, name) ==
  \E j \in Around(text, i) \cap Tags(text, {"macro"}) : name \in Elements(Tail(text[j].names))

\* In such a template the undefined identifiers reported are those without a live binding that are
\* no parameter of a macro around them and that nothing else defines.
UndefinedIsReported ==
  \A k \in Templates :
    Intact(texts[k]) =>
      \A i \in Tags(texts[k], {"print"}) :
        LET name == texts[k][i].names[1]
        IN  Finding("E101", Name(i, 1)) \in RunChecks(texts[k], index, k)
              <=> MeantBy(texts[k], i, name) = {} /\ ~IsParameterAt(texts[k], i, name) /\ ~DefinedApart(k, name)

\* A loop or with binding lives exactly in its own body, also when blocks around or inside it are
\* closed by named endblocks, which leave stale entries on the scope stack.
LoopsKeepTheirBody ==
  \A k \in Templates : WellNested(texts[k]) /\ Readable(texts[k]) =>
    \A v \in Elements(index[k].variables) :
      LET i == TagOf(v.span.lo)
      IN  texts[k][i].kind \in {"for", "with"} =>
            v.validRange = Span(TagEnd(i), TagStart(Partner(texts[k], i)))

\* The owner of a use is the innermost macro or block around it, when the blocks of the template
\* are closed in one way, all by name or all without.
OwnersAreInnermost ==
  \A k \in Templates :
    WellNested(texts[k]) /\ Readable(texts[k])
      /\ (Tags(texts[k], {"endblock"}) = {} \/ Tags(texts[k], ErrorKinds) = {}) =>
      \A r \in Elements(index[k].references) :
        LET owner == EnclosingOwner(index[k], r.span)
            meant == Latest(Around(texts[k], TagOf(r.span.lo)) \cap Tags(texts[k], {"macro", "block"}))
        IN  IF meant = {} THEN owner.kind = "template"
            ELSE owner.kind # "template" /\ TagOf(owner.definition.span.lo) = Only(meant)

\* What the extractor recovers from flat tags is nesting: of bindings, of loops and of owners.
ScopesAreLexical == BindingsAreLexical /\ LoopsKeepTheirBody /\ OwnersAreInnermost

\* The name is imported under another one, and so is not bound in the template.
ImportedElsewise(key, name) ==
  \E fi \in Elements(index[key].fromImports) :
    \E n \in Elements(fi.names) : n.name = name /\ Effective(n) # name

\* Definition, highlight, references and rename, which each search the bindings themselves, select
\* the binding an identifier resolves to, wherever the name is only that of variables and is read as
\* nothing else, and a rename reaches every use that resolves to it.
FeaturesAgreeOnBinding ==
  \A k \in Templates : \A c \in CursorsIn(k) :
    LET name == Word(texts[k], c)
        facts == index[k]
        uses == Elements(UsesAt(facts, Byte(c)))
        onlyVariable == /\ name \notin MacroNames(facts) \cup EffectiveNames(facts) \cup AliasNames(facts)
                        /\ BlockNamed(facts, name) = {} /\ ~IsHostOwned(name) /\ ~ImportedElsewise(k, name)
                        /\ name # "super" /\ \A u \in uses : u.kind = "identifier"
    IN  \A r \in uses :
          onlyVariable /\ ~IsParameter(facts, r) =>
            \A v \in InnermostBinding(facts, r) :
              /\ GoToDefinition(texts, index, c) = {Place(k, v.span)}
              /\ \A h \in DocumentHighlight(texts[k], facts, c) : h.writes = {v.span}
              /\ {Place(k, v.span), Place(k, r.span)} \subseteq FindReferences(texts, index, c, TRUE)
              /\ \A t \in RenameAtCursor(texts[k], facts, c) :
                   /\ t.scope = {v.validRange}
                   /\ {Place(k, u.span) : u \in {q \in Refs(facts, {"identifier"}) : InnermostBinding(facts, q) = {v}}}
                        \subseteq ComputeRename(index, {k}, k, t)

(***************************************************************************)
(* Calls.                                                                  *)
(***************************************************************************)
\* Python's rule for matching arguments to parameters.
Filled(macro, call) == {macro.parameters[i].name : i \in 1 .. call.positional} \cup Elements(call.keywords)
Doubled(macro, call) ==
  \E i \in DOMAIN macro.parameters : i <= call.positional /\ macro.parameters[i].name \in Elements(call.keywords)
Binds(macro, call) ==
  /\ call.positional <= Len(macro.parameters)
  /\ Elements(call.keywords) \subseteq {p.name : p \in Elements(macro.parameters)}
  /\ \A p \in Elements(macro.parameters) : p.required => p.name \in Filled(macro, call)

\* E501 is reported exactly for the calls whose arguments cannot be bound, a parameter given twice
\* aside, which the counting does not notice.
WrongCallsAreReported ==
  \A k \in Templates : \A c \in Elements(index[k].macroCalls) :
    \A m \in ResolveMacro(index, k, c.callee) :
      Doubled(m.macro, c) \/ (Finding("E501", c.span) \in E501(index, k) <=> ~Binds(m.macro, c))

\* Where the macros of the project are.
MacroPlaces == UNION {{Place(k, m.span) : m \in Elements(index[k].macros)} : k \in Templates}

\* The call that go to definition takes to a macro is among the references of that macro, under
\* the macro's own name.
DefinitionIsReferenced ==
  \A c \in Cursors : \A d \in GoToDefinition(texts, index, c) \cap MacroPlaces :
    LET name == Word(texts[c.key], c)
        header == [key |-> d.key, tag |-> TagOf(d.span.lo), token |-> 1]
    IN  /\ \E r \in Elements(UsesAt(index[c.key], Byte(c))) : r.kind = "function"
        /\ Word(texts[d.key], header) = name /\ name # "super"
        => Place(c.key, Here(c)) \in FindReferences(texts, index, header, TRUE)

\* Four walks resolve the macro of a call on their own: the macro that go to definition jumps to is
\* what the checks count the arguments of, what makes the name defined and what the hierarchy opens
\* at, unless the name is imported under another one, which some of the four look through.
WalksAgreeOnCallee ==
  \A k \in Templates : \A r \in Refs(index[k], {"function"}) :
    LET cursor == [key |-> k, tag |-> TagOf(r.span.lo), token |-> TokenOf(r.span.lo)]
        places(macros) == {Place(m.key, m.macro.span) : m \in macros}
        jumped == GoToDefinition(texts, index, cursor)
        named == CalledMacro(index, k, r.name)
    IN  jumped # {} /\ jumped \subseteq MacroPlaces /\ r.name # "super" /\ ~ImportedElsewise(k, r.name) =>
          /\ places(named) = jumped
          /\ places(ResolveMacro(index, k, r.name)) = jumped
          /\ PrepareCallHierarchy(texts[k], index, cursor) = {Item("macro", m.macro.name, m.key) : m \in named}

\* Whatever resolves a call on its own finds one macro: the walks that look down from a call, and the
\* search for references that looks up from the macro.
CallsResolveAlike == WalksAgreeOnCallee /\ DefinitionIsReferenced

\* The two directions of the call hierarchy agree: what the body of a macro calls lists that use
\* among its incoming calls, and an incoming call from a macro is one of its outgoing calls, unless
\* its template has two macros of the name, of which the hierarchy opens the first.
OnceDefined(facts, name) == \A m, n \in Elements(facts.macros) : m.name = name /\ n.name = name => m = n
HierarchyIsSymmetric ==
  \A k \in Templates : \A m \in Elements(index[k].macros) :
    LET item == Item("macro", m.name, k)
    IN  /\ \A out \in OutgoingCalls(index, item) :
             out.to.kind = "macro" => out.at \in {call.at : call \in IncomingCalls(index, out.to)}
        /\ \A call \in IncomingCalls(index, item) :
             call.from.kind = "macro" /\ OnceDefined(index[call.from.key], call.from.name) =>
               call.at \in {out.at : out \in OutgoingCalls(index, call.from)}

(***************************************************************************)
(* Inheritance and imports.                                                *)
(***************************************************************************)
\* What is reached by steps of next: it is in every set that has the start and that no step leaves.
Reaches(next, start, goal) ==
  \A closed \in SUBSET Templates :
    start \in closed /\ (\A k \in closed : next[k] \subseteq closed) => goal \in closed

LoadsOf == [k \in Templates |-> UNION {ResolveKey(index, r.path) : r \in Elements(LoadedBy(index[k]))}]

\* Templates each of which loads another of them, and reaches them all.
IsCycle(cycle) ==
  cycle # {} /\ \A k \in cycle : LoadsOf[k] \cap cycle # {} /\ \A j \in cycle : Reaches(LoadsOf, j, k)

\* Whatever E404 is reported at leads back to its template, and of every cycle some reference that
\* belongs to it is reported, although the walk prunes what it has visited.  At how many of its
\* references is left open (F01-diagnostics.md:139 has one).
CyclesAreReported ==
  LET reported(k) == {r \in Elements(LoadedBy(index[k])) : Finding("E404", r.span) \in E404(index, k)}
  IN  /\ \A k \in Templates : \A r \in reported(k) :
           \E q \in ResolveKey(index, r.path) : Reaches(LoadsOf, q, k)
      /\ \A cycle \in SUBSET Templates : IsCycle(cycle) =>
           \E k \in cycle : \E r \in reported(k) : ResolveKey(index, r.path) \cap cycle # {}

ParentOf == [k \in Templates |-> UNION {ResolveKey(index, r.path) : r \in Extends(index[k])}]
InCycle(k) == \E parent \in ParentOf[k] : Reaches(ParentOf, parent, k)

\* A name of a from-import, as it is there or here, comes before a block of that name.
ImportedHere(key, name) ==
  \E fi \in Elements(index[key].fromImports) : \E n \in Elements(fi.names) : n.name = name \/ n.alias = name

\* What overrides and what is overridden see each other: the block a lens or a jump from a block
\* leads to counts that block among its overrides, and super() leads to the same block.
InheritanceIsMutual ==
  \A k \in Templates : \A b \in Elements(index[k].blocks) :
    LET above == LensTargets(index, k, "block", b.name, "overrides")
        supers == {r \in Refs(index[k], {"function"}) :
                     /\ r.name = "super" /\ texts[k][TagOf(r.span.lo)].kind # "invoke_member"
                     /\ \E o \in Some(index[k].blocks, LAMBDA c : ByteIn(r.span.lo, c.body)) : o = b}
        cursor(span) == [key |-> k, tag |-> TagOf(span.lo), token |-> TokenOf(span.lo)]
    IN  /\ \A p \in above :
             /\ \E o \in LensTargets(index, p.key, "block", b.name, "extended") : o.key = k
             /\ ReferenceCount(index, p.key, "block", b.name) > 0
        /\ ~ImportedHere(k, b.name) => GoToDefinition(texts, index, cursor(DefinitionName(b))) = above
        /\ ~InCycle(k) /\ ~ImportedHere(k, "super") =>
             \A r \in supers : GoToDefinition(texts, index, cursor(r.span)) = above

(***************************************************************************)
(* Rename.                                                                 *)
(***************************************************************************)
Mentions(name) == {c \in Cursors : Word(texts[c.key], c) = name}
MacroOnly(name) ==
  /\ Cardinality({k \in Templates : name \in MacroNames(index[k])}) = 1
  /\ ~IsHostOwned(name)
  /\ \A c \in Mentions(name) :
       LET tag == texts[c.key][c.tag]
       IN  \/ tag.kind \in {"macro", "invoke", "invoke_in"} /\ c.token = 1
           \/ tag.kind = "invoke_member" /\ c.token = 2
           \/ tag.kind = "from" /\ c.token <= Len(tag.names)
Fresh(name) == Mentions(name) = {} /\ ~IsHostOwned(name) /\ \A k \in Templates : name \notin Elements(k)

CalledAt(templates, place) ==
  UNION {{Place(m.key, m.macro.span) : m \in CalledMacro(templates, place.key, r.name)} :
           r \in {f \in Refs(templates[place.key], {"function"}) : f.span = place.span}}
CallPlaces == UNION {{Place(k, r.span) : r \in Refs(index[k], {"function"})} : k \in Templates}

\* Renaming a macro that is defined in one template and whose name is nothing else, to a name not
\* in use, changes neither what any call of the project means nor any finding in it, if the server
\* has every text: a template that mentions the name and is without its text is skipped.
Located(findings) == {<<f.code, f.span>> : f \in findings}
SameTags == \A k \in Templates : Len(texts'[k]) = Len(texts[k])
RenameKeepsMeaning ==
  [][SameTags =>
      \A n \in {m \in NewNames : Fresh(m)} : \A c \in Cursors :
        MacroOnly(Word(texts[c.key], c)) /\ RenameSymbol(c, n, Templates) =>
          /\ \A p \in CallPlaces : CalledAt(index', p) = CalledAt(index, p)
          /\ \A k \in Templates :
               Located(RunChecks(texts'[k], index', k)) = Located(RunChecks(texts[k], index, k))]_vars

\* Doc: specs/features/F17-code-actions.md:99, a local rename "rewrites only the references that
\* resolve to this binding", and an inner binding of the same name "is left untouched".
RenameLeavesInnerBinding ==
  \A c \in Cursors :
    LET used == UsesAt(index[c.key], Byte(c))
    IN  \A t \in {l \in RenameAtCursor(texts[c.key], index[c.key], c) : l.scope # {} /\ used # <<>>} :
          \A e \in ComputeRename(index, {c.key}, c.key, t) :
            \A r \in {u \in Refs(index[c.key], {"identifier"}) : u.span = e.span} :
              InnermostBinding(index[c.key], r) = InnermostBinding(index[c.key], used[1])
=============================================================================
