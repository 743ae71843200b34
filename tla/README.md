# jinja-lsp: TLA+ models, model checking and proofs

jinja-lsp is a language server, a linter and a formatter for Jinja templates
(Rust, `src/`).  This directory holds TLA+ models of its core, the TLC
configurations that check them, and proofs checked by TLAPS.  `PROJECT.json`
maps every definition to the lines it models; paths below are relative to the
repository.

## 1. The system

| Component | State it keeps | Operations | Talks to |
|---|---|---|---|
| Server, `src/server/mod.rs` | none of its own: `Arc<RwLock<ServerState>>` and the client handle | `did_open`, `did_change`, `did_close`, `did_save`, watched files, settings, `initialized` (scan), about twenty pure-read requests, `executeCommand` | client (push, refresh, messages), file system, all features |
| Server state, `src/server/state.rs` | folder indexes, `sources`, versions, language ids, diagnostics, registries, configurations, overlay | `update_file`, `refresh_sidecar`, `apply_init_options`, `reload_config_selective`, routing by folder | configuration, index, registry |
| Configuration, `src/config.rs` | a `JinjaConfig`: discovered file plus overlay | discovery, parse, overlay, validation, path resolution | file system |
| Registry, `src/builtins` | documented tests, filters, functions, variables | core, framework packs, custom files, hints, sidecars, in that order | configuration, file system |
| Workspace index, `src/workspace`, `src/parsing/discovery.rs`, `src/parsing/inline.rs` | templates by key, inline entries and their host ranges | build, index a file, evict inline entries, resolve a template path | extractor |
| Extractor, `src/parsing/extractor.rs` | none | tree-sitter tree to `TemplateIndex` | tree-sitter |
| Checks, `src/diagnostics` | none | per-file and cross-file checks, `noqa`, select and ignore | index, registry |
| Linter, `src/linter` | one run: index, sources, findings | find a configuration, index, collect, filter, sort, print, exit status | index, checks, file system |
| Formatter, `src/format` | one run: files left, number changed | format a text; write, check, diff or print files | file system |
| Features, `src/features`, `src/edit` | none | completion, hover, rename, references, code actions, ... | index, registry |
| Conversion, `src/server/convert.rs` | none | byte, UTF-8 and UTF-16 columns; token deltas | features |

What is hard.  tower-lsp runs up to four handlers at once on one task and gives
no order among them beyond the order in which they first reach a suspension
point.  `did_open` and `did_change` take the state lock several times, so their
sections interleave; so do watcher batches, the initial scan, reloads and
settings.  Blocking reads and directory walks see the disk at some moment while
the index goes on changing.  One handler keeps a read guard while it waits for
the client.  Nothing is persisted, so there is no crash recovery.

What is hard in the stateless part is that it says the same thing many times.
The grammar is flat: tree-sitter gives a list of tags, and nesting is recovered
by a stack in the extractor, by counting in folding, symbols, hover, end tag
completion, code actions and the formatter, each with its own rules.  The macro
behind a call is looked up by a function of its own in definition, references,
call hierarchy, signature help, inlay hints, E101, E501 and the code actions;
the binding behind an identifier in definition, highlight, references, rename
and completion; the block above or below a block in definition, lenses, hover
and E601.  A unit test looks at one of them at a time.

What makes each component correct: the index of a file is extracted from the
text the server holds for it; that text is the newest the editor sent; what was
pushed is what the present text, index, registry and settings give; push and
pull agree; sessions leave nothing behind; a scan indexes every discovered
file; no handler waits for ever.  The settings in force are file under overlay.
Reports are what files, configuration and comments ask for.  A name means its
latest live binding, whoever asks; a call means one macro, whoever asks;
overriding and overridden blocks see each other; a fix resolves its finding and
takes nothing else; a rename changes no meaning; the layout shows the nesting
and settles in one pass; tokens decode to the names they were made of.

## 2. Modules

| Module | Models | Source |
|---|---|---|
| `DocumentSync` | notification handlers, scan, reload, delivery of diagnostics, lock | `src/server/mod.rs`, `src/server/state.rs` |
| `MCDocumentSync` | its instances for TLC | |
| `DocumentSyncProofs` | type correctness, version marks; order of steps and lock queue; closed sessions; index without scans | |
| `DocumentDeliveryProofs` | what is delivered while sections run one handler at a time, and what when edits overtake each other behind a held guard | |
| `LayeredConfig` | what the server promises of its settings: file under overlay, and the registry of both | |
| `ConfigSync` | discovery, overlay, validation, selective reload, which folder a file reloads | `src/config.rs`, `src/server/state.rs`, `src/server/mod.rs` |
| `MCConfigSync` | its instances for TLC | |
| `Suppression` | select and ignore, noqa comments, and what F01 says of both | `src/diagnostics/filter.rs`, `src/diagnostics/noqa.rs` |
| `CommandLine` | the `check` and `format` commands | `src/linter/mod.rs`, `src/format/cli.rs`, `src/workspace/builder.rs`, `src/parsing/discovery.rs` |
| `MCCommandLine` | its instances for TLC | |
| `ConfigSyncProofs` | type correctness, validity, `ConfigSync` implements `LayeredConfig`, files and scans are followed | |
| `TemplateText` | positions, spans, tags | `src/parsing/types.rs` and the flat grammar |
| `Extraction` | facts of a template: scopes, bindings, blocks, macros, imports, references, calls | `src/parsing/extractor.rs` |
| `WorkspaceIndex` | lookups over the entries of all templates | `src/workspace` |
| `Checks` | every check, as a set of findings | `src/diagnostics` |
| `Navigation` | definition, references, highlight, call hierarchy, lenses | `src/features` |
| `Rename` | the rename command: what it finds, refuses and edits | `src/features/rename.rs` |
| `TemplateProject` | templates being typed and renamed; properties of all of the above | `src/server/state.rs` |
| `CodeActions` | quick-fixes, wrapping, extraction to a macro, as edits of tags | `src/features/code_actions.rs` |
| `TemplateFixes` | properties of the code actions in the projects of `TemplateProject` | |
| `Outline` | folds, document symbols, end tag completion, the echo at an endblock | `src/features` |
| `Layout` | the formatter's lines | `src/format/mod.rs` |
| `SemanticTokens` | tokens, their classes, columns and deltas | `src/features/semantic_tokens.rs`, `src/server/convert.rs` |
| `Assistance` | what completion offers, parameters shown by signature help and hints | `src/features` |
| `TemplateViews` | properties of the last four in the projects of `TemplateProject` | |
| `MCTemplateProject` | instances for TLC | |
| `SequenceLemmas` | induction; what `FlattenSeq` returns, where and how often; folds over sequences | |
| `TemplateProofs` | index, wrong calls, call hierarchy | |
| `ScopeProofs` | the extractor's stack finds lexical scopes | |
| `NavigationProofs` | the features select, show and colour the bindings and macros the checks resolve to | |
| `CommandLineProofs` | how a format ends and what it leaves; what it has gone through passes its check | |

The template modules extend each other in the order of the table:
`TemplateText` - `Extraction` - `WorkspaceIndex` - `Checks` - `Navigation` -
`Rename` - `TemplateProject`; the views and fixes are added on top.

### DocumentSync

State.  `templates`, `sources`, `doc_versions`, `document_language_ids`,
`diagnostics`, `sidecar_registries`, `config` and `overlay` are the fields of
`ServerState`; `published` is the last list the client was pushed.  `disk`,
`cfgDisk`, `hints`, `bufText`, `bufVer`, `events` are the file system and the
editor.  `task`, `lockq` and `guards` are handlers in flight, the fair queue of
the `RwLock` and the read guards held over an await.

A text is a number; an index entry is the text it was extracted from; a list of
diagnostics is the record of everything `compute_file_diagnostics` read: text,
the index entries it consults, registry, configuration, overlay.  Two lists are
equal exactly when nothing they depend on has changed, which is what the
properties ask; what the checks find in a text is left out.

Actions.  Each critical section is an action (`DidOpenClear`, `Pass1`,
`DidChangeRecord`, `DidChangeIsLatest`, `DidClose`, `ComputeDiagnostics`,
`StoreAndPush`, ...), each other await a wake-up (`Flushed`, `FileRead`,
`Walked`, `MessageShown`, ...), and each thing the client or the file system
does an action bounded by `MaxMessages`.

Scheduling.  tower-lsp polls its handlers on one task (`buffer_unordered(4)`)
and tokio's `RwLock` is a fair FIFO semaphore.  A handler never suspends on a
lock it can have at once, so a runnable section runs before anything else gets
the processor (`Runnable`); a handler whose next section queues goes to the
tail (`Then`, `Resume`).  Readers at the head pass a held guard, writers wait,
and everybody behind a waiting writer waits with it.  This order is external to
the repository and is stated in one place of the module.

Abstractions.  One folder's walk is one moment in time (`WalkFolder`), although
files are read one by one: a file that changes during the walk is seen old or
new either way.  The overlay only carries lint settings here.  A session
without a workspace root, a walk that panics and the non-object rename
arguments are left out.  An accepted rename drops its guard first and, like all
other requests, changes no state.

### ConfigSync and LayeredConfig

`DocumentSync` keeps one number per configuration: it is about when a reload
takes effect.  `ConfigSync` is about what it does: each reload, settings change
and first scan is one step, and a configuration is a function on its keys.

State.  `jinja` and `pyproject` are the two files of each directory on a
folder's way up, each absent, unparsable, with settings, or (`pyproject`)
without a table of ours.  `config`, `registry` and `config_file_path` are per
folder, 0 being the primary one; `base_config` and `init_overlay` belong to the
primary one only, as in `ServerState`.  `registry` holds the keys the registry
was built from and `scanned` those the folder's index was last scanned with, so
that "rebuilt" and "left alone" can be told apart.  `events` are changed files
the client has still to report; `missed` is a history variable, the folders
with a change made before the watchers were registered.

Actions.  `Init` is the `initialize` request, `Initialized` the first scan and
the registration of the watchers, `ReloadConfigFile` one watcher event for a
configuration file, `DidChangeConfiguration` a settings notification,
`FileWritten` the user.

`LayeredConfig` says that per folder the settings in force are the file's with
the editor's on top and the registry is theirs, and that a step changes one
folder's file or one folder's overlay.  `ConfigSync` implements it with the
mapping `FileOf`, `OverlayOf`: a reload is `FileChanges` or a stutter, a
settings change `SettingsChange` or a stutter, everything else a stutter.  That
is not obvious from the code: a reload rebuilds the registry only if the
settings in force, overlay included, differ from the bare file.

Abstractions.  A value is one number, and which values validation rejects is a
constant.  The directories a scan walks are those of the `templates` key: that
`"..."` expands by looking at the disk is left out.  What `custom_builtins` and
`hints` files contain is not part of the registry here (`DocumentSync` has
their changes).  A workspace has a root.

### Suppression and CommandLine

`Suppression` has no state.  A code is a sequence of characters, so that "starts
with" is `IsPrefix`; a line is its comments and its tag delimiters in order.
`Shown` states what REQ-DIAG-03 to 05 ask, with tags matched from the beginning
of the file (`TagOpenAt`), while the code searches backwards line by line.

State of `CommandLine`.  `disk` and `configs` are what the commands read; `run`
is the command in progress, a record of the locals of `run_check` or
`run_format`; `history` is what the finished ones did.  `touched` collects the
files the user saved during a command.

Actions.  `Start` checks arguments, finds the configuration and walks the
directories.  A check then reads each file for the index (`IndexFile`), reads it
again in the order of a hash map (`CollectFile`) and reports (`ReportFindings`).
A format reads a file (`FormatRead`) and writes it or not (`FormatWrite`), file
by file.  `UserEdits` may come between any two of them.

Abstractions.  A walk is one moment.  What a text's findings are, and whether a
formatted text equals it, are inputs; one finding may depend on whether a
template of another name is indexed.  All findings come from the index entry:
W106 and W203 also look at the text of the second read.  A failed write leaves
the old text.  The configuration that discovery finds from a directory is an
input, being the subject of `ConfigSync`.  Printing is left out.

### The template modules

`TemplateProject` has two variables, `texts` and `index`.  Everything else,
checks and features, is a function of them, as it is in the program: a request
reads the state under one guard.  Its actions are `Type` (an edit at the end
that re-extracts the file, as `index_file_into`) and `RenameSymbol` (the
rename command, which edits every file it names; each is extracted again).
A rename has the text only of files that were opened: `sources` is a set of
templates out of `OpenSets`, and the others are skipped, as in
`rename.rs:192`.
The modules below it define those functions, one operator per function or
step of the source, so that the properties can compare what different walks
say in every reachable project.

A text is a sequence of tags, because the grammar is flat: `{% for %}` and
`{% endfor %}` are siblings in the tree and the extractor pairs them.  A tag
has a kind, its identifiers, what follows `as`, a path, a count (parameters
with a default, positional arguments) and flags.  A position stands for a byte
offset: each tag owns `Width` of them, an identifier is a token at a position,
and comparisons between offsets come out as in the code.  Lines matter only in
`Layout` (any distribution of tags over lines) and for the code actions, which
take one tag per line.  What the grammar cannot pair (`{% endblock name %}`)
is an error node, as there.  The opening tag of a block set is one too, and
the tags behind it may be inside that node, where no query finds them; the
model keeps their facts.  So the properties that relate facts to the nesting of
tags leave such texts out: `Intact` asks for no error node, `Readable` for no
block set.

`Checks` gives the findings `(code, span)` of a template.  `Navigation` takes
a cursor, a token of a tag.  `CodeActions` gives texts after the action.
`Layout` gives each line's depth and the empty lines behind it.
`ParamHints` labels the positional arguments but for those whose text already
reads like the parameter (`inlay_hints.rs:259`); that text is not among the facts,
so which these are is an argument, and the property quantifies over it.
`SemanticTokens` goes from names over columns in bytes or UTF-16 units to
deltas; `DecodedTokens` is what a client makes of them.

The properties compare these functions with a reference semantics in
`TemplateProject`: `Partner` balances openers and end tags, `MeantBy` is the
latest binding still live at a use, `Binds` is Python's rule for arguments.
They are conditioned where the code gives no answer: `WellNested` (every
opening tag has its end), `Intact` (also no error node), `Readable`, one name that is only
a variable, a macro under its own name.  Every condition that looks ad hoc
stands for a behaviour listed in section 3, or for one the proofs met: a name that is also
imported under another one (`from p import a as b` beside a variable or macro `a`) is seen through
by some of the walks and not by others, `super` is a block's, and where a call's name is
also that of a variable or block, go to definition may lead there, which is no macro.

Abstractions.  Ordinary text, comments, raw regions and inline templates in
host files, filter arguments, nested expressions (a tag holds one expression),
translations, messages and the wording of answers.  The registry is a constant.
Names that differ by a few letters are a constant relation, `Similar`.

## 3. Runs

| Run | Question | Bounds |
|---|---|---|
| `EditSession` | editing two documents with settings changes: newest text, published, nothing left, eventually served | 2 keys, 2 slots, 5 messages |
| `HeldGuard` | the same behind a held read guard; every handler ends | 2 keys, 3 slots, 5 messages |
| `Scan` | initial scan of two folders against opens and settings | 2 keys in 2 folders |
| `Watch` | watcher batches, sidecars, save, deletion against a session | 1 key |
| `Reload` | configuration files of two folders, broken ones too | 2 keys in 2 folders |
| `ScanDropsEdit` | violated: see below | 1 key |
| `ConfigReload` | files and editor settings changed in any order: layers, validity, routing, scan scope | 2 folders beside each other, 2 changes |
| `CommandLine` | reports, files and exit statuses are what was asked for; reports repeat; a format passes its own check | 3 directories with 5 files, 5 texts, 3 disks, 4 placements of configurations, 2 commands of 13, 1 edit |
| `Scopes` | bindings, owners, undefined names, folds, outline, layout, completion, removals and wraps against nesting | one template, 9 tags: any text of up to 5, orderly ones of 6 |
| `Inheritance` | cycles, overriding and overridden blocks, the stub for a missing block | 3 templates of 4, 2 and 2 tags |
| `Calls` | macros defined, imported, aliased, called, extracted and renamed | 3 templates of 3, 1 and 2 tags |
| `RenameTakesInner` | violated: see below | one template, loops and `with` |

Why the bounds are enough.  Handlers interact through one key, or through a
template and one it depends on, or through two folders: two keys and two
folders give each.  The orders of two handlers in flight plus one that starts
meanwhile need two or three slots; a queue behind a guard needs its holder
and two more (the program has four slots).  Every mutant named in `PROJECT.json` is caught within the
bounds, so the cases it stands for are reached.

Two changes give `ConfigReload` each pair: a file and a setting, a file twice
(broken and mended, replaced and removed), a setting twice; every file content
and payload differs from the defaults in one key, because a key is compared and
overlaid on its own.  The payloads of that run set no scanned key, since the
code does not scan again after them (below).  Configuration files of the
instances lie in the folders' roots; in a nested layout `FollowsDisk` fails
(below).
The runs disable the deadlock check: the user may do no more.

The instance of `CommandLine` has a directory in another, two directories with a
file of one name, a file that cannot be read, one that cannot be written and one
with a non-HTML host; texts with each kind of noqa comment, a tag that begins on a
line that also closes one, and an unknown id; select and ignore from
configuration and flags; every mode of `format`.  Two commands are what
`ReportIsGolden` and `GatePasses` compare.  Three files read in one check give all
the orders that a sort can get wrong.

`Scopes` has a binding of one name in each kind of scope, blocks closed with and
without a name, and uses.  Any five tags give every broken text of that size; six
tags are needed for two scopes around a binding and a use, and only texts that
are still orderly are continued to six (`FreeTags`).  Layout is checked for every
distribution over lines of texts of up to three tags, four if well nested; tokens
for texts of up to four with wide and narrow characters in front of names.
`Inheritance` needs three templates for a cycle of three, a template extended by
two others, and a path resolved by the tail of its key; `page` needs four tags for
a closed block with `super()` in it behind an `extends`.  `Calls` needs a library, a
second macro of the same name, and a template that imports either; three tags
give the library a macro whose body calls another one.  After a rename nothing
is typed.  In `Calls` every template was opened, or only the one the rename starts
from; in the other instances nobody renames (in `RenameTakesInner` the target is
computed and not applied).

Fairness.  `FairSpec` assumes weak fairness of each slot's sections and
wake-ups, which says that the executor runs what is runnable, that blocking
threads finish and that the client takes messages and answers requests, and of
the delivery of watcher events.  Nothing is assumed of what the user does.

### Where the code and its documentation disagree

* `ScanDropsEdit`: the commit of a scan replaces the folder's index with what
  was read before an edit; the text stays new and the facts old
  (`src/server/mod.rs:237`, against REQ-ARCH-12).
* `RenameTakesInner`: the rename of a local binding rewrites every use of its
  name in its range, also those of an inner binding, whose declaration stays
  (`src/features/rename.rs:247`, against F17, line 99).

Further differences, without a run of their own.  Where one of them touches a
property, the property is written so that it holds on either reading, or only
where both agree, and the comment beside it says so.

Server: a watcher event for an open document indexes the text on disk
(`src/server/mod.rs:897`, REQ-ARCH-06); a deletion leaves the stored list, so
pull and push disagree (`src/server/mod.rs:925`, REQ-ARCH-09); of two
overlapping reloads the slower one wins, whose scan may be the older
(`src/server/mod.rs:436`, REQ-ARCH-04); a nested folder that
discovers the outer folder's file does not follow its changes
(`src/server/mod.rs:334`); nobody looks again at a configuration edited between
its discovery and the registration of the watchers (`src/server/mod.rs:727`);
a settings change never
scans again although E15 asks for the same diffed re-application; the scan of a
reload uses the file's directories and extensions and not the overlay's; an
empty payload is skipped, so clearing the only setting leaves it in force; an
overlay rejected because the file of the time is invalid is not tried again;
extra folders get no overlay.

Command line: a check reads each file twice and searches the second text for the
tag around a finding of the first; if the file got shorter the process panics
(`src/diagnostics/noqa.rs:220`, REQ-LINT-08); a file named as a path of `check` is
never checked, because only directories are walked (`src/linter/mod.rs:57`,
against REQ-LINT-01), and beside a directory that holds it it is indexed under
the empty name; with overlapping directories a file whose name is taken is not
checked, even if it is the file of that name in another directory, where F19:72
asks for the union of the paths (`ReportIsWanted` says nothing of a file that is found under
a name already taken); `--select` and `--ignore` add to the configuration where
F19:80 says they override it (`ReportIsWanted` is about lists that come from one of the two,
`ByOne`); a line that closes a tag from above and then opens and closes another does not
end the search for the enclosing tag (`src/diagnostics/noqa.rs:225`, against
REQ-DIAG-05), so a comment on the closed tag's opening line counts for
findings of later lines too (TLC violates `ReportIsWanted` when a text has
such a line below a comment; `TagsSettle` says that none does); `format` saves over a file
edited between its read and its write.

Extraction and checks.  `{% endblock name %}` is an error node, so E001 is
reported and the checks that ask for a clean tree are off; a block closed by
name inside one closed without is paired wrongly.  E404 is reported on each
edge of a cycle in each file, F01:139 has it once per cycle (`CyclesAreReported` asks
for one of its edges at least, and for none outside of cycles).  W201 counts a use
anywhere in the file, F01:59 one in scope.  W305 does not see a `set` that
shadows a loop variable, because the bindings are grouped by query and not in
document order (`w305.rs:14`).  W203 takes a name in front of a dot for the
alias (`w203.rs:14`), and never fires for an alias named like its file.
Variables bound by `call(arg)` and `trans` have an empty range, so their uses
get E101 (E07:110).  E501 does not notice a parameter given twice
(`WrongCallsAreReported` excludes it).

Calls.  After `from other import m as z`, a call of `m` jumps to the macro in
`other` while E501 and the hierarchy take the workspace's first `m`
(`ImportedElsewise` excludes it).  If a template has two macros of one name,
the hierarchy opens the first for both (`call_hierarchy.rs:167`), so a call from
the second is not among the outgoing ones (`OnceDefined`).  Outgoing calls ignore
imports.  A from-import is not among the references of the macro when the cursor is on
an alias.  Hover shows any workspace macro of the name before the imported one
(`hover.rs:186`, F06:92), and the first variable of a name (F06:76).

Rename.  A template that was scanned and never opened is skipped without a word,
because `update_file` alone fills the map of texts (`rename.rs:192`, `state.rs:280`), so a rename
leaves its calls and imports as they were, against F17:93 (`RenameKeepsMeaning` is about projects
whose templates are all open).  The local declaration is never rewritten (`tests/rename.rs:68` asserts
it); from an unbound use or a binding's own name the scope may be the whole file or an
outer one; the rename of a macro rewrites identifiers of its name in
templates that have nothing to do with it, and has no collision check there;
it is offered on filter names (F17:99).  `RenameKeepsMeaning` is therefore about
macros whose name is nothing else.

Code actions.  The fix for W305 renames every use behind the line, beyond the
scope too, which gives E101 (`code_actions.rs:559`, F17:75).  Dropping an
imported name drops every entry with the name on either side of `as`, which
may empty the import or take a used one (F17:55).  The import of an exact
match is never offered for a fresh finding and that of a near match does not
resolve its finding (F17:59, F17:40).  The missing template of E601 is
created under the root of the file system and empty, because the path of the finding is taken for the
file's (`convert.rs:53`), against F17:71 and F17:327 (`FixesResolveFindings` is about fixes
that create no file; the instances have no E601).  Wrapping and extracting do not look at
nesting (F17:83, F17:87), so the properties select well nested parts; a fix
that deletes a line takes the other tags on it.

Views.  An inline `set` before an open tag makes `{% end` offer `endset` and
nothing else pair (`completions.rs:306`, F05:89).  Macro parameters are not
offered in the body, against F05:97 (`OfferedIsDefined` accepts both).  Of two top-level sets of one name both outline nodes
lie at the first.  A `set` block is not folded.  The card of a block in an
`extends` cycle names the block itself.  A filter or test name gets
two overlapping tokens (F13); uses of macro parameters and calls of aliased
imports are coloured as unknown variables.

Formatter.  `trim_blocks` removes a line end each time it is run
(REQ-FMT-06), so the model leaves it out; the insertion of empty lines counts
depth without host lines and lines that start with an expression, while its comment says that it
mirrors the indentation (`format/mod.rs:837`); all lines are moved although
F18:63 keeps the host's indentation, and to depths counted from column 0, where F18:65 measures from
the column of the outermost enclosing tag (`IndentsAreNesting` compares lines
inside one construct, where either base gives the same).

Known limits of the server, found with the same model and kept out of the runs by their
choice of `Kinds`: a template is not published again when one it depends on is
edited; a loaded sidecar stays on the registry of the configuration before a
reload; a close that overtakes an edit's publish leaves the older list; an
event read just before a deletion is indexed after it; a document rejected for
its languageId is indexed on an edit once a watcher event has made it tracked;
behind a held guard, an edit may reach the lock before its open and be dropped. With three slots, a refused rename and
closes or settings together, `NewestContentWins` and `PublishedIsCurrent` fail for
the last reason and for the stale publish, so `EditSession` and `HeldGuard` are
separate runs.

## 4. Proofs

`DocumentSyncProofs` proves, for every set of keys, folders and slots and every
bound:

* `TypeCorrect`: `Spec => []TypeOK`.  `TypeOK` is inductive because it also says
  what a handler carries at each step (`Carries`): a handler about to store has
  a list, one about to classify has an event left.  Lemmas about `Goto`, `Then`
  and `Resume` carry it over a step; there is one step per action.
* `MarksAreTracked`: `Spec => []MarksOnlyTracked`.  The invariant needs
  `TypeOK` only: a mark is set in the section that has just looked the key up,
  and the one action that removes a key removes its mark.

The other theorems about `DocumentSync` are about rest states, reached by any number of
handlers in flight.  They rest on two facts proved once, with no hypothesis:

* A handler goes from step to step along `Follows` (`SectionMoves`, `WakeMoves`), and at each step
  it fits the message it was started for (`HandlersFit`: `Spec => []AllFit`).  A proof about
  a step then has one case for each kind of successor instead of one for each of 24 actions.
* `HandlersQueueOnce`: `Spec => []QueueFits`.  The lock queue holds, once each, exactly
  the slots whose next step is a critical section.  So while no guard is held over an
  await, one handler at most is in a section (`Serial`), and while one is, the queue is
  the order in which the others will run.

The same module then proves:

* `ClosedLeaveNoSession`: `Spec => []ClosedDocumentsLeaveNoSession`, no hypothesis.  The
  invariant `ClosedSessions` says of a closed document that it has no mark and
  no language, or a `close` is queued behind every section that could set one.
* `IndexFollowsText`: `NoScans /\ Spec => []IndexTracksSource`, which `RecordedWins` below
  needs.  With a first scan or a reload that rescans it is false (`ScanDropsEdit` shows how).

`DocumentDeliveryProofs`, each under a hypothesis on what the environment does
(`Kinds`), without which TLC finds the property violated in a small instance:

| Theorem | Property | Hypothesis | Runs that satisfy it | Counterexamples otherwise |
|---|---|---|---|---|
| `NewestWins` | `NewestContentWins` | `TypingOnly`: no save, write, deletion or rename | `EditSession` | with any one of the four |
| `NewestListWins` | `PublishedIsCurrent` | `LocalEdits`: no save, write or rename; findings depend on the file itself | `EditSession`, `Reload` | save, write, findings across files, rename with close |
| `PullsMatchPushes` | `PullAgreesWithPush` | `NothingForgotten`: no deletion or rename | `Scan` | deletion |
| `ScansComplete` | `ScanIndexesWorkspace` | `FilesStay`: no save, write, deletion or change of configuration | `Scan` | save, write, change of configuration |

The invariants say where what is missing is on its way.  `ShownTexts`: the text of an open
document is indexed, or carried by the handler about to index it.  `Delivered`: a list
that is no longer the one the server would compute is owed (`Owes`) by a handler that has yet
to publish it, and a list about to be stored is of now; this needs `Versions`, by which the handler that
passes the check `is_latest` is the one whose text is indexed.  `Answered`: pushed and
kept lists agree, and an open document has one or its first is on its way.  `Scanned`: a
discovered file is indexed or a scan has its folder left to commit.

Its second half drops the seriality: a refused rename holds a guard over an await,
and any number of edits queue behind it and take turns.  Hypothesis `SessionsStay`: no
close, save, write or deletion, and findings depend on the file itself.

* `QueuedListWins`: `SessionsStay /\ Spec => []PublishedIsCurrent`.
* `RecordedWins`: `SessionsStay /\ NoScans /\ Spec => []RecordedEditWins`.

The invariant is about the order of the queue.  `EditsFit`: of two edits of a document
the newer is never ahead at the same or an earlier step (`Ordered`), an opener is ahead of
the edits (`OpensFirst`), the version mark is that of the newest recorded edit
(`Marked`), and that edit is indexed or will be the last to index (`Newest`).  `Pushed`:
a key whose pushed list is not of now is `Due` to a handler that will compute it again, and a
handler whose list is no longer of now stores before one whose list is (`Settles`).  The hypotheses
are not all known to be needed: with save or write, and with a scan for `RecordedWins`, TLC finds
counterexamples; a rename together with close and with deletion passed on small instances, but the
order of a closing handler among edits is not part of the invariant.

`ConfigSyncProofs` proves, for every set of folders, layout of directories,
configuration and payload:

* `TypeCorrect`: `Spec => []TypeOK`.
* `ValidStaysValid`: `Spec => []ValidFileValidSettings`.
* `Implements`: `Spec => ImplementsLayers`, the refinement.

* `FilesAreFollowed`: `Apart /\ Spec => []FollowsDisk`.
* `ScansAreFollowed`: `ScopeFromFiles /\ Spec => []ScanFollowsSettings`.

All rest on `IInv == TypeOK /\ Fit /\ OverlayValid`.  `Fit` says that the
primary settings are file under overlay and each registry that of its settings;
a reload that leaves the registry alone keeps it by `DeltaSuffices`: if no
registry key of the settings in force differs from the file, then overlaying
the file gives the same registry keys.  `OverlayValid` says that every value in
the overlay passed validation, which alone survives a change of the file.

`Apart` says that a watched directory in which a folder looks for its file lies under the
root of no other folder; directories above all roots may be shared.  Without it the property is
false: a change below two roots reloads one folder.  The invariant `Followed` says that a
folder is on the file it would discover now, or had a change the watcher could not see, or
has one still queued from a directory in which it looks; a reload of the folder a change is
attributed to settles the second half, and a change elsewhere does not alter what it
discovers (`DiscoverDepends`).  `ScopeFromFiles` says that no payload of the editor sets
directories or extensions, after which the code does not scan; then the overlay has neither
(`ScopeFits`) and a reload that finds them equal in old and new settings may skip the
scan.  The run `ConfigReload` satisfies both.

`TemplateProofs` proves, for any keys, vocabularies, bounds and new names:

* `IndexIsExtracted`: `Spec => []TypeOK`: the index is what the extractor finds
  in the texts, after any typing and any rename.
* `WrongCallsReported`: `Spec => []WrongCallsAreReported`.  E501 counts
  arguments and missing names; that this finds exactly the calls that
  cannot be bound is `CountingIsMatching`, a cardinality argument over the parameters filled by
  position and by keyword.  It uses that a call resolves to at most one
  macro (`CallResolvesToOne`) and that a place has one call (`CallsByPlace`).
* `HierarchySymmetric`: `Spec => []HierarchyIsSymmetric`.  What is outgoing by containment
  in a body is incoming because the use names the macro it resolves to
  (`CalleeOfUse`) and its template does not shadow it; what is incoming by innermost owner is
  outgoing because the owner is a macro around the use (`OwnerIsAround`) and
  the one the hierarchy opens.

They and the theorems of the next two modules rest on `IInv`: lengths stay within the bounds, every text is a sequence of
tags that can be written (`IsText`), the index is its extraction.  `TypeOK` alone is
not inductive: a rename changes tags, and if it could rewrite a
parameter, two parameters of a macro might get one name and counting would no longer be
matching.  So the proof shows that whatever a rename edits is `Editable`: a
token of its tag and, in a macro header, only the macro's own name.  This needs the
form of everything the extractor emits (`ReferencesAreEditable`,
`BlocksType`, ...), which are folds and flattenings of sequences;
`SequenceLemmas` has what these return, by `Induction` over the naturals,
derived from the least-element principle of well-founded relations.

`ScopeProofs` proves `ScopesLexical`: `Spec => []ScopesAreLexical`.  The extractor keeps a
stack of open tags while it goes over a flat sequence; the property speaks of `Partner`, which
balances counts.  The proof joins the two:

* Pairs nest (`PartnersNest`, `PairsAreNested`): an interval is counted in parts, so
  from an opening tag to its partner something is open, and of two open tags the later
  ends first.
* At each tag the stack is, from outer to inner, the tags whose partner is still to
  come (`ScopesFound`, with a lemma for each kind of tag).  A block
  closed by name is not a scope the extractor knows how to close: its entry stays on the
  stack as long as only blocks are closed around it, which is what the invariant
  says of entries that are not exact, and why the property about bindings asks for a text
  without error nodes.
* So the region of a scope ends at its partner (`RegionsFound`), and the
  region around a place is that of the innermost scope there (`EnclosingIs`).
* A binding is live in its region; later ones end sooner (`LaterEndsSooner`), so the
  smallest range around a use is the latest live binding (`BindingIsLatest`).  Bodies of macros, which are
  found by counting, and of blocks, which are closed by name or in order, end at the
  partner too (`MacroBodyIsOwn`, `PlainBlocks`, `NamedBlocks`), and the smallest
  around a use is its owner (`OwnerIsLatest`).

`NavigationProofs`:

* `FeaturesAgree`: `Spec => []FeaturesAgreeOnBinding`.  The walks compare a use with a range
  now with its ends and now without; ranges run from the end of a tag to the start of one,
  where no name is, so it makes no difference (`InRange`).  Then all pick the same binding
  (`WalksPick`), and under the hypothesis every lookup a walk tries before its variables
  finds nothing.
* `CallsResolved`: `Spec => []CallsResolveAlike`.  From a call, the lookups of a jump before the macros
  (imports, aliases, variables, blocks) lead to places that are no macro's (`NotMacroPlaces`,
  `BlocksAreElsewhere`), so a jump that leads to macros went
  through the lookup the checks use (`JumpOfCall`, `ImportedAlike`).  Back from the macro, the
  references try the four kinds of symbol in turn, and only the macro of the header is
  there (`HeaderSymbol`, `HeaderReferences`).
* `CyclesReported`: `Spec => []CyclesAreReported`.  E404 is at a reference exactly if that leads
  back to its template (`ReportedAtCycle`), and of a cycle every reference that stays in it does.  The walk is a recursive function on the
  visited set; as a visit adds to the set, it settles after as many rounds as there are templates
  (`Recursion` in `SequenceLemmas`), and its equation holds.  By induction over the templates not
  yet visited, a walk that does not find the target leaves a visited set that no reference leads
  out of but to what was visited before it, so at the root
  the set is closed and the target is not reached; one that finds it has followed references.
* `InheritanceShown`: `Spec => []InheritanceIsOne`.  A template has one parent at most, so
  all walks go over one chain: the walk that collects it and the walks from below see the same
  templates, except that they cut a cycle at different places, which is why the card
  and `super()` are compared outside of cycles.  The other lookups a jump tries
  first do not find a block, unless the name is imported (`ImportedHere`).
* `CallsShown`: `Spec => []CallsAreShownAlike`.  Signature help and hints take the first macro that exists
  on a walk over imports and entries, the checks the first import; the two agree where no two
  entries give the name (`EntriesAreChecked`), which is the condition `GivenOnce`.  A macro of the template
  comes first in both.  An identifier coloured unknown has no binding
  (`UnknownIdentifier`), so it is reported unless something else defines it; a call reported
  names no macro of any template (`ReportedCall`), so it is coloured unknown.  A call that fits has
  no more positional arguments than there are parameters, so all but the matching
  ones are labelled (`AllAreLabelled`).
* `UsesDefined`: `Spec => []UsesAreDefinedAlike`.  The use at a print is the only reference at its place
  (`PrintUse`) and no other check has the code E101 (`OneCode`), so it is reported exactly if it is
  `Undefined`; that is `BindingsAreLexical` for variables and the nesting of bodies for
  parameters (`ParameterIs`).  Completion reads closed ranges (`WithinRange`), and its special
  variables ask for a variable of scope `for`, which a set in the loop also is
  (`LoopAround`), or for a body (`BodyAround`).
* `ViewsNested`: `Spec => []ViewsFollowNesting`.  A scan is a recursive function over the tags, with an
  invariant by induction.  Of any text, the folds found do not cross and none has an
  open tag inside.  Of a well nested one, a stack of tags holds, in order, the
  open tags of the scan's kinds (`OpenIn`, kept by `PushOpen`, `PopOpen` and `KeepOpen`); a stack of
  names or words holds their labels (`Labels`).  A named endblock ends a block for folds and
  echoes but has no echo of its own.  That folds are exactly the pairs is for texts of
  scopes (`Structured`): folding also opens at any word it does
  not know.  The offered end is for these with no set before it, for an inline set counts as open.

All of these hold for texts of any length, and rest on `IInv` alone.

`CommandLineProofs` proves, for any files, directories, configurations and
commands:

* `GateAlwaysPasses`: `Spec => []GatePasses`, the CI gate of F18: after a format in
  place that nothing disturbed, the same format with `--check` has nothing to report.
* `FormatsAsAsked`: `Spec => []FormatOutcome`.  A format nobody disturbs fails exactly when
  `Failing` gives a reason and else tells whether anything changes; disturbed or
  not, a file is formatted or as it was, and as it was if it was not to be written.
* `ReportsAsWanted`: `AllSettle => (Spec => []ReportIsWanted)`: of each file nobody edits,
  a check of directories reports exactly what the filters and the noqa comments leave.  The proof
  settles it the way the code does (`Wanted`), the property follows.
* `ReportsAreGolden`: `Spec => []ReportIsGolden`: the report does not depend on the order in
  which the hash map is gone through.

`IInv` there follows a format in progress (`Progress`): a listed file that is not
still to do is tidy, the files present are those it started with, and a `--check`
leaves the disk as it was and counts nothing if every listed file was tidy.
`Linked` says that a command starts with the files its predecessor left.

`FormatOutcome` speaks of what is asked for, path by path, and not of the list the
code makes.  `ListIsAsked` relates the two: the list has exactly the files asked for, and more
than one entry just if a file is asked for twice or two are; this rests on
`FlattenSeqSeveral` and `FlattenSeqInjective` in `SequenceLemmas`.  The invariant
then has two parts.  `Half` holds even while the user edits: each file the format alone writes has its
text still, or is formatted, and is formatted once no entry for it is left.  `Judged` holds
while nobody does: nothing done so far gave a reason to fail, and the count is
positive just if something done had to change.  A file named twice is why `Judged` also
says that a file that differs from before has been counted: its second
visit finds it formatted (`HeadIsMine`).

The two theorems about checks rest on `CInv`, which adds to `IInv` what a check under
way has done (`Indexing`, `Reading`) and what a finished one was told to report.
`Wanted` and `Settled` are the two halves:

* The names of the index are those of the files that count, each with its first file
  (`NamesAreChecked`), since the files listed come root by root; every entry read is
  one of them, and at the end all are (`AllRead`).
* What an entry leaves is what is to be shown of its text.  The search backwards for the
  open tag against `TagOpenAt`, which pairs delimiters from the start of the text, is
  `EnclosingIsOpen`, by induction over the line.  It needs that the lines settle
  (`TagsSettle`; without it the property is false, see section 3); the instance of the run
  satisfies this, by an ASSUME of `MCCommandLine`.
* The sort puts each finding at its place (`SortedPlaces`), and two lists with the
  same findings, each file's in the same order, are sorted alike (`SortedTogether`): ties are
  broken by position, which only counts between findings of one place and so of one
  file.  That two readings of the names in different orders give such lists is
  `PartPermuted`, from `FlattenSeqPermuted` with the permutation of the entries as data.

The model states the sort by the place of each entry behind those that come before it,
and filters by the set of entries kept, so that what they return can be proved.

The proofs of the gate and of `FormatOutcome` rest on one property of the formatter, an assumption here
(`FormatAssumption`): both formats of a text settle in one pass (REQ-FMT-06).
The runs over `Layout` check it for line layout without `trim_blocks`.

Assumptions are the modules' own.  Formatting settles, walks list files, commands
have their fields, configurations list paths; a walk reads each file below a directory
once, and a file is no directory (`WalkAssumption`); findings and lines have their type
(`FindingAssumption`); a check is given files and directories, files are in an order, and below a
directory a path names one file (`CheckAssumption`).  Discovery chains are sequences of directories,
file contents are configurations, payloads set known keys; folders are numbers
and include the primary one, slots are numbers and include 1, `None` is neither
a key, a number, the path of a configuration file nor a list of diagnostics; keys are sequences of strings, all different; `Written` says what can be typed:
the names fit the tag, a tag that uses or binds has a name to use or bind, a call through a module or
an attribute has both names, a call block has its callee, a macro has
parameters of different names of which the last `count` have a default, as the grammar and
Jinja require.

Model-checked only: liveness (out of the prover's reach); the rest-state properties of
`DocumentSync` outside the hypotheses above, where they fail or the queue order of
saves and deletions would have to be described too; renames and fixes that keep meaning, which would need the effect of an
edit on every fact; the outline, layout and tokens of `TemplateViews`, most of them passes
with counters of their own.

## 5. What is left

1. Proofs: `PlacesFollowText` of `TemplateViews`, and fixes.
2. An abstract document store that `DocumentSync` without scans implements.
3. Templates inside host files, and the eviction of their entries.
4. Layers of the registry, and the merging of hints and sidecars.

### Not modelled

tree-sitter and its grammar (external; its tags are the input); what is inside
a delimiter, raw regions, host lines and `trim_blocks` in the formatter (work on
characters); finding inline templates in host files (text scanning); the merging
of registry layers, done once at start, and the documentation files; wording and
ranking of completion items, cards and labels; the listing of workspace symbols
for a query; the doctor's report; transport and printing; editor extensions, packaging and scripts.
