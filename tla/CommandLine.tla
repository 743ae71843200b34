---------------------------- MODULE CommandLine ----------------------------
(***************************************************************************)
(* The command lines `jinja-lsp check` (src/linter/mod.rs) and `jinja-lsp  *)
(* format` (src/format/cli.rs), run one after the other over files that    *)
(* the user may edit meanwhile.                                            *)
(*                                                                         *)
(* A file is a number, in the order of the absolute paths; a text stands   *)
(* for the comments, tags and findings it has (Lines, Finds, Needs) and    *)
(* for its formatted text (Formatted).  What discovery finds from a        *)
(* directory is ConfigSync's subject and an input here.                    *)
(***************************************************************************)
EXTENDS Suppression, FiniteSetsExt

CONSTANTS
    Files, Dirs, CWD,
    Inside,      \* the directories at or above a path, the current one included
    Walks,       \* the files below a directory in the order they are read
    RelativeTo,  \* the name of a file relative to a directory above it
    Parent,      \* the directory of a file
    Parts,       \* the parts of a file's name between its dots
    Relative,    \* paths given relative to the current directory
    Texts, Lines, Finds, Needs, HtmlFormatted, JinjaFormatted,
    Markers,     \* the non-HTML hosts a name can tell
    TemplateSuffixes,    \* the template suffixes, which tell no host
    Layouts,     \* per directory and for CWD what discovery finds there
    DefaultConfig, Disks, ReadOnly, Commands,
    Edited,      \* the texts the user may save meanwhile
    None, Bad, Absent, Unreadable, EmptyText, Stdout,
    MaxCommands, MaxEdits

\* Both formats of a text settle in one pass, and the files and paths of the instance are such.
ASSUME FormatAssumption ==
    /\ \A t \in Texts, format \in {HtmlFormatted, JinjaFormatted} :
          format[t] \in Texts /\ format[format[t]] = format[t]
    /\ Absent \notin Texts /\ None \notin Files /\ DefaultConfig \notin {None, Bad}
    /\ \A d \in Disks : DOMAIN d = Files
    /\ \A p \in Dirs : Walks[p] \in Seq(Files)
    /\ \A c \in Commands : c.kind = "format" =>
          /\ DOMAIN c = {"kind", "paths", "config", "check", "diff", "output"}
          /\ c.paths \in Seq(Files \cup Dirs) /\ c.check \in BOOLEAN
    /\ \A cfg \in {DefaultConfig} \cup {c.config : c \in Commands} \cup {l[CWD] : l \in Layouts} :
          cfg \in {None, Bad} \/ cfg.templates \in Seq(Files \cup Dirs)

\* A walk of a directory reads each file below it once; a file is no directory.
ASSUME WalkAssumption ==
    /\ Files \cap Dirs = {}
    /\ \A f \in Files : Inside[f] \cap Files = {}
    /\ \A d \in Dirs : \A f \in Files : f \in ToSet(Walks[d]) <=> d \in Inside[f]
    /\ \A d \in Dirs : IsInjective(Walks[d])

\* A finding has a place and a code, a line its tag delimiters and its comments.
Finding == [line : Nat \ {0}, col : Nat, code : Seq(STRING)]
Comment == [word : STRING, separator : STRING, ids : Seq(Seq(STRING))]
TextLine == [tags : Seq({"open", "close"}), comments : Seq(Comment)]

ASSUME FindingAssumption ==
    /\ EmptyText \in Texts /\ W107 \in Seq(STRING)
    /\ \A t \in Texts : Finds[t] \in Seq(Finding) /\ Lines[t] \in Seq(TextLine)
    /\ \A t \in Texts : Needs[t] = None \/ Needs[t].finding \in Finding

\* Files are in order, a check is given files and directories, and below a directory a path names one file.
ASSUME CheckAssumption ==
    /\ Files \subseteq Nat
    /\ \A c \in Commands : c.paths \in Seq(Files \cup Dirs)
    /\ \A d \in Dirs, f, g \in Files :
          d \in Inside[f] \cap Inside[g] /\ RelativeTo[d][f] = RelativeTo[d][g] => f = g

VARIABLES disk, configs, run, history, edits

vars == <<disk, configs, run, history, edits>>

Idle == [at |-> "idle"]

PanicCode == 101  \* the exit status of a Rust program whose main thread panics

-----------------------------------------------------------------------------
(* Which configuration and which files *)

\* The configuration of a check; an unparsable one found below a path is skipped.
ResolveConfig(c) ==
    LET Anchor(p) == IF p \in Dirs THEN p ELSE Parent[p]
        usable == {i \in DOMAIN c.paths : configs[Anchor(c.paths[i])] \notin {None, Bad}} IN
    IF c.config # None THEN c.config
    ELSE IF configs[CWD] # None THEN configs[CWD]
    ELSE IF usable # {} THEN configs[Anchor(c.paths[Min(usable)])]
    ELSE DefaultConfig

FormatConfig(c) ==
    IF c.config # None THEN c.config
    ELSE IF configs[CWD] = None THEN DefaultConfig ELSE configs[CWD]

Roots(c, cfg) == IF c.paths = <<>> THEN cfg.templates ELSE c.paths

Present(files) == {f \in Files : files[f] # Absent}

\* discover_templates: walking a path that is no directory finds nothing.
Walk(present, root, cfg) ==
    IF root \notin Dirs THEN <<>>
    ELSE Keep(Walks[root], {f \in present : Last(Parts[f]) \in cfg.extensions})

DiscoverTemplates(present, roots, cfg) ==
    FlattenSeq([i \in DOMAIN roots |-> Walk(present, roots[i], cfg)])

Holds(root, f) == root = f \/ root \in Inside[f]

\* relative_key: the name under the first root that holds the file
RelativeKey(f, roots) ==
    LET root == roots[Min({i \in DOMAIN roots : Holds(roots[i], f)})] IN
    IF root = f THEN "" ELSE RelativeTo[root][f]

IsRelativeEscape(p, cfg) ==
    LET templateRoots == IF cfg.templates = <<>> THEN {CWD} ELSE ToSet(cfg.templates) IN
    p \in Relative /\ templateRoots \cap Inside[p] = {}

FilesToFormat(present, c, cfg) ==
    LET roots == Roots(c, cfg)
        Skipped(r) == c.paths # <<>> /\ IsRelativeEscape(r, cfg) IN
    FlattenSeq([i \in DOMAIN roots |->
        IF Skipped(roots[i]) THEN <<>>
        ELSE IF roots[i] \in present THEN <<roots[i]>>
        ELSE Walk(present, roots[i], cfg)])

NonHtmlHost(f, cfg) ==
    LET name == Parts[f] IN
    \/ Last(name) \in Markers
    \/ /\ Len(name) > 1
       /\ Last(name) # "html"
       /\ Last(name) \in TemplateSuffixes \cup cfg.extensions
       /\ Last(Front(name)) \in Markers

Formatted(f, text, cfg) ==
    IF NonHtmlHost(f, cfg) THEN JinjaFormatted[text] ELSE HtmlFormatted[text]

-----------------------------------------------------------------------------
(* Findings and their report *)

ReadOrEmpty(f) == IF disk[f] \in Texts THEN disk[f] ELSE EmptyText

InFile(f, d) == [file |-> f, line |-> d.line, col |-> d.col, code |-> d.code]

\* Findings of the text in itself, and one if a template it names is not indexed.
RunChecks(f, text, keys) ==
    LET finds == IF Needs[text] = None \/ Needs[text].key \in keys
                 THEN Finds[text] ELSE Finds[text] \o <<Needs[text].finding>> IN
    [i \in DOMAIN finds |-> InFile(f, finds[i])]

Lexicographic(s, t) ==
    \E i \in DOMAIN s : s[i] < t[i] /\ \A j \in 1..(i - 1) : s[j] = t[j]

\* Mutant: the file is not compared.
BeforeInFile(d, e) == Lexicographic(<<d.line, d.col>>, <<e.line, e.col>>)

Before(d, e) == Lexicographic(<<d.file, d.line, d.col>>, <<e.file, e.line, e.col>>)

\* A stable sort: each finding has its place behind those that come before it.
Comes(diags, i, j) == Before(diags[i], diags[j]) \/ (i < j /\ ~Before(diags[j], diags[i]))

Sorted(diags) ==
    LET place == [j \in DOMAIN diags |-> Cardinality({i \in DOMAIN diags : Comes(diags, i, j)}) + 1] IN
    [k \in DOMAIN diags |-> diags[CHOOSE j \in DOMAIN diags : place[j] = k]]

EffectiveSelect(c, cfg) == cfg.select \cup c.select
EffectiveIgnore(c, cfg) == cfg.ignore \cup c.ignore

\* run.read holds what was read of each indexed file, in the order of the map.
FilteredOf(r) ==
    FilterByConfig(RunChecks(r.file, run.index[r.key].text, DOMAIN run.index),
                   EffectiveSelect(run.cmd, run.config), EffectiveIgnore(run.cmd, run.config))

InvalidOf(r) ==
    LET ids == InvalidIds(Lines[r.text]) IN
    FilterByConfig([i \in DOMAIN ids |-> InFile(r.file, ids[i])],
                   EffectiveSelect(run.cmd, run.config), EffectiveIgnore(run.cmd, run.config))

Report ==
    Sorted(FlattenSeq([i \in DOMAIN run.read |->
               SuppressByNoqa(FilteredOf(run.read[i]), Lines[run.read[i].text])])
           \o FlattenSeq([i \in DOMAIN run.read |-> InvalidOf(run.read[i])]))

Panics == \E i \in DOMAIN run.read : ReadsNoLine(FilteredOf(run.read[i]), Lines[run.read[i].text])

-----------------------------------------------------------------------------
(* Commands *)

\* A command before its first step; touched: what the user has edited since
Started(c, config) == [cmd |-> c, config |-> config, before |-> disk, touched |-> {}]

\* The process ends; report is what it has printed and after the files it leaves.
Exit(r, code, report, after) ==
    /\ run' = Idle
    /\ history' = Append(history,
          [cmd |-> r.cmd, config |-> r.config, before |-> r.before, touched |-> r.touched,
           after |-> after, code |-> code, report |-> report])

StartCheck(c) ==
    LET config == ResolveConfig(c)
        missing == \E i \in DOMAIN c.paths : c.paths[i] \in Files /\ disk[c.paths[i]] = Absent IN
    /\ c.kind = "check"
    /\ IF ~c.usage \/ missing \/ config = Bad
       THEN Exit(Started(c, config), 2, <<>>, disk)
       ELSE /\ run' = [cmd |-> c, config |-> config, before |-> disk, touched |-> {},
                       at |-> "index", todo |-> DiscoverTemplates(Present(disk), Roots(c, config), config),
                       index |-> <<>>, read |-> <<>>]
            /\ UNCHANGED history

\* build_workspace: of the files of a name the first is indexed.
Indexed(index, key, entry) ==
    [k \in DOMAIN index \cup {key} |-> IF k \in DOMAIN index THEN index[k] ELSE entry]

IndexFile ==
    /\ run.at = "index" /\ run.todo # <<>>
    /\ LET f == Head(run.todo) IN
       run' = [run EXCEPT !.todo = Tail(@),
                          !.index = Indexed(@, RelativeKey(f, Roots(run.cmd, run.config)),
                                            [file |-> f, text |-> ReadOrEmpty(f)])]
    /\ UNCHANGED <<disk, configs, history, edits>>

\* collect_diagnostics, in the order of a hash map
CollectFile ==
    /\ run.at = "index" /\ run.todo = <<>>
    /\ \E key \in DOMAIN run.index \ {run.read[i].key : i \in DOMAIN run.read} :
          LET f == run.index[key].file IN
          run' = [run EXCEPT !.read = Append(@, [key |-> key, file |-> f, text |-> ReadOrEmpty(f)])]
    /\ UNCHANGED <<disk, configs, history, edits>>

ReportFindings ==
    /\ run.at = "index" /\ run.todo = <<>>
    /\ Len(run.read) = Cardinality(DOMAIN run.index)
    /\ IF Panics THEN Exit(run, PanicCode, <<>>, disk)
       ELSE Exit(run, IF Report = <<>> THEN 0 ELSE 1, Report, disk)
    /\ UNCHANGED <<disk, configs, edits>>

StartFormat(c) ==
    LET config == FormatConfig(c)
        files == FilesToFormat(Present(disk), c, config) IN
    /\ c.kind = "format"
    /\ IF config = Bad \/ (c.output \in Files /\ Len(files) > 1)
       THEN Exit(Started(c, config), 2, <<>>, disk)
       ELSE /\ run' = [cmd |-> c, config |-> config, before |-> disk, touched |-> {},
                       at |-> "read", todo |-> files, source |-> None, changed |-> 0]
            /\ UNCHANGED history

Start ==
    /\ run = Idle
    /\ Len(history) < MaxCommands
    /\ \E c \in Commands : StartCheck(c) \/ StartFormat(c)
    /\ UNCHANGED <<disk, configs, edits>>

FormatRead ==
    /\ run.at = "read" /\ run.todo # <<>>
    /\ LET text == disk[Head(run.todo)] IN
       IF text \in Texts
       THEN /\ run' = [run EXCEPT !.at = "write", !.source = text]
            /\ UNCHANGED history
       ELSE Exit(run, 2, <<>>, disk)
    /\ UNCHANGED <<disk, configs, edits>>

\* Mutant: --diff writes.
TargetUnlessCheck(c, f, changed) ==
    IF c.output # None THEN IF c.output = Stdout THEN None ELSE c.output
    ELSE IF changed /\ ~c.check THEN f ELSE None

\* Where the formatted text goes: a file, or None for the terminal or nowhere.
Target(c, f, changed) ==
    IF c.output # None THEN IF c.output = Stdout THEN None ELSE c.output
    ELSE IF changed /\ ~c.check /\ ~c.diff THEN f ELSE None

\* Mutant: the result of the write is dropped.
NeverFails(target) == FALSE

Fails(target) == target # None /\ target \in ReadOnly

FormatWrite ==
    /\ run.at = "write"
    /\ LET f == Head(run.todo)
           formatted == Formatted(f, run.source, run.config)
           changed == formatted # run.source
           target == Target(run.cmd, f, changed) IN
       /\ disk' = IF target = None \/ target \in ReadOnly THEN disk
                  ELSE [disk EXCEPT ![target] = formatted]
       /\ IF Fails(target)
          THEN Exit(run, 2, <<>>, disk)
          ELSE /\ run' = [run EXCEPT !.at = "read", !.todo = Tail(@), !.source = None,
                                     !.changed = IF changed THEN @ + 1 ELSE @]
               /\ UNCHANGED history
    /\ UNCHANGED <<configs, edits>>

ExitCode(changed) == IF changed > 0 THEN 1 ELSE 0

FormatDone ==
    /\ run.at = "read" /\ run.todo = <<>>
    /\ Exit(run, ExitCode(run.changed), <<>>, disk)
    /\ UNCHANGED <<disk, configs, edits>>

UserEdits ==
    /\ edits < MaxEdits
    /\ run # Idle
    /\ \E f \in Files \ ReadOnly, t \in Edited :
          /\ disk[f] # t
          /\ disk' = [disk EXCEPT ![f] = t]
          /\ run' = [run EXCEPT !.touched = @ \cup {f}]
    /\ edits' = edits + 1
    /\ UNCHANGED <<configs, history>>

Init ==
    /\ disk \in Disks
    /\ configs \in Layouts
    /\ run = Idle /\ history = <<>> /\ edits = 0

Next == Start \/ IndexFile \/ CollectFile \/ ReportFindings
        \/ FormatRead \/ FormatWrite \/ FormatDone \/ UserEdits

Spec == Init /\ [][Next]_vars

-----------------------------------------------------------------------------
(* Properties.  A command's outcome is compared with what its files, its   *)
(* configuration and its flags ask for, file by file; nothing is said of a *)
(* file the user edited while the command ran.                             *)

Runs == ToSet(history)

DirectoriesOnly(r) == ToSet(Roots(r.cmd, r.config)) \subseteq Dirs

\* What a check of directories has to look at: the files below them, but
\* not one whose name a file below an earlier directory has.
Below(r, f) == {i \in DOMAIN Roots(r.cmd, r.config) : Roots(r.cmd, r.config)[i] \in Inside[f]}

Discovered(r) ==
    {f \in Files : /\ Below(r, f) # {}
                   /\ r.before[f] # Absent
                   /\ Last(Parts[f]) \in r.config.extensions}

FirstBelow(r, f) == Min(Below(r, f))

NameOf(r, f) == RelativeTo[Roots(r.cmd, r.config)[FirstBelow(r, f)]][f]

Checked(r) ==
    {f \in Discovered(r) :
        \A g \in Discovered(r) :
            NameOf(r, g) = NameOf(r, f) => FirstBelow(r, f) <= FirstBelow(r, g)}

TextOf(r, f) == IF r.before[f] \in Texts THEN r.before[f] ELSE EmptyText

\* The findings f has, and those of them that are shown
Found(r, f) ==
    LET text == TextOf(r, f)
        needs == Needs[text] IN
    ToSet(Finds[text]) \cup
    IF needs = None \/ needs.key \in {NameOf(r, g) : g \in Discovered(r)}
    THEN {} ELSE {needs.finding}

Expected(r, f) ==
    LET select == r.config.select \cup r.cmd.select
        ignore == r.config.ignore \cup r.cmd.ignore
        lines == Lines[TextOf(r, f)] IN
    {InFile(f, d) : d \in
        {d \in Found(r, f) : Shown(d, select, ignore, lines)}
        \cup {d \in ToSet(InvalidIds(lines)) : Shown(d, select, ignore, <<>>)}}

ReportOf(r, f) == {d \in ToSet(r.report) : d.file = f}

\* A select list, and an ignore list, comes from the configuration or from a flag, not from both.
ByOne(r) ==
    /\ r.config.select = {} \/ r.cmd.select = {}
    /\ r.config.ignore = {} \/ r.cmd.ignore = {}

(* A check of directories reports, of every file that counts, exactly the  *)
(* findings the filters and the noqa comments leave, of no other file      *)
(* anything, and its exit status tells whether there are any (run_check,   *)
(* REQ-LINT-01, 03, 08).  Two questions on which code and documents differ *)
(* are left open: what a flag does to a list of the configuration (ByOne), *)
(* and what becomes of a file found under a name that is taken.            *)
ReportIsWanted ==
    \A r \in Runs : r.cmd.kind = "check" /\ r.code \in 0..1 /\ DirectoriesOnly(r) /\ ByOne(r) =>
        /\ \A f \in Checked(r) \ r.touched : ReportOf(r, f) = Expected(r, f)
        /\ \A f \in Files \ (Discovered(r) \cup r.touched) : ReportOf(r, f) = {}
        /\ r.touched = {} =>
              /\ (\E f \in Checked(r) : Expected(r, f) # {}) => r.code = 1
              /\ (\A f \in Discovered(r) : Expected(r, f) = {}) => r.code = 0

(* The same check of the same files prints the same report, although it    *)
(* goes through a hash map (run_check's sort, REQ-LINT-07).                *)
ReportIsGolden ==
    \A r, s \in Runs :
        /\ r.cmd = s.cmd /\ r.cmd.kind = "check"
        /\ r.before = s.before
        /\ r.touched = {} /\ s.touched = {}
        => r.report = s.report

\* The paths that ask a format for a file, and the files it is asked for
AskedBy(r, f) ==
    LET roots == IF r.config.templates = <<>> THEN {CWD} ELSE ToSet(r.config.templates)
        Allowed(p) == r.cmd.paths = <<>> \/ p \notin Relative \/ Inside[p] \cap roots # {}
        paths == Roots(r.cmd, r.config) IN
    {i \in DOMAIN paths :
        /\ r.before[f] # Absent
        /\ Allowed(paths[i])
        /\ paths[i] = f \/ (paths[i] \in Inside[f] /\ Last(Parts[f]) \in r.config.extensions)}

Chosen(r) == {f \in Files : AskedBy(r, f) # {}}

InPlace(c) == ~c.check /\ ~c.diff /\ c.output = None

Changes(r, f) == Formatted(f, r.before[f], r.config) # r.before[f]

\* Why a format must fail
Failing(r) ==
    \/ r.config = Bad
    \/ r.cmd.output \in Files /\ \E f, g \in Files : \E i \in AskedBy(r, f), j \in AskedBy(r, g) : <<f, i>> # <<g, j>>
    \/ \E f \in Chosen(r) : r.before[f] \notin Texts
    \/ \E f \in Chosen(r) : Fails(Target(r.cmd, f, Changes(r, f)))

(* A format that is not disturbed fails exactly when it must and otherwise *)
(* says whether it changed anything or would; in place it leaves all it    *)
(* was asked for formatted, and whatever its outcome a file it was not to  *)
(* write keeps its text and one it was to write is never half done         *)
(* (run_format, REQ-FMT-08, 09).                                           *)
FormatOutcome ==
    \A r \in Runs : r.cmd.kind = "format" =>
        /\ r.touched = {} =>
              r.code = IF Failing(r) THEN 2
                       ELSE IF \E f \in Chosen(r) : Changes(r, f) THEN 1 ELSE 0
        /\ \A f \in Files \ (r.touched \cup {r.cmd.output}) :
              IF r.config # Bad /\ f \in Chosen(r) /\ InPlace(r.cmd) /\ r.before[f] \in Texts
              THEN r.after[f] \in {Formatted(f, r.before[f], r.config)}
                                 \cup (IF r.code = 2 THEN {r.before[f]} ELSE {})
              ELSE r.after[f] = r.before[f]

(* Once a format in place has gone through, a --check of the same paths    *)
(* has nothing to report (the CI gate of F18).                             *)
GatePasses ==
    \A i \in 1..(Len(history) - 1) :
        LET r == history[i]
            s == history[i + 1] IN
        /\ r.cmd.kind = "format" /\ s.cmd.kind = "format"
        /\ InPlace(r.cmd) /\ r.code # 2
        /\ s.cmd = [r.cmd EXCEPT !.check = TRUE]
        /\ r.touched = {} /\ s.touched = {}
        => s.code = 0

=============================================================================
