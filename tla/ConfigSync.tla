----------------------------- MODULE ConfigSync -----------------------------
(***************************************************************************)
(* The server's settings (src/config.rs, src/server/state.rs and the       *)
(* configuration half of src/server/mod.rs): which file each workspace     *)
(* folder discovers, the editor's overlay on the primary folder, what a    *)
(* reload rebuilds, and which folder a changed file reloads.               *)
(*                                                                         *)
(* A configuration is a function on its keys; the registry is the part of  *)
(* it that the registry is built from, and `scanned` the part that the     *)
(* folder's index was last built with.  A reload is one step here, scan    *)
(* included: how reloads and scans overlap is DocumentSync's subject.      *)
(***************************************************************************)
EXTENDS Naturals, Sequences

CONSTANTS
    Folders,     \* workspace folders; 0 is the primary one
    Dirs,        \* directories that can hold a configuration file
    Chain,       \* [Folders -> Seq(Dirs)], a folder's root and what is above it
    Within,      \* [Folders -> SUBSET Dirs], the directories under its root
    RootLength,  \* [Folders -> Nat], length of the root's path
    Values,      \* what a key can be set to
    Invalid,     \* the values that validation rejects, as <<key, value>>
    Default,     \* the configuration without any file
    FileTexts,   \* the configurations that files contain
    Payloads,    \* what the editor sends as settings
    MaxChanges,  \* bound on what the user does
    None, Bad, NoTable

Fields == {"templates", "extensions", "inline_patterns", "extras",
           "custom_builtins", "hints", "select", "ignore", "format"}
RegistryFields == {"extras", "custom_builtins", "hints"}
WorkspaceFields == {"templates", "extensions", "inline_patterns"}
ScanFields == {"templates", "extensions"}
Contents == [Fields -> Values]
IsSettings(o) == DOMAIN o \subseteq Fields \ {"format"} /\ o \in [DOMAIN o -> Values]
NoSettings == [k \in {} |-> None]

ASSUME FoldersAssumption == Folders \subseteq Nat /\ 0 \in Folders
ASSUME ChainAssumption ==
    /\ Chain \in [Folders -> Seq(Dirs)]
    /\ Within \in [Folders -> SUBSET Dirs]
    /\ RootLength \in [Folders -> Nat]
ASSUME ContentsAssumption ==
    /\ Default \in Contents
    /\ FileTexts \subseteq Contents
    /\ {None, Bad, NoTable} \cap Contents = {}
    /\ None \notin Dirs \X {"jinja.toml", "pyproject.toml"}
\* A payload: the keys it sets, and whether it has a `lint` table at all.
ASSUME PayloadsAssumption ==
    \A p \in Payloads : IsSettings(p.sets) /\ p.lint \in BOOLEAN
ASSUME BoundAssumption == MaxChanges \in Nat

VARIABLES
    jinja, pyproject,   \* the two files of each directory
    events, changes,    \* changed files not reported yet; number of user actions
    base_config, init_overlay,          \* primary folder only
    config, registry, config_file_path, \* per folder
    initialized,        \* the first scan is done and the watchers are registered
    scanned,            \* per folder; None before the first scan
    missed              \* history: folders with a change that nobody reported

disk == <<jinja, pyproject>>
server == <<base_config, init_overlay, config, registry, config_file_path>>
vars == <<disk, events, changes, server, initialized, scanned, missed>>

Paths == Dirs \X {"jinja.toml", "pyproject.toml"}

-----------------------------------------------------------------------------
(* Discovery *)

\* A directory settles the search, with a configuration or with an error.
Settles(d) == jinja[d] # None \/ pyproject[d] \notin {None, NoTable}

\* Mutant: the directory is recorded in place of the file.
FoundInDirectory(d) ==
    [cfg |-> IF jinja[d] # None THEN jinja[d] ELSE pyproject[d], path |-> d]

FoundIn(d) ==
    IF jinja[d] # None THEN [cfg |-> jinja[d], path |-> <<d, "jinja.toml">>]
    ELSE [cfg |-> pyproject[d], path |-> <<d, "pyproject.toml">>]

\* discover_with_path: the nearest directory that settles it.
Discover(f) ==
    LET nearest == {i \in DOMAIN Chain[f] :
                       /\ Settles(Chain[f][i])
                       /\ \A j \in 1..(i - 1) : ~Settles(Chain[f][j])} IN
    IF nearest = {} THEN [cfg |-> Default, path |-> None]
    ELSE FoundIn(Chain[f][CHOOSE i \in nearest : TRUE])

\* initialize: an error counts as no file.
DiscoverOrDefault(f) ==
    IF Discover(f).cfg = Bad THEN [cfg |-> Default, path |-> None] ELSE Discover(f)

-----------------------------------------------------------------------------
(* Layers *)

\* apply_overlay, key by key
ApplyOverlay(base, settings) ==
    [k \in Fields |-> IF k \in DOMAIN settings THEN settings[k] ELSE base[k]]

Valid(c) == \A k \in Fields : <<k, c[k]>> \notin Invalid

RegistryOf(c) == [k \in RegistryFields |-> c[k]]
ScopeOf(c) == [k \in ScanFields |-> c[k]]

\* Mutants: a key is left out of the comparison.
ConfigDeltaForgetsHints(old, new) ==
    [registry |-> \E k \in RegistryFields \ {"hints"} : old[k] # new[k],
     workspace |-> \E k \in WorkspaceFields : old[k] # new[k]]

ConfigDeltaForgetsExtensions(old, new) ==
    [registry |-> \E k \in RegistryFields : old[k] # new[k],
     workspace |-> \E k \in WorkspaceFields \ {"extensions"} : old[k] # new[k]]

ConfigDelta(old, new) ==
    [registry |-> \E k \in RegistryFields : old[k] # new[k],
     workspace |-> \E k \in WorkspaceFields : old[k] # new[k]]

\* Mutant: the overlay is stored whether or not the candidate is valid.
ApplyInitOptionsUnchecked(settings) ==
    LET candidate == ApplyOverlay(base_config, settings) IN
    /\ init_overlay' = settings
    /\ config' = [config EXCEPT ![0] = candidate]
    /\ registry' = [registry EXCEPT ![0] = RegistryOf(candidate)]

\* apply_init_options: all or nothing.
ApplyInitOptions(settings) ==
    LET candidate == ApplyOverlay(base_config, settings) IN
    IF Valid(candidate)
    THEN /\ init_overlay' = settings
         /\ config' = [config EXCEPT ![0] = candidate]
         /\ registry' = [registry EXCEPT ![0] = RegistryOf(candidate)]
    ELSE UNCHANGED <<init_overlay, config, registry>>

-----------------------------------------------------------------------------
(* Reload *)

\* The primary folder: reload_config_selective.
ReloadPrimary(found) ==
    LET new == found.cfg
        delta == ConfigDelta(config[0], new)
        layered == ApplyOverlay(new, init_overlay) IN
    /\ base_config' = new
    /\ config' = [config EXCEPT ![0] = layered]
    /\ registry' = IF delta.registry THEN [registry EXCEPT ![0] = RegistryOf(layered)]
                   ELSE registry
    /\ scanned' = IF delta.workspace THEN [scanned EXCEPT ![0] = ScopeOf(new)]
                  ELSE scanned

\* Another folder: no overlay.
ReloadExtra(f, found) ==
    LET new == found.cfg
        delta == ConfigDelta(config[f], new) IN
    /\ config' = [config EXCEPT ![f] = new]
    /\ registry' = IF delta.registry THEN [registry EXCEPT ![f] = RegistryOf(new)]
                   ELSE registry
    /\ scanned' = IF delta.workspace THEN [scanned EXCEPT ![f] = ScopeOf(new)]
                  ELSE scanned
    /\ UNCHANGED base_config

\* The last of the folders with the longest root, else the primary one.
Longest(owners) ==
    LET last == {f \in owners : \A g \in owners :
                    \/ RootLength[f] > RootLength[g]
                    \/ RootLength[f] = RootLength[g] /\ f >= g} IN
    IF last = {} THEN 0 ELSE CHOOSE f \in last : TRUE

\* Mutant: only the file that was found before counts.
ReloadTargetByPath(p) ==
    Longest({f \in Folders \ {0} : config_file_path[f] = p})

\* The folder a changed file reloads: another folder that holds it or discovered it.
ReloadTarget(p) ==
    Longest({f \in Folders \ {0} : config_file_path[f] = p \/ p[1] \in Within[f]})

\* reload_config_file: an error keeps what was in force.
ReloadConfigFile ==
    /\ events # <<>>
    /\ events' = Tail(events)
    /\ missed' = missed \ {ReloadTarget(Head(events))}
    /\ LET f == ReloadTarget(Head(events))
           found == Discover(f) IN
          IF found.cfg = Bad THEN UNCHANGED <<server, scanned>>
          ELSE /\ config_file_path' = [config_file_path EXCEPT ![f] = found.path]
               /\ IF f = 0 THEN ReloadPrimary(found) ELSE ReloadExtra(f, found)
               /\ UNCHANGED init_overlay
    /\ UNCHANGED <<disk, changes, initialized>>

\* did_change_configuration: a payload without any key is not looked at.
DidChangeConfiguration ==
    /\ changes < MaxChanges
    /\ changes' = changes + 1
    /\ \E p \in Payloads :
          /\ DOMAIN p.sets # {} \/ p.lint
          /\ ApplyInitOptions(p.sets)
    /\ UNCHANGED <<disk, events, base_config, config_file_path, initialized, scanned,
                   missed>>

\* The client's `initialized`: the first scan, then the file watchers.
Initialized ==
    /\ ~initialized
    /\ initialized' = TRUE
    /\ scanned' = [f \in Folders |-> ScopeOf(config[f])]
    /\ UNCHANGED <<disk, events, changes, server, missed>>

-----------------------------------------------------------------------------
(* The user's files: once they are watched, those under a folder's root are reported. *)

Watched == UNION {Within[f] : f \in Folders}

Report(p) ==
    IF initialized THEN events' = Append(events, p) /\ UNCHANGED missed
    ELSE /\ missed' = missed \cup {f \in Folders : \E i \in DOMAIN Chain[f] : Chain[f][i] = p[1]}
         /\ UNCHANGED events

FileWritten(d) ==
    /\ changes < MaxChanges
    /\ changes' = changes + 1
    /\ \/ /\ \E t \in FileTexts \cup {None, Bad} : jinja' = [jinja EXCEPT ![d] = t]
          /\ Report(<<d, "jinja.toml">>)
          /\ UNCHANGED pyproject
       \/ /\ \E t \in FileTexts \cup {None, Bad, NoTable} :
                pyproject' = [pyproject EXCEPT ![d] = t]
          /\ Report(<<d, "pyproject.toml">>)
          /\ UNCHANGED jinja
    /\ UNCHANGED <<server, initialized, scanned>>

-----------------------------------------------------------------------------
\* initialize: discovery for every folder, then the options on the primary one.
Init ==
    /\ jinja \in [Dirs -> FileTexts \cup {None, Bad}]
    /\ pyproject \in [Dirs -> {None, NoTable}]
    /\ events = <<>>
    /\ changes = 0
    /\ base_config = DiscoverOrDefault(0).cfg
    /\ config_file_path = [f \in Folders |-> DiscoverOrDefault(f).path]
    /\ \E o \in {p.sets : p \in Payloads} \cup {NoSettings} :
          LET candidate == ApplyOverlay(base_config, o) IN
          /\ init_overlay = IF Valid(candidate) THEN o ELSE NoSettings
          /\ config = [f \in Folders |-> IF f # 0 THEN DiscoverOrDefault(f).cfg
                                         ELSE IF Valid(candidate) THEN candidate
                                         ELSE base_config]
    /\ registry = [f \in Folders |-> RegistryOf(config[f])]
    /\ initialized = FALSE
    /\ scanned = [f \in Folders |-> None]
    /\ missed = {}

Next ==
    \/ ReloadConfigFile
    \/ DidChangeConfiguration
    \/ Initialized
    \/ \E d \in Watched : FileWritten(d)

Spec == Init /\ [][Next]_vars

-----------------------------------------------------------------------------
(* Types and properties *)

TypeOK ==
    /\ jinja \in [Dirs -> Contents \cup {None, Bad}]
    /\ pyproject \in [Dirs -> Contents \cup {None, Bad, NoTable}]
    /\ events \in Seq(Paths)
    /\ changes \in 0..MaxChanges
    /\ base_config \in Contents
    /\ IsSettings(init_overlay)
    /\ config \in [Folders -> Contents]
    /\ registry \in [Folders -> [RegistryFields -> Values]]
    /\ config_file_path \in [Folders -> Paths \cup {None}]
    /\ initialized \in BOOLEAN
    /\ scanned \in [Folders -> [ScanFields -> Values] \cup {None}]
    /\ missed \subseteq Folders

\* The file a folder's settings start from, and what the editor puts on top.
FileOf == [f \in Folders |-> IF f = 0 THEN base_config ELSE config[f]]
OverlayOf == [f \in Folders |-> IF f = 0 THEN init_overlay ELSE NoSettings]

Layered == INSTANCE LayeredConfig WITH
    file <- FileOf, overlay <- OverlayOf, effective <- config

\* The selective reload is invisible: although the registry is rebuilt only for some
\* changes, judged by comparing the layered settings with the bare file, at every
\* moment file, overlay, settings in force and registry fit together.
ImplementsLayers == Layered!Spec

\* An editor cannot bring invalid settings into force on a valid file, not even by
\* an overlay that was accepted on top of another file.
ValidFileValidSettings == Valid(base_config) => Valid(config[0])

\* Editing configuration files needs no restart (REQ-CFG-10): once the reported
\* changes are handled every folder is on the file that it would discover now, unless
\* that file does not parse.
OnDiskNow(f) == Discover(f).cfg # Bad => FileOf[f] = Discover(f).cfg

FollowsDisk == events = <<>> => \A f \in Folders \ missed : OnDiskNow(f)

\* As long as the editor does not set what is scanned, a folder's index was built
\* with the template directories and extensions in force.
ScanFollowsSettings ==
    \A f \in Folders : scanned[f] # None => scanned[f] = ScopeOf(config[f])
=============================================================================
