--------------------------- MODULE LayeredConfig ---------------------------
(***************************************************************************)
(* What the server promises of its settings (specs/foundations/            *)
(* E15-app-config.md): per folder the configuration in force is the file's *)
(* with the editor's settings on top, key by key, and the registry is the  *)
(* one that this configuration builds.  Nothing here says when something   *)
(* is rebuilt; it must never show.                                         *)
(***************************************************************************)
CONSTANTS Folders, Fields, RegistryFields, Values

VARIABLES file, overlay, effective, registry

Configs == [Fields -> Values]

\* Editor settings: some of the fields, each with a value.
IsSettings(o) == DOMAIN o \subseteq Fields /\ o \in [DOMAIN o -> Values]

Layer(base, settings) ==
    [k \in Fields |-> IF k \in DOMAIN settings THEN settings[k] ELSE base[k]]

Registry(c) == [k \in RegistryFields |-> c[k]]

InForce ==
    /\ effective = [f \in Folders |-> Layer(file[f], overlay[f])]
    /\ registry = [f \in Folders |-> Registry(effective[f])]

Init ==
    /\ file \in [Folders -> Configs]
    /\ \A f \in Folders : IsSettings(overlay[f])
    /\ InForce

\* One folder's file, or its editor settings, change.
FileChanges(f) ==
    /\ file'[f] \in Configs
    /\ file' = [file EXCEPT ![f] = file'[f]]
    /\ UNCHANGED overlay
    /\ InForce'

SettingsChange(f) ==
    /\ IsSettings(overlay'[f])
    /\ overlay' = [overlay EXCEPT ![f] = overlay'[f]]
    /\ UNCHANGED file
    /\ InForce'

Next == \E f \in Folders : FileChanges(f) \/ SettingsChange(f)

Spec == Init /\ [][Next]_<<file, overlay, effective, registry>>
=============================================================================
