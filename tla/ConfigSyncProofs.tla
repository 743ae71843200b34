-------------------------- MODULE ConfigSyncProofs --------------------------
(* Theorems about ConfigSync, for every value of its constants. *)
EXTENDS ConfigSync, SequenceTheorems, TLAPS

\* The settings in force and the registry are those of the layers.
Fit ==
    /\ config[0] = ApplyOverlay(base_config, init_overlay)
    /\ \A f \in Folders : registry[f] = RegistryOf(config[f])

\* What the editor has in force was accepted by validation.
OverlayValid == \A k \in DOMAIN init_overlay : <<k, init_overlay[k]>> \notin Invalid

DiskOK ==
    /\ jinja \in [Dirs -> Contents \cup {None, Bad}]
    /\ pyproject \in [Dirs -> Contents \cup {None, Bad, NoTable}]

IInv == TypeOK /\ Fit /\ OverlayValid

-----------------------------------------------------------------------------
LEMMA FieldSets ==
    /\ RegistryFields \subseteq Fields
    /\ ScanFields \subseteq Fields
PROOF
  BY DEF RegistryFields, ScanFields, Fields

LEMMA NoSettingsType == IsSettings(NoSettings) /\ DOMAIN NoSettings = {}
PROOF
  BY DEF IsSettings, NoSettings

LEMMA OverlayType ==
    ASSUME NEW c \in Contents, NEW o, IsSettings(o)
    PROVE  ApplyOverlay(c, o) \in Contents
PROOF
<1>1. ASSUME NEW k \in Fields
      PROVE  (IF k \in DOMAIN o THEN o[k] ELSE c[k]) \in Values
  BY DEF IsSettings, Contents
<1> QED
  BY <1>1 DEF ApplyOverlay, Contents

LEMMA NothingOnTop ==
    ASSUME NEW c \in Contents
    PROVE  ApplyOverlay(c, NoSettings) = c
PROOF
  BY NoSettingsType DEF ApplyOverlay, Contents

LEMMA PartTypes ==
    ASSUME NEW c \in Contents
    PROVE  /\ RegistryOf(c) \in [RegistryFields -> Values]
           /\ ScopeOf(c) \in [ScanFields -> Values]
PROOF
  BY FieldSets DEF RegistryOf, ScopeOf, Contents

\* Discovery finds a configuration, nothing, or an error.
LEMMA DiscoverType ==
    ASSUME DiskOK, NEW f \in Folders
    PROVE  /\ Discover(f).cfg \in Contents \cup {Bad}
           /\ Discover(f).path \in Paths \cup {None}
PROOF
<1> DEFINE nearest == {i \in DOMAIN Chain[f] :
                          /\ Settles(Chain[f][i])
                          /\ \A j \in 1..(i - 1) : ~Settles(Chain[f][j])}
<1>1. CASE nearest = {}
  <2>1. Discover(f) = [cfg |-> Default, path |-> None]
    BY <1>1 DEF Discover
  <2> QED
    BY <2>1, ContentsAssumption
<1>2. CASE nearest # {}
  <2>1. PICK d \in Dirs : Settles(d) /\ Discover(f) = FoundIn(d)
    <3>1. PICK i \in nearest : Discover(f) = FoundIn(Chain[f][i])
      BY <1>2 DEF Discover
    <3>2. Chain[f][i] \in Dirs /\ Settles(Chain[f][i])
      BY ChainAssumption
    <3> QED
      BY <3>1, <3>2
  <2>2. CASE jinja[d] # None
    <3>1. Discover(f) = [cfg |-> jinja[d], path |-> <<d, "jinja.toml">>]
      BY <2>1, <2>2 DEF FoundIn
    <3>2. jinja[d] \in Contents \cup {Bad}
      BY <2>2 DEF DiskOK
    <3> QED
      BY <3>1, <3>2 DEF Paths
  <2>3. CASE jinja[d] = None
    <3>1. Discover(f) = [cfg |-> pyproject[d], path |-> <<d, "pyproject.toml">>]
      BY <2>1, <2>3 DEF FoundIn
    <3>2. pyproject[d] \in Contents \cup {Bad}
      BY <2>1, <2>3 DEF DiskOK, Settles
    <3> QED
      BY <3>1, <3>2 DEF Paths
  <2> QED
    BY <2>2, <2>3
<1> QED
  BY <1>1, <1>2

LEMMA DefaultType ==
    ASSUME DiskOK, NEW f \in Folders
    PROVE  /\ DiscoverOrDefault(f).cfg \in Contents
           /\ DiscoverOrDefault(f).path \in Paths \cup {None}
PROOF
<1>1. CASE Discover(f).cfg = Bad
  <2>1. DiscoverOrDefault(f) = [cfg |-> Default, path |-> None]
    BY <1>1 DEF DiscoverOrDefault
  <2> QED
    BY <2>1, ContentsAssumption
<1>2. CASE Discover(f).cfg # Bad
  <2>1. DiscoverOrDefault(f) = Discover(f)
    BY <1>2 DEF DiscoverOrDefault
  <2> QED
    BY <1>2, <2>1, DiscoverType
<1> QED
  BY <1>1, <1>2

LEMMA TargetType == \A p : ReloadTarget(p) \in Folders
PROOF
<1>1. ASSUME NEW S \in SUBSET Folders
      PROVE  Longest(S) \in Folders
  BY FoldersAssumption DEF Longest
<1> QED
  BY <1>1 DEF ReloadTarget

\* The comparison is the one that matters: with the overlay in force, the registry
\* of the settings changes only if the bare file differs from those settings.
LEMMA DeltaSuffices ==
    ASSUME NEW base \in Contents, NEW new \in Contents, NEW o, IsSettings(o),
           NEW old, old = ApplyOverlay(base, o),
           ~ConfigDelta(old, new).registry
    PROVE  RegistryOf(ApplyOverlay(new, o)) = RegistryOf(old)
PROOF
<1>1. \A k \in RegistryFields : old[k] = new[k]
  BY DEF ConfigDelta
<1>2. ASSUME NEW k \in RegistryFields
      PROVE  ApplyOverlay(new, o)[k] = old[k]
  BY <1>1, FieldSets DEF ApplyOverlay
<1> QED
  BY <1>2 DEF RegistryOf

-----------------------------------------------------------------------------
(* The invariant *)

LEMMA InitInv == Init => IInv
PROOF
<1> SUFFICES ASSUME Init PROVE IInv
  OBVIOUS
<1>1. DiskOK
  BY ContentsAssumption DEF Init, DiskOK
<1>2. PICK o : /\ o \in {p.sets : p \in Payloads} \cup {NoSettings}
               /\ init_overlay = IF Valid(ApplyOverlay(base_config, o)) THEN o ELSE NoSettings
               /\ config = [f \in Folders |->
                     IF f # 0 THEN DiscoverOrDefault(f).cfg
                     ELSE IF Valid(ApplyOverlay(base_config, o))
                          THEN ApplyOverlay(base_config, o) ELSE base_config]
  BY DEF Init
<1>3. IsSettings(o)
  BY <1>2, NoSettingsType, PayloadsAssumption
<1>4. base_config \in Contents
  BY <1>1, DefaultType, FoldersAssumption DEF Init
<1>5. IsSettings(init_overlay)
  BY <1>2, <1>3, NoSettingsType
<1>6. config[0] = ApplyOverlay(base_config, init_overlay)
  BY <1>2, <1>4, NothingOnTop, FoldersAssumption
<1>7. config \in [Folders -> Contents]
  BY <1>1, <1>2, <1>3, <1>4, DefaultType, OverlayType
<1>8. \A f \in Folders : registry[f] = RegistryOf(config[f])
  BY DEF Init
<1>9. registry \in [Folders -> [RegistryFields -> Values]]
  BY <1>7, PartTypes DEF Init
<1>10. config_file_path \in [Folders -> Paths \cup {None}]
  BY <1>1, DefaultType DEF Init
<1>11. scanned \in [Folders -> [ScanFields -> Values] \cup {None}]
  BY DEF Init
<1>12. TypeOK
  <2>1. events \in Seq(Paths)
    <3>1. events = <<>>
      BY DEF Init
    <3> QED
      BY <3>1, EmptySeq
  <2>2. changes \in 0..MaxChanges
    <3>1. changes = 0
      BY DEF Init
    <3> QED
      BY <3>1, BoundAssumption
  <2>3. initialized \in BOOLEAN /\ missed \in SUBSET Folders
    BY DEF Init
  <2> QED
    BY <1>1, <1>4, <1>5, <1>7, <1>9, <1>10, <1>11, <2>1, <2>2, <2>3 DEF TypeOK, DiskOK
<1>13. OverlayValid
  <2>1. CASE Valid(ApplyOverlay(base_config, o))
    BY <1>2, <1>3, <2>1 DEF OverlayValid, Valid, ApplyOverlay, IsSettings
  <2>2. CASE ~Valid(ApplyOverlay(base_config, o))
    BY <1>2, <2>2, NoSettingsType DEF OverlayValid
  <2> QED
    BY <2>1, <2>2
<1> QED
  BY <1>6, <1>8, <1>12, <1>13 DEF IInv, Fit

LEMMA OptionsInv ==
    ASSUME IInv, DidChangeConfiguration
    PROVE  IInv'
PROOF
<1> USE DEF IInv
<1>1. PICK p \in Payloads : ApplyInitOptions(p.sets)
  BY DEF DidChangeConfiguration
<1> DEFINE candidate == ApplyOverlay(base_config, p.sets)
<1>2. IsSettings(p.sets)
  BY PayloadsAssumption
<1>3. candidate \in Contents
  BY <1>2, OverlayType DEF TypeOK
<1>4. changes' \in 0..MaxChanges
  BY BoundAssumption DEF DidChangeConfiguration, TypeOK
<1>5. CASE Valid(candidate)
  <2>1. /\ init_overlay' = p.sets
        /\ config' = [config EXCEPT ![0] = candidate]
        /\ registry' = [registry EXCEPT ![0] = RegistryOf(candidate)]
    BY <1>1, <1>5 DEF ApplyInitOptions
  <2>2. RegistryOf(candidate) \in [RegistryFields -> Values]
    BY <1>3, PartTypes
  <2> HIDE DEF candidate
  <2>3. config' \in [Folders -> Contents] /\ registry' \in [Folders -> [RegistryFields -> Values]]
    BY <1>3, <2>1, <2>2 DEF TypeOK
  <2>4. TypeOK'
    BY <1>2, <1>4, <2>1, <2>3 DEF TypeOK, DidChangeConfiguration, disk
  <2>5. \A f \in Folders : registry'[f] = RegistryOf(config'[f])
    BY <2>1, FoldersAssumption DEF TypeOK, Fit
  <2>6. config'[0] = ApplyOverlay(base_config', init_overlay')
    BY <2>1, FoldersAssumption DEF TypeOK, DidChangeConfiguration, candidate
  <2>7. OverlayValid'
    BY <1>2, <1>5, <2>1 DEF OverlayValid, Valid, ApplyOverlay, IsSettings, candidate
  <2> QED
    BY <2>4, <2>5, <2>6, <2>7 DEF Fit
<1>6. CASE ~Valid(candidate)
  <2>1. UNCHANGED <<init_overlay, config, registry>>
    BY <1>1, <1>6 DEF ApplyInitOptions
  <2> QED
    BY <1>4, <2>1 DEF TypeOK, Fit, OverlayValid, DidChangeConfiguration, disk
<1> QED
  BY <1>5, <1>6

LEMMA PrimaryInv ==
    ASSUME IInv, NEW found, found.cfg \in Contents, ReloadPrimary(found), UNCHANGED init_overlay
    PROVE  /\ base_config' \in Contents
           /\ config' \in [Folders -> Contents]
           /\ registry' \in [Folders -> [RegistryFields -> Values]]
           /\ scanned' \in [Folders -> [ScanFields -> Values] \cup {None}]
           /\ Fit'
PROOF
<1> DEFINE new == found.cfg
           layered == ApplyOverlay(new, init_overlay)
<1> USE DEF IInv
<1>1. new \in Contents /\ IsSettings(init_overlay) /\ base_config \in Contents
  BY DEF TypeOK
<1>2. layered \in Contents
  BY <1>1, OverlayType
<1>3. RegistryOf(layered) \in [RegistryFields -> Values] /\ ScopeOf(new) \in [ScanFields -> Values]
  BY <1>1, <1>2, PartTypes
<1>4. /\ base_config' = new
      /\ config' = [config EXCEPT ![0] = layered]
      /\ \/ registry' = [registry EXCEPT ![0] = RegistryOf(layered)]
         \/ registry' = registry /\ ~ConfigDelta(config[0], new).registry
      /\ \/ scanned' = [scanned EXCEPT ![0] = ScopeOf(new)]
         \/ scanned' = scanned
  BY DEF ReloadPrimary
<1>5. registry' = registry => registry[0] = RegistryOf(layered)
  <2>1. ASSUME ~ConfigDelta(config[0], new).registry
        PROVE  RegistryOf(layered) = RegistryOf(config[0])
    BY <1>1, <2>1, DeltaSuffices DEF Fit
  <2>2. registry[0] = RegistryOf(config[0])
    BY FoldersAssumption DEF Fit
  <2>3. ASSUME registry' = [registry EXCEPT ![0] = RegistryOf(layered)], registry' = registry
        PROVE  registry[0] = RegistryOf(layered)
    BY <2>3, FoldersAssumption DEF TypeOK
  <2> QED
    BY <1>4, <2>1, <2>2, <2>3
<1> HIDE DEF new, layered
<1>6. \A f \in Folders : registry'[f] = RegistryOf(config'[f])
  BY <1>4, <1>5, FoldersAssumption DEF TypeOK, Fit
<1>7. config'[0] = ApplyOverlay(base_config', init_overlay')
  BY <1>4, FoldersAssumption DEF TypeOK, layered
<1> QED
  BY <1>1, <1>2, <1>3, <1>4, <1>6, <1>7 DEF TypeOK, Fit

LEMMA ExtraInv ==
    ASSUME IInv, NEW found, found.cfg \in Contents, NEW f \in Folders \ {0},
           ReloadExtra(f, found), UNCHANGED init_overlay
    PROVE  /\ base_config' \in Contents
           /\ config' \in [Folders -> Contents]
           /\ registry' \in [Folders -> [RegistryFields -> Values]]
           /\ scanned' \in [Folders -> [ScanFields -> Values] \cup {None}]
           /\ Fit'
PROOF
<1> DEFINE new == found.cfg
<1> USE DEF IInv
<1>1. RegistryOf(new) \in [RegistryFields -> Values] /\ ScopeOf(new) \in [ScanFields -> Values]
  BY PartTypes
<1>2. /\ base_config' = base_config
      /\ config' = [config EXCEPT ![f] = new]
      /\ \/ registry' = [registry EXCEPT ![f] = RegistryOf(new)]
         \/ registry' = registry /\ ~ConfigDelta(config[f], new).registry
      /\ \/ scanned' = [scanned EXCEPT ![f] = ScopeOf(new)]
         \/ scanned' = scanned
  BY DEF ReloadExtra
<1>3. registry' = registry => registry[f] = RegistryOf(new)
  <2>1. ASSUME ~ConfigDelta(config[f], new).registry
        PROVE  RegistryOf(new) = RegistryOf(config[f])
    BY <2>1 DEF ConfigDelta, RegistryOf
  <2>2. registry[f] = RegistryOf(config[f])
    BY DEF Fit
  <2>3. ASSUME registry' = [registry EXCEPT ![f] = RegistryOf(new)], registry' = registry
        PROVE  registry[f] = RegistryOf(new)
    BY <2>3 DEF TypeOK
  <2> QED
    BY <1>2, <2>1, <2>2, <2>3
<1> HIDE DEF new
<1>4. \A g \in Folders : registry'[g] = RegistryOf(config'[g])
  BY <1>2, <1>3 DEF TypeOK, Fit
<1>5. config'[0] = ApplyOverlay(base_config', init_overlay')
  BY <1>2, FoldersAssumption DEF TypeOK, Fit
<1>6. new \in Contents
  BY DEF new
<1> QED
  BY <1>1, <1>2, <1>4, <1>5, <1>6 DEF TypeOK, Fit

LEMMA ReloadInv ==
    ASSUME IInv, ReloadConfigFile
    PROVE  IInv'
PROOF
<1> DEFINE f == ReloadTarget(Head(events))
           found == Discover(f)
<1> USE DEF IInv
<1>1. f \in Folders
  BY TargetType
<1>2. found.cfg \in Contents \cup {Bad} /\ found.path \in Paths \cup {None}
  BY <1>1, DiscoverType DEF TypeOK, DiskOK
<1>3. events' \in Seq(Paths)
  BY HeadTailProperties DEF ReloadConfigFile, TypeOK
<1>4. CASE found.cfg = Bad
  <2>1. /\ UNCHANGED <<server, scanned, disk, changes, initialized>>
        /\ missed' \subseteq missed
    BY <1>4 DEF ReloadConfigFile
  <2> QED
    BY <1>3, <2>1 DEF TypeOK, Fit, OverlayValid, server, disk
<1>5. CASE found.cfg # Bad
  <2>1. /\ config_file_path' = [config_file_path EXCEPT ![f] = found.path]
        /\ IF f = 0 THEN ReloadPrimary(found) ELSE ReloadExtra(f, found)
        /\ UNCHANGED init_overlay
        /\ UNCHANGED <<disk, changes, initialized>>
        /\ missed' \subseteq missed
    BY <1>5 DEF ReloadConfigFile
  <2>2. found.cfg \in Contents
    BY <1>2, <1>5
  <2> HIDE DEF f, found
  <2>3. /\ base_config' \in Contents
        /\ config' \in [Folders -> Contents]
        /\ registry' \in [Folders -> [RegistryFields -> Values]]
        /\ scanned' \in [Folders -> [ScanFields -> Values] \cup {None}]
        /\ Fit'
    BY <1>1, <2>1, <2>2, PrimaryInv, ExtraInv
  <2>4. config_file_path' \in [Folders -> Paths \cup {None}]
    BY <1>2, <2>1 DEF TypeOK
  <2>5. TypeOK'
    BY <1>3, <2>1, <2>3, <2>4 DEF TypeOK, disk
  <2>6. OverlayValid'
    BY <2>1 DEF OverlayValid
  <2> QED
    BY <2>3, <2>5, <2>6
<1> QED
  BY <1>4, <1>5

LEMMA InitializedInv ==
    ASSUME IInv, Initialized
    PROVE  IInv'
PROOF
<1> USE DEF IInv
<1>1. scanned' \in [Folders -> [ScanFields -> Values] \cup {None}]
  BY PartTypes DEF Initialized, TypeOK
<1> QED
  BY <1>1 DEF Initialized, TypeOK, Fit, OverlayValid, server, disk

LEMMA WriteInv ==
    ASSUME IInv, NEW d \in Watched, FileWritten(d)
    PROVE  IInv'
PROOF
<1> USE DEF IInv
<1>1. d \in Dirs
  BY ChainAssumption DEF Watched
<1>2. <<d, "jinja.toml">> \in Paths /\ <<d, "pyproject.toml">> \in Paths
  BY <1>1 DEF Paths
<1>3. DiskOK'
  BY <1>1, ContentsAssumption DEF FileWritten, TypeOK, DiskOK
<1>4. events' \in Seq(Paths)
  <2>1. events' = events \/ \E p \in Paths : events' = Append(events, p)
    BY <1>2 DEF FileWritten, Report
  <2> QED
    BY <2>1, AppendProperties DEF TypeOK
<1>5. changes' \in 0..MaxChanges
  BY BoundAssumption DEF FileWritten, TypeOK
<1>6. UNCHANGED <<server, initialized, scanned>>
  BY DEF FileWritten
<1>7. missed' \subseteq Folders
  BY DEF FileWritten, Report, TypeOK
<1> QED
  BY <1>3, <1>4, <1>5, <1>6, <1>7 DEF TypeOK, DiskOK, Fit, OverlayValid, server

LEMMA StepInv == IInv /\ [Next]_vars => IInv'
PROOF
<1> SUFFICES ASSUME IInv, [Next]_vars PROVE IInv'
  OBVIOUS
<1>1. CASE UNCHANGED vars
  BY <1>1 DEF vars, server, disk, IInv, TypeOK, Fit, OverlayValid
<1>2. CASE Next
  BY <1>2, ReloadInv, OptionsInv, InitializedInv, WriteInv DEF Next
<1> QED
  BY <1>1, <1>2

LEMMA Invariance == Spec => []IInv
PROOF
  BY InitInv, StepInv, PTL DEF Spec

\* Every reachable state is well typed, however discovery, overlay and reloads
\* alternate.
THEOREM TypeCorrect == Spec => []TypeOK
PROOF
<1>1. IInv => TypeOK
  BY DEF IInv
<1> QED
  BY <1>1, Invariance, PTL

-----------------------------------------------------------------------------
(* Validity *)

\* An editor cannot bring invalid settings into force on a valid file: a key in force
\* comes from the file, or from an overlay that validation accepted with that key.
THEOREM ValidStaysValid == Spec => []ValidFileValidSettings
PROOF
<1>1. IInv => ValidFileValidSettings
  <2> SUFFICES ASSUME IInv, Valid(base_config), NEW k \in Fields
               PROVE  <<k, config[0][k]>> \notin Invalid
    BY DEF ValidFileValidSettings, Valid
  <2>1. config[0][k] = IF k \in DOMAIN init_overlay THEN init_overlay[k] ELSE base_config[k]
    BY DEF IInv, Fit, ApplyOverlay
  <2> QED
    BY <2>1 DEF IInv, OverlayValid, Valid
<1> QED
  BY <1>1, Invariance, PTL

-----------------------------------------------------------------------------
(* Refinement *)

\* The mapped state is in force whenever the invariant holds.
LEMMA MappedInForce == IInv => Layered!InForce
PROOF
<1> SUFFICES ASSUME IInv PROVE Layered!InForce
  OBVIOUS
<1>1. ASSUME NEW f \in Folders
      PROVE  config[f] = Layered!Layer(FileOf[f], OverlayOf[f])
  <2>1. CASE f = 0
    <3>1. FileOf[f] = base_config /\ OverlayOf[f] = init_overlay
      BY <2>1 DEF FileOf, OverlayOf
    <3> QED
      BY <2>1, <3>1 DEF IInv, Fit, ApplyOverlay, Layered!Layer
  <2>2. CASE f # 0
    <3>1. FileOf[f] = config[f] /\ OverlayOf[f] = NoSettings
      BY <2>2 DEF FileOf, OverlayOf
    <3>2. config[f] \in [Fields -> Values]
      BY DEF IInv, TypeOK, Contents
    <3> QED
      BY <3>1, <3>2, NoSettingsType DEF Layered!Layer
  <2> QED
    BY <2>1, <2>2
<1>2. \A f \in Folders : registry[f] = Layered!Registry(config[f])
  BY DEF IInv, Fit, RegistryOf, Layered!Registry
<1>3. DOMAIN config = Folders /\ DOMAIN registry = Folders
  BY DEF IInv, TypeOK
<1>4. config = [f \in Folders |-> Layered!Layer(FileOf[f], OverlayOf[f])]
  BY <1>1, <1>3 DEF IInv, TypeOK
<1>5. registry = [f \in Folders |-> Layered!Registry(config[f])]
  BY <1>2, <1>3 DEF IInv, TypeOK
<1> QED
  BY <1>4, <1>5 DEF Layered!InForce

LEMMA MappedInForceNext == IInv' => Layered!InForce'
PROOF
  BY MappedInForce, PTL

LEMMA MappedTypes ==
    ASSUME IInv
    PROVE  /\ FileOf \in [Folders -> Contents]
           /\ \A f \in Folders : Layered!IsSettings(OverlayOf[f])
PROOF
<1>1. FileOf \in [Folders -> Contents]
  BY DEF IInv, TypeOK, FileOf
<1>2. ASSUME NEW o, IsSettings(o)
      PROVE  Layered!IsSettings(o)
  BY <1>2 DEF IsSettings, Layered!IsSettings
<1>3. IsSettings(init_overlay) /\ IsSettings(NoSettings)
  BY NoSettingsType DEF IInv, TypeOK
<1>4. ASSUME NEW f \in Folders
      PROVE  Layered!IsSettings(OverlayOf[f])
  <2>1. OverlayOf[f] = init_overlay \/ OverlayOf[f] = NoSettings
    BY DEF OverlayOf
  <2> QED
    BY <1>2, <1>3, <2>1
<1> QED
  BY <1>1, <1>4

Mapped == <<FileOf, OverlayOf, config, registry>>

\* A reload puts one folder on the file it found, and the others stay on theirs.
LEMMA OneFileChanges ==
    ASSUME IInv, NEW f \in Folders, NEW found,
           IF f = 0 THEN ReloadPrimary(found) ELSE ReloadExtra(f, found)
    PROVE  /\ FileOf'[f] = found.cfg
           /\ \A g \in Folders \ {f} : FileOf'[g] = FileOf[g]
PROOF
<1>1. CASE f = 0
  <2>1. /\ config' = [config EXCEPT ![0] = ApplyOverlay(found.cfg, init_overlay)]
        /\ base_config' = found.cfg
    BY <1>1 DEF ReloadPrimary
  <2>2. \A g \in Folders \ {0} : config'[g] = config[g]
    BY <2>1 DEF IInv, TypeOK
  <2> QED
    BY <1>1, <2>1, <2>2 DEF FileOf
<1>2. CASE f # 0
  <2>1. config' = [config EXCEPT ![f] = found.cfg] /\ base_config' = base_config
    BY <1>2 DEF ReloadExtra
  <2>2. config'[f] = found.cfg /\ \A g \in Folders \ {f} : config'[g] = config[g]
    BY <2>1 DEF IInv, TypeOK
  <2> QED
    BY <1>2, <2>1, <2>2 DEF FileOf
<1> QED
  BY <1>1, <1>2

\* A reload changes one folder's file and nothing of the overlay.
LEMMA ReloadMaps ==
    ASSUME IInv, IInv', ReloadConfigFile
    PROVE  Layered!Next \/ UNCHANGED Mapped
PROOF
<1> DEFINE f == ReloadTarget(Head(events))
           found == Discover(f)
<1>1. f \in Folders
  BY TargetType
<1>2. CASE found.cfg = Bad
  <2>1. UNCHANGED server
    BY <1>2 DEF ReloadConfigFile
  <2> QED
    BY <2>1 DEF server, Mapped, FileOf, OverlayOf
<1>3. CASE found.cfg # Bad
  <2>1. /\ IF f = 0 THEN ReloadPrimary(found) ELSE ReloadExtra(f, found)
        /\ UNCHANGED init_overlay
    BY <1>3 DEF ReloadConfigFile
  <2> HIDE DEF f, found
  <2>2. \A g \in Folders \ {f} : FileOf'[g] = FileOf[g]
    BY <1>1, <2>1, OneFileChanges
  <2>3. FileOf \in [Folders -> Contents] /\ FileOf' \in [Folders -> Contents]
    BY MappedTypes DEF IInv, TypeOK, FileOf
  <2>4. FileOf' = [FileOf EXCEPT ![f] = FileOf'[f]]
    BY <1>1, <2>2, <2>3
  <2>5. OverlayOf' = OverlayOf
    BY <2>1 DEF OverlayOf
  <2>6. Layered!FileChanges(f)
    BY <1>1, <2>3, <2>4, <2>5, MappedInForceNext DEF Layered!FileChanges, Layered!Configs, Contents
  <2> QED
    BY <1>1, <2>6 DEF Layered!Next
<1> QED
  BY <1>2, <1>3

\* New editor settings, when they are accepted, change the overlay of the primary folder.
LEMMA OptionsMap ==
    ASSUME IInv, IInv', DidChangeConfiguration
    PROVE  Layered!Next \/ UNCHANGED Mapped
PROOF
<1>1. PICK p \in Payloads : ApplyInitOptions(p.sets)
  BY DEF DidChangeConfiguration
<1>2. base_config' = base_config
  BY DEF DidChangeConfiguration
<1>3. CASE Valid(ApplyOverlay(base_config, p.sets))
  <2>1. /\ init_overlay' = p.sets
        /\ config' = [config EXCEPT ![0] = ApplyOverlay(base_config, p.sets)]
    BY <1>1, <1>3 DEF ApplyInitOptions
  <2>2. \A f \in Folders \ {0} : config'[f] = config[f]
    BY <2>1 DEF IInv, TypeOK
  <2>3. FileOf' = FileOf
    BY <1>2, <2>2 DEF FileOf
  <2>4. OverlayOf' = [OverlayOf EXCEPT ![0] = OverlayOf'[0]]
    BY FoldersAssumption DEF OverlayOf
  <2>5. Layered!IsSettings(OverlayOf'[0])
    <3>1. OverlayOf'[0] = p.sets
      BY <2>1, FoldersAssumption DEF OverlayOf
    <3> QED
      BY <3>1, PayloadsAssumption DEF IsSettings, Layered!IsSettings
  <2>6. Layered!SettingsChange(0)
    BY <2>3, <2>4, <2>5, MappedInForceNext DEF Layered!SettingsChange
  <2> QED
    BY <2>6, FoldersAssumption DEF Layered!Next
<1>4. CASE ~Valid(ApplyOverlay(base_config, p.sets))
  <2>1. UNCHANGED <<init_overlay, config, registry>>
    BY <1>1, <1>4 DEF ApplyInitOptions
  <2> QED
    BY <1>2, <2>1 DEF Mapped, FileOf, OverlayOf
<1> QED
  BY <1>3, <1>4

\* Whatever is rebuilt or left alone, the server implements the layered settings.
THEOREM Implements == Spec => ImplementsLayers
PROOF
<1>1. Init => Layered!Init
  <2> SUFFICES ASSUME Init PROVE Layered!Init
    OBVIOUS
  <2>1. IInv
    BY InitInv
  <2> QED
    BY <2>1, MappedTypes, MappedInForce DEF Layered!Init, Layered!Configs, Contents
<1>2. IInv /\ IInv' /\ [Next]_vars => [Layered!Next]_Mapped
  <2> SUFFICES ASSUME IInv, IInv', [Next]_vars PROVE [Layered!Next]_Mapped
    OBVIOUS
  <2>1. CASE ReloadConfigFile
    BY <2>1, ReloadMaps
  <2>2. CASE DidChangeConfiguration
    BY <2>2, OptionsMap
  <2>3. CASE UNCHANGED server
    BY <2>3 DEF server, Mapped, FileOf, OverlayOf
  <2>4. Initialized \/ (\E d \in Watched : FileWritten(d)) \/ UNCHANGED vars => UNCHANGED server
    BY DEF Initialized, FileWritten, vars
  <2> QED
    BY <2>1, <2>2, <2>3, <2>4 DEF Next
<1> QED
  BY <1>1, <1>2, Invariance, PTL DEF Spec, ImplementsLayers, Layered!Spec, Mapped

-----------------------------------------------------------------------------
(* The files in force.  A folder whose file is no longer the one it would      *)
(* discover has a change still to be reported, or one nobody could report.     *)

\* Folders do not share a watched directory in which one of them looks for its file.
Apart ==
    \A f \in Folders : \A i \in DOMAIN Chain[f] :
        Chain[f][i] \in Watched => \A g \in Folders : Chain[f][i] \in Within[g] => g = f

LooksIn(f, d) == \E i \in DOMAIN Chain[f] : Chain[f][i] = d
Reported(f) == \E i \in 1..Len(events) : LooksIn(f, events[i][1])

Followed ==
    /\ \A i \in 1..Len(events) : events[i][1] \in Watched
    /\ \A f \in Folders : config_file_path[f] # None => LooksIn(f, config_file_path[f][1])
    /\ \A f \in Folders : OnDiskNow(f) \/ f \in missed \/ Reported(f)

\* A folder's file is found where it looks.
LEMMA DiscoverLooks ==
    ASSUME NEW f \in Folders, Discover(f).path # None
    PROVE  LooksIn(f, Discover(f).path[1])
PROOF
<1> DEFINE nearest == {i \in DOMAIN Chain[f] :
                          /\ Settles(Chain[f][i])
                          /\ \A j \in 1..(i - 1) : ~Settles(Chain[f][j])}
<1>1. nearest # {}
  BY DEF Discover
<1>2. PICK i \in nearest : Discover(f) = FoundIn(Chain[f][i])
  BY <1>1 DEF Discover
<1>3. FoundIn(Chain[f][i]).path[1] = Chain[f][i]
  BY DEF FoundIn
<1> QED
  BY <1>2, <1>3 DEF LooksIn

\* What is written elsewhere does not matter to a folder.
LEMMA DiscoverDepends ==
    ASSUME NEW f \in Folders,
           \A d \in Dirs : LooksIn(f, d) => jinja'[d] = jinja[d] /\ pyproject'[d] = pyproject[d]
    PROVE  Discover(f)' = Discover(f)
PROOF
<1>1. \A i \in DOMAIN Chain[f] : Chain[f][i] \in Dirs /\ LooksIn(f, Chain[f][i])
  BY ChainAssumption DEF LooksIn
<1>2. PICK n \in Nat : DOMAIN Chain[f] = 1..n
  BY ChainAssumption, LenProperties
<1>3. \A i \in DOMAIN Chain[f] : /\ Settles(Chain[f][i])' = Settles(Chain[f][i])
                                 /\ FoundIn(Chain[f][i])' = FoundIn(Chain[f][i])
  BY <1>1 DEF Settles, FoundIn
<1> DEFINE nearest == {i \in DOMAIN Chain[f] :
                          /\ Settles(Chain[f][i])
                          /\ \A j \in 1..(i - 1) : ~Settles(Chain[f][j])}
<1>4. nearest' = nearest
  <2>1. \A i \in DOMAIN Chain[f] : \A j \in 1..(i - 1) : j \in DOMAIN Chain[f]
    BY <1>2
  <2> QED
    BY <1>3, <2>1
<1>5. nearest # {} => (CHOOSE i \in nearest : TRUE) \in DOMAIN Chain[f]
  OBVIOUS
<1> QED
  BY <1>3, <1>4, <1>5 DEF Discover

\* Where folders are apart, a changed file reloads the folder that looks for it.
LEMMA TargetLooks ==
    ASSUME Apart, IInv, Followed, NEW p \in Paths, p[1] \in Watched,
           NEW f \in Folders, LooksIn(f, p[1])
    PROVE  ReloadTarget(p) = f
PROOF
<1>1. \A h \in Folders : LooksIn(h, p[1]) => \A g \in Folders : p[1] \in Within[g] => g = h
  BY DEF Apart, LooksIn
<1>2. p[1] \in Within[f]
  BY <1>1 DEF Watched
<1>3. \A g \in Folders : config_file_path[g] = p => g = f
  BY <1>1, <1>2, ContentsAssumption DEF Followed, Paths
<1> DEFINE owners == {g \in Folders \ {0} : config_file_path[g] = p \/ p[1] \in Within[g]}
<1>4. owners = IF f = 0 THEN {} ELSE {f}
  BY <1>1, <1>2, <1>3
<1>5. ReloadTarget(p) = Longest(owners)
  BY DEF ReloadTarget
<1>6. Longest({}) = 0
  BY DEF Longest
<1>7. Longest({f}) = f
  <2>1. f >= f
    BY FoldersAssumption
  <2>2. {g \in {f} : \A h \in {f} : \/ RootLength[g] > RootLength[h]
                                    \/ RootLength[g] = RootLength[h] /\ g >= h} = {f}
    BY <2>1
  <2> QED
    BY <2>2 DEF Longest
<1> HIDE DEF owners
<1> QED
  BY <1>4, <1>5, <1>6, <1>7

\* A reload settles the change for the one folder it concerns.
LEMMA ReloadFollows ==
    ASSUME Apart, IInv, Followed, ReloadConfigFile
    PROVE  Followed'
PROOF
<1>1. PICK f \in Folders : f = ReloadTarget(Head(events))
  BY TargetType
<1> DEFINE found == Discover(f)
<1>2. events \in Seq(Paths) /\ events # <<>> /\ events' = Tail(events)
  BY DEF IInv, TypeOK, ReloadConfigFile
<1>3. /\ Head(events) = events[1] /\ Head(events) \in Paths /\ 1 \in 1..Len(events)
      /\ \A i \in 1..Len(events') : i + 1 \in 1..Len(events) /\ events'[i] = events[i + 1]
      /\ \A i \in 1..Len(events) : i # 1 => i - 1 \in 1..Len(events') /\ events'[i - 1] = events[i]
  <2>1. Len(events) \in Nat \ {0}
    BY <1>2, EmptySeq, LenProperties
  <2>2. Len(events') = Len(events) - 1 /\ \A i \in 1..Len(events') : events'[i] = events[i + 1]
    BY <1>2, <2>1, HeadTailProperties
  <2>3. Head(events) = events[1] /\ Head(events) \in Paths
    BY <1>2, HeadTailProperties
  <2> QED
    BY <2>1, <2>2, <2>3
<1>4. UNCHANGED disk /\ missed' = missed \ {f}
  BY <1>1 DEF ReloadConfigFile
<1>5. \A g \in Folders : Discover(g)' = Discover(g)
  BY <1>4, DiscoverDepends DEF disk
<1>6. found.cfg = Bad => UNCHANGED server
  BY <1>1 DEF ReloadConfigFile
<1>7. found.cfg # Bad => /\ config_file_path' = [config_file_path EXCEPT ![f] = found.path]
                         /\ IF f = 0 THEN ReloadPrimary(found) ELSE ReloadExtra(f, found)
  BY <1>1 DEF ReloadConfigFile
<1>8. \A g \in Folders : g # f => ~LooksIn(g, events[1][1])
  BY <1>1, <1>3, TargetLooks DEF Followed
<1>9. \A g \in Folders : g # f /\ Reported(g) => Reported(g)'
  <2> SUFFICES ASSUME NEW g \in Folders, g # f, Reported(g) PROVE Reported(g)'
    OBVIOUS
  <2>1. PICK i \in 1..Len(events) : LooksIn(g, events[i][1])
    BY DEF Reported
  <2>2. i - 1 \in 1..Len(events') /\ LooksIn(g, events'[i - 1][1])
    BY <1>3, <1>8, <2>1
  <2> QED
    BY <2>2 DEF Reported, LooksIn
<1>10. found.path # None => LooksIn(f, found.path[1])
  BY <1>1, DiscoverLooks
<1> HIDE DEF found
<1>11. \A g \in Folders : g # f => FileOf'[g] = FileOf[g]
  <2>1. CASE found.cfg = Bad
    BY <1>6, <2>1 DEF server, FileOf
  <2>2. CASE found.cfg # Bad
    BY <1>1, <1>7, <2>2, OneFileChanges
  <2> QED
    BY <2>1, <2>2
<1>12. OnDiskNow(f)'
  <2>1. CASE found.cfg = Bad
    BY <1>1, <1>5, <2>1 DEF OnDiskNow, found
  <2>2. CASE found.cfg # Bad
    <3>1. FileOf'[f] = found.cfg
      BY <1>1, <1>7, <2>2, OneFileChanges
    <3> QED
      BY <1>1, <1>5, <3>1 DEF OnDiskNow, found
  <2> QED
    BY <2>1, <2>2
<1>13. ASSUME NEW g \in Folders PROVE (OnDiskNow(g) \/ g \in missed \/ Reported(g))'
  <2>1. CASE g = f
    BY <1>12, <2>1
  <2>2. CASE g # f
    <3>1. OnDiskNow(g) => OnDiskNow(g)'
      BY <1>5, <1>11, <2>2 DEF OnDiskNow
    <3> QED
      BY <1>4, <1>9, <2>2, <3>1 DEF Followed
  <2> QED
    BY <2>1, <2>2
<1>14. ASSUME NEW g \in Folders, config_file_path'[g] # None
       PROVE  LooksIn(g, config_file_path'[g][1])
  <2>1. CASE found.cfg = Bad
    BY <1>6, <1>14, <2>1 DEF server, Followed
  <2>2. CASE found.cfg # Bad
    <3>1. config_file_path'[g] = IF g = f THEN found.path ELSE config_file_path[g]
      BY <1>7, <2>2 DEF IInv, TypeOK
    <3> QED
      BY <1>10, <1>14, <3>1 DEF Followed
  <2> QED
    BY <2>1, <2>2
<1>15. \A i \in 1..Len(events') : events'[i][1] \in Watched
  BY <1>3 DEF Followed
<1> QED
  BY <1>13, <1>14, <1>15 DEF Followed, LooksIn

\* A change concerns the folders that look for it, and is reported or noted as missed.
LEMMA WriteFollows ==
    ASSUME IInv, Followed, NEW d \in Watched, FileWritten(d)
    PROVE  Followed'
PROOF
<1>1. /\ \E t : jinja' = [jinja EXCEPT ![d] = t] \/ jinja' = jinja
      /\ \E t : pyproject' = [pyproject EXCEPT ![d] = t] \/ pyproject' = pyproject
      /\ UNCHANGED server
  BY DEF FileWritten
<1>2. PICK p \in Paths : p[1] = d /\ Report(p)
  <2>1. d \in Dirs
    BY ChainAssumption DEF Watched
  <2>2. <<d, "jinja.toml">> \in Paths /\ <<d, "pyproject.toml">> \in Paths
    BY <2>1 DEF Paths
  <2> QED
    BY <2>2 DEF FileWritten
<1>3. \A g \in Folders : ~LooksIn(g, d) => Discover(g)' = Discover(g)
  <2>1. \A e \in Dirs : e # d => jinja'[e] = jinja[e] /\ pyproject'[e] = pyproject[e]
    BY <1>1 DEF IInv, TypeOK
  <2> QED
    BY <2>1, DiscoverDepends
<1>4. \A g \in Folders : ~LooksIn(g, d) /\ OnDiskNow(g) => OnDiskNow(g)'
  BY <1>1, <1>3 DEF OnDiskNow, FileOf, server
<1>5. CASE initialized
  <2>1. events' = Append(events, p) /\ missed' = missed /\ events \in Seq(Paths)
    BY <1>2, <1>5 DEF Report, IInv, TypeOK
  <2>2. /\ Len(events) \in Nat /\ Len(events') = Len(events) + 1
        /\ events'[Len(events) + 1] = p
        /\ \A i \in 1..Len(events) : events'[i] = events[i]
    BY <2>1, LenProperties, AppendProperties
  <2>3. \A g \in Folders : Reported(g) \/ LooksIn(g, d) => Reported(g)'
    BY <1>2, <2>2 DEF Reported, LooksIn
  <2>4. \A i \in 1..Len(events') : events'[i][1] \in Watched
    BY <1>2, <2>2 DEF Followed
  <2> QED
    BY <1>1, <1>4, <2>1, <2>3, <2>4 DEF Followed, LooksIn, server
<1>6. CASE ~initialized
  <2>1. /\ events' = events
        /\ missed' = missed \cup {g \in Folders : LooksIn(g, d)}
    BY <1>2, <1>6 DEF Report, LooksIn
  <2> QED
    BY <1>1, <1>4, <2>1 DEF Followed, Reported, LooksIn, server
<1> QED
  BY <1>5, <1>6

LEMMA OthersFollow ==
    ASSUME IInv, Followed, DidChangeConfiguration \/ Initialized \/ UNCHANGED vars
    PROVE  Followed'
PROOF
<1>1. UNCHANGED <<disk, events, missed, base_config, config_file_path>>
  BY DEF DidChangeConfiguration, Initialized, vars, server
<1>2. \A g \in Folders : Discover(g)' = Discover(g)
  BY <1>1, DiscoverDepends DEF disk
<1>3. \A g \in Folders \ {0} : config'[g] = config[g]
  BY DEF DidChangeConfiguration, ApplyInitOptions, Initialized, vars, server, IInv, TypeOK
<1>4. FileOf' = FileOf
  BY <1>1, <1>3 DEF FileOf
<1> QED
  BY <1>1, <1>2, <1>4 DEF Followed, OnDiskNow, Reported, LooksIn

\* Editing configuration files needs no restart (REQ-CFG-10): where no watched directory
\* serves two folders, once the reported changes are handled every folder is on the file
\* it would discover now, whatever was reported in which order.
THEOREM FilesAreFollowed == Apart /\ Spec => []FollowsDisk
PROOF
<1> SUFFICES ASSUME Apart PROVE Spec => []FollowsDisk
  OBVIOUS
<1>1. Init => Followed
  <2> SUFFICES ASSUME Init PROVE Followed
    OBVIOUS
  <2>1. events = <<>> /\ Len(events) = 0
    BY DEF Init
  <2>2. ASSUME NEW f \in Folders PROVE OnDiskNow(f)
    <3>1. FileOf[f] = DiscoverOrDefault(f).cfg
      BY DEF Init, FileOf
    <3> QED
      BY <3>1 DEF OnDiskNow, DiscoverOrDefault
  <2>3. ASSUME NEW f \in Folders, config_file_path[f] # None
        PROVE  LooksIn(f, config_file_path[f][1])
    <3>1. config_file_path[f] = DiscoverOrDefault(f).path
      BY DEF Init
    <3>2. DiscoverOrDefault(f) = Discover(f)
      BY <2>3, <3>1 DEF DiscoverOrDefault
    <3> QED
      BY <2>3, <3>1, <3>2, DiscoverLooks
  <2> QED
    BY <2>1, <2>2, <2>3 DEF Followed
<1>2. IInv /\ Followed /\ [Next]_vars => Followed'
  BY ReloadFollows, WriteFollows, OthersFollow DEF Next
<1>3. Followed => FollowsDisk
  <2> SUFFICES ASSUME Followed, events = <<>>, NEW f \in Folders \ missed PROVE OnDiskNow(f)
    BY DEF FollowsDisk
  <2>1. 1..Len(events) = {}
    OBVIOUS
  <2> QED
    BY <2>1 DEF Followed, Reported
<1> QED
  BY <1>1, <1>2, <1>3, Invariance, PTL DEF Spec

-----------------------------------------------------------------------------
(* What was scanned *)

\* The editor does not set what is scanned.
ScopeFromFiles == \A p \in Payloads : DOMAIN p.sets \cap ScanFields = {}

ScopeFits == DOMAIN init_overlay \cap ScanFields = {} /\ ScanFollowsSettings

\* An overlay without these keys leaves them to the file.
LEMMA ScopeUnderOverlay ==
    ASSUME NEW c, NEW o, DOMAIN o \cap ScanFields = {}
    PROVE  ScopeOf(ApplyOverlay(c, o)) = ScopeOf(c)
PROOF
<1>1. \A k \in ScanFields : k \in Fields /\ k \notin DOMAIN o
  BY FieldSets
<1>2. \A k \in ScanFields : ApplyOverlay(c, o)[k] = c[k]
  BY <1>1 DEF ApplyOverlay
<1> QED
  BY <1>2 DEF ScopeOf

\* The comparison that skips a scan misses no key that matters to it.
LEMMA SkippedScan ==
    ASSUME NEW old, NEW new, ~ConfigDelta(old, new).workspace
    PROVE  ScopeOf(new) = ScopeOf(old)
PROOF
  BY DEF ConfigDelta, WorkspaceFields, ScanFields, ScopeOf

LEMMA ReloadScans ==
    ASSUME IInv, ScopeFits, ReloadConfigFile
    PROVE  ScopeFits'
PROOF
<1> DEFINE f == ReloadTarget(Head(events))
           found == Discover(f)
<1>1. f \in Folders
  BY TargetType
<1>2. CASE found.cfg = Bad
  BY <1>2 DEF ReloadConfigFile, ScopeFits, ScanFollowsSettings, server
<1>3. CASE found.cfg # Bad
  <2> DEFINE new == found.cfg
             after == IF f = 0 THEN ApplyOverlay(new, init_overlay) ELSE new
  <2>1. /\ init_overlay' = init_overlay
        /\ config' = [config EXCEPT ![f] = after]
        /\ scanned' = IF ConfigDelta(config[f], new).workspace
                      THEN [scanned EXCEPT ![f] = ScopeOf(new)] ELSE scanned
    BY <1>3 DEF ReloadConfigFile, ReloadPrimary, ReloadExtra
  <2>2. ScopeOf(after) = ScopeOf(new)
    BY ScopeUnderOverlay DEF ScopeFits
  <2> HIDE DEF new, after, f, found
  <2>3. /\ config'[f] = after
        /\ \A g \in Folders \ {f} : config'[g] = config[g] /\ scanned'[g] = scanned[g]
    BY <1>1, <2>1 DEF IInv, TypeOK
  <2>4. scanned'[f] # None => scanned'[f] = ScopeOf(new)
    <3>1. CASE ConfigDelta(config[f], new).workspace
      BY <1>1, <2>1, <3>1 DEF IInv, TypeOK
    <3>2. CASE ~ConfigDelta(config[f], new).workspace
      BY <1>1, <2>1, <3>2, SkippedScan DEF ScopeFits, ScanFollowsSettings
    <3> QED
      BY <3>1, <3>2
  <2>5. \A g \in Folders : scanned'[g] # None => scanned'[g] = ScopeOf(config'[g])
    BY <2>2, <2>3, <2>4 DEF ScopeFits, ScanFollowsSettings
  <2> QED
    BY <2>1, <2>5 DEF ScopeFits, ScanFollowsSettings
<1> QED
  BY <1>2, <1>3

LEMMA OptionsScan ==
    ASSUME ScopeFromFiles, IInv, ScopeFits, DidChangeConfiguration
    PROVE  ScopeFits'
PROOF
<1>1. PICK p \in Payloads : ApplyInitOptions(p.sets)
  BY DEF DidChangeConfiguration
<1>2. UNCHANGED <<base_config, scanned>>
  BY DEF DidChangeConfiguration
<1> DEFINE candidate == ApplyOverlay(base_config, p.sets)
<1>3. CASE Valid(candidate)
  <2>1. init_overlay' = p.sets /\ config' = [config EXCEPT ![0] = candidate]
    BY <1>1, <1>3 DEF ApplyInitOptions
  <2>2. DOMAIN p.sets \cap ScanFields = {}
    BY DEF ScopeFromFiles
  <2>3. ScopeOf(candidate) = ScopeOf(config[0])
    <3>1. ScopeOf(candidate) = ScopeOf(base_config)
      BY <2>2, ScopeUnderOverlay
    <3>2. ScopeOf(config[0]) = ScopeOf(base_config)
      BY ScopeUnderOverlay DEF IInv, Fit, ScopeFits
    <3> QED
      BY <3>1, <3>2
  <2> HIDE DEF candidate
  <2>4. \A g \in Folders : ScopeOf(config'[g]) = ScopeOf(config[g])
    BY <2>1, <2>3, FoldersAssumption DEF IInv, TypeOK
  <2> QED
    BY <1>2, <2>1, <2>2, <2>4 DEF ScopeFits, ScanFollowsSettings
<1>4. CASE ~Valid(candidate)
  BY <1>1, <1>2, <1>4 DEF ApplyInitOptions, ScopeFits, ScanFollowsSettings
<1> QED
  BY <1>3, <1>4

\* As long as the editor does not set what is scanned, every folder's index was built with
\* the template directories and extensions in force: a reload that skips the scan may do so.
THEOREM ScansAreFollowed == ScopeFromFiles /\ Spec => []ScanFollowsSettings
PROOF
<1> SUFFICES ASSUME ScopeFromFiles PROVE Spec => []ScanFollowsSettings
  OBVIOUS
<1>1. Init => ScopeFits
  <2> SUFFICES ASSUME Init PROVE ScopeFits
    OBVIOUS
  <2>1. \A f \in Folders : scanned[f] = None
    BY DEF Init
  <2>2. DOMAIN init_overlay \cap ScanFields = {}
    BY NoSettingsType DEF Init, ScopeFromFiles
  <2> QED
    BY <2>1, <2>2 DEF ScopeFits, ScanFollowsSettings
<1>2. IInv /\ ScopeFits /\ [Next]_vars => ScopeFits'
  <2> SUFFICES ASSUME IInv, ScopeFits, [Next]_vars PROVE ScopeFits'
    OBVIOUS
  <2>1. CASE Initialized
    <3>1. \A f \in Folders : scanned'[f] = ScopeOf(config'[f])
      BY <2>1 DEF Initialized, server
    <3> QED
      BY <2>1, <3>1 DEF Initialized, server, ScopeFits, ScanFollowsSettings
  <2>2. ASSUME NEW d \in Watched, FileWritten(d) PROVE ScopeFits'
    BY <2>2 DEF FileWritten, server, ScopeFits, ScanFollowsSettings
  <2>3. CASE UNCHANGED vars
    BY <2>3 DEF vars, server, ScopeFits, ScanFollowsSettings
  <2> QED
    BY <2>1, <2>2, <2>3, ReloadScans, OptionsScan DEF Next
<1> QED
  BY <1>1, <1>2, Invariance, PTL DEF Spec, ScopeFits
=============================================================================
