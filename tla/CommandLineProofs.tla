------------------------- MODULE CommandLineProofs -------------------------
(***************************************************************************)
(* What commands promise, for any files, directories, configurations and   *)
(* commands.  First the CI gate of F18: once a format in place has gone    *)
(* through, the same format with --check has nothing to report; the        *)
(* invariant follows what a format has still to do against the list it     *)
(* started with.  Then the outcome of any format, and the report of a      *)
(* check: it has what the files, the filters and the noqa comments ask     *)
(* for, in one order.                                                      *)
(***************************************************************************)
EXTENDS CommandLine, SequenceLemmas, SequenceTheorems, TLAPS

Common == {"at", "cmd", "config", "before", "touched", "todo"}
CheckFields == Common \cup {"index", "read"}
FormatFields == Common \cup {"source", "changed"}

\* What a format of these files lists, and when a listed file needs no change.
Listed(files, c, cfg) == ToSet(FilesToFormat(Present(files), c, cfg))
Tidy(f, files, cfg) == files[f] \in Texts /\ Formatted(f, files[f], cfg) = files[f]
AllTidy(listed, files, cfg) == \A f \in listed : Tidy(f, files, cfg)

OnlyChecks(c) == c.check /\ ~c.diff /\ c.output = None

\* A format that nobody disturbs: what it does not have to do any more is done.
Progress ==
  LET listed == Listed(run.before, run.cmd, run.config)
  IN  /\ run.at = "write" => run.source = disk[Head(run.todo)] /\ run.source \in Texts
      /\ Present(disk) = Present(run.before)
      /\ ToSet(run.todo) \subseteq listed
      /\ InPlace(run.cmd) => \A f \in listed \ ToSet(run.todo) : Tidy(f, disk, run.config)
      /\ OnlyChecks(run.cmd) =>
           disk = run.before /\ (AllTidy(listed, run.before, run.config) => run.changed = 0)

Formatting ==
  run.at \in {"read", "write"} =>
    /\ \E V : run \in [FormatFields -> V]
    /\ run.cmd \in Commands /\ run.cmd.kind = "format"
    /\ run.config = FormatConfig(run.cmd) /\ run.config # Bad
    /\ run.todo \in Seq(Files)
    /\ run.at = "write" => run.todo # <<>>
    /\ run.touched = {} /\ (InPlace(run.cmd) \/ OnlyChecks(run.cmd)) => Progress

Checking == run.at = "index" => run.cmd.kind = "check" /\ \E V : run \in [CheckFields -> V]

\* The outcome of a format, as far as the gate depends on it.
Outcome(r) ==
  r.cmd.kind = "format" =>
    LET listed == Listed(r.before, r.cmd, r.config)
    IN  /\ r.cmd \in Commands
        /\ r.config = FormatConfig(r.cmd)
        /\ r.touched = {} /\ InPlace(r.cmd) /\ r.code # 2 =>
             r.config # Bad /\ Present(r.after) = Present(r.before) /\ AllTidy(listed, r.after, r.config)
        /\ r.touched = {} /\ OnlyChecks(r.cmd) /\ r.config # Bad /\ AllTidy(listed, r.before, r.config) =>
             r.code = 0

\* A command starts with the files the one before has left.
Linked ==
  /\ \A i \in 1 .. Len(history) - 1 : history[i].after = history[i + 1].before
  /\ history # <<>> => history[Len(history)].after = IF run.at = "idle" THEN disk ELSE run.before

IInv ==
  /\ DOMAIN disk = Files /\ configs \in Layouts
  /\ run.at \in {"idle", "index", "read", "write"} /\ (run.at = "idle" => run = Idle)
  /\ \E S : history \in Seq(S)
  /\ Formatting /\ Checking /\ Linked
  /\ \A i \in 1 .. Len(history) : Outcome(history[i])

(***************************************************************************)
(* What is listed and how it is formatted.                                 *)
(***************************************************************************)
\* The configuration of a format that starts has a list of paths.
LEMMA ConfigHasPaths ==
  ASSUME configs \in Layouts, NEW c \in Commands, FormatConfig(c) # Bad
  PROVE  FormatConfig(c).templates \in Seq(Files \cup Dirs)
<1>1. FormatConfig(c) \in {DefaultConfig} \cup {d.config : d \in Commands} \cup {l[CWD] : l \in Layouts}
  BY DEF FormatConfig
<1>2. FormatConfig(c) # None
  BY FormatAssumption DEF FormatConfig
<1> QED BY <1>1, <1>2, FormatAssumption

\* A list of lists, one for each element of a list.
LEMMA PiecesType ==
  ASSUME NEW S, NEW T, NEW s \in Seq(T), NEW parts \in [DOMAIN s -> Seq(S)]
  PROVE  parts \in Seq(Seq(S))
<1>1. PICK n \in Nat : DOMAIN s = 1 .. n
  BY LenProperties
<1> QED BY <1>1

\* What is kept of a list is what is in the set, and each once if it was there once.
LEMMA KeepElements ==
  ASSUME NEW T, NEW s \in Seq(T), NEW S
  PROVE  /\ Keep(s, S) \in Seq(T)
         /\ ToSet(Keep(s, S)) = ToSet(s) \cap S
         /\ IsInjective(s) => IsInjective(Keep(s, S))
<1> DEFINE parts == [i \in DOMAIN s |-> IF s[i] \in S THEN <<s[i]>> ELSE <<>>]
<1>1. ASSUME NEW i \in DOMAIN s
      PROVE  /\ parts[i] \in Seq(T) /\ IsInjective(parts[i])
             /\ ToSet(parts[i]) = IF s[i] \in S THEN {s[i]} ELSE {}
  <2>1. s[i] \in T
    BY ElementType
  <2>2. DOMAIN <<s[i]>> = {1} /\ DOMAIN <<>> = {}
    OBVIOUS
  <2>3. CASE s[i] \in S
    BY <2>1, <2>2, <2>3 DEF IsInjective, ToSet
  <2>4. CASE s[i] \notin S
    <3>1. parts[i] = <<>>
      BY <2>4
    <3> HIDE DEF parts
    <3> QED BY <2>2, <2>4, <3>1 DEF IsInjective, ToSet
  <2> QED BY <2>3, <2>4
<1>2. parts \in Seq(Seq(T)) /\ DOMAIN parts = DOMAIN s
  <2>1. parts \in [DOMAIN s -> Seq(T)]
    BY <1>1
  <2>2. DOMAIN parts = DOMAIN s
    OBVIOUS
  <2> HIDE DEF parts
  <2> QED BY <2>1, <2>2, PiecesType
<1>3. Keep(s, S) = FlattenSeq(parts)
  BY DEF Keep
<1> HIDE DEF parts
<1>4. FlattenSeq(parts) \in Seq(T)
  BY <1>2, FlattenSeqType
<1>5. ToSet(FlattenSeq(parts)) = ToSet(s) \cap S
  <2>1. ToSet(FlattenSeq(parts)) = UNION {ToSet(parts[i]) : i \in DOMAIN parts}
    BY <1>2, FlattenSeqElements
  <2>2. \A x : x \in ToSet(FlattenSeq(parts)) <=> \E i \in DOMAIN s : x \in ToSet(parts[i])
    BY <1>2, <2>1
  <2>3. \A x : x \in ToSet(FlattenSeq(parts)) <=> \E i \in DOMAIN s : s[i] = x /\ x \in S
    <3> SUFFICES ASSUME NEW x, NEW i \in DOMAIN s PROVE x \in ToSet(parts[i]) <=> s[i] = x /\ x \in S
      BY <2>2
    <3> QED BY <1>1
  <2> QED BY <2>3 DEF ToSet
<1>6. ASSUME IsInjective(s) PROVE IsInjective(FlattenSeq(parts))
  <2>1. \A i, j \in DOMAIN parts : i # j => ToSet(parts[i]) \cap ToSet(parts[j]) = {}
    BY <1>1, <1>2, <1>6 DEF IsInjective
  <2>2. \A i \in DOMAIN parts : IsInjective(parts[i])
    BY <1>1, <1>2
  <2> QED BY <1>2, <2>1, <2>2, FlattenSeqInjective
<1> QED BY <1>3, <1>4, <1>5, <1>6

\* A walk yields the files below a directory that are there and have the extension, each once.
LEMMA WalkElements ==
  ASSUME NEW present \in SUBSET Files, NEW root, NEW cfg
  PROVE  /\ Walk(present, root, cfg) \in Seq(Files)
         /\ root \notin Dirs => Walk(present, root, cfg) = <<>>
         /\ root \in Dirs =>
              /\ IsInjective(Walk(present, root, cfg))
              /\ ToSet(Walk(present, root, cfg)) =
                   {f \in present : root \in Inside[f] /\ Last(Parts[f]) \in cfg.extensions}
<1>1. CASE root \notin Dirs
  BY <1>1 DEF Walk
<1>2. CASE root \in Dirs
  <2> DEFINE walk == Walks[root]
             taken == {f \in present : Last(Parts[f]) \in cfg.extensions}
  <2>1. walk \in Seq(Files) /\ IsInjective(walk) /\ \A f \in Files : f \in ToSet(walk) <=> root \in Inside[f]
    BY <1>2, FormatAssumption, WalkAssumption
  <2>2. Walk(present, root, cfg) = Keep(walk, taken)
    BY <1>2 DEF Walk
  <2> HIDE DEF walk
  <2>3. Keep(walk, taken) \in Seq(Files) /\ ToSet(Keep(walk, taken)) = ToSet(walk) \cap taken
        /\ IsInjective(Keep(walk, taken))
    BY <2>1, KeepElements
  <2> QED BY <1>2, <2>1, <2>2, <2>3
<1> QED BY <1>1, <1>2

\* The pieces of the list of a format, one for each path.
ListParts(present, c, cfg) ==
  [i \in DOMAIN Roots(c, cfg) |->
     IF c.paths # <<>> /\ IsRelativeEscape(Roots(c, cfg)[i], cfg) THEN <<>>
     ELSE IF Roots(c, cfg)[i] \in present THEN <<Roots(c, cfg)[i]>>
     ELSE Walk(present, Roots(c, cfg)[i], cfg)]

LEMMA ListPartsType ==
  ASSUME configs \in Layouts, NEW c \in Commands, c.kind = "format", FormatConfig(c) # Bad,
         NEW present \in SUBSET Files
  PROVE  /\ Roots(c, FormatConfig(c)) \in Seq(Files \cup Dirs)
         /\ ListParts(present, c, FormatConfig(c)) \in Seq(Seq(Files))
         /\ FilesToFormat(present, c, FormatConfig(c)) = FlattenSeq(ListParts(present, c, FormatConfig(c)))
<1> DEFINE cfg == FormatConfig(c)
           roots == Roots(c, cfg)
<1>1. roots \in Seq(Files \cup Dirs)
  BY ConfigHasPaths, FormatAssumption DEF Roots
<1>2. FilesToFormat(present, c, cfg) = FlattenSeq(ListParts(present, c, cfg))
  BY DEF FilesToFormat, ListParts
<1> HIDE DEF cfg
<1>3. ASSUME NEW i \in DOMAIN roots PROVE ListParts(present, c, cfg)[i] \in Seq(Files)
  <2>0. \A root : Walk(present, root, cfg) \in Seq(Files)
    BY WalkElements
  <2>1. Walk(present, roots[i], cfg) \in Seq(Files) /\ <<>> \in Seq(Files)
    BY <2>0
  <2>2. CASE roots[i] \in present
    <3>1. <<roots[i]>> \in Seq(Files)
      BY <2>2
    <3>2. ListParts(present, c, cfg)[i] \in {<<>>, <<roots[i]>>}
      BY <2>2 DEF ListParts
    <3> HIDE DEF roots
    <3> QED BY <2>1, <3>1, <3>2
  <2>3. CASE roots[i] \notin present
    <3>1. ListParts(present, c, cfg)[i] \in {<<>>, Walk(present, roots[i], cfg)}
      BY <2>3 DEF ListParts
    <3> HIDE DEF roots
    <3> QED BY <2>1, <3>1
  <2> QED BY <2>2, <2>3
<1>4. ListParts(present, c, cfg) \in Seq(Seq(Files))
  <2>1. ListParts(present, c, cfg) \in [DOMAIN roots -> Seq(Files)]
    BY <1>3 DEF ListParts
  <2> HIDE DEF roots
  <2> QED BY <1>1, <2>1, PiecesType
<1> QED BY <1>1, <1>2, <1>4 DEF cfg

\* A format lists files.
LEMMA ListType ==
  ASSUME configs \in Layouts, NEW c \in Commands, c.kind = "format", FormatConfig(c) # Bad,
         NEW present \in SUBSET Files
  PROVE  FilesToFormat(present, c, FormatConfig(c)) \in Seq(Files)
BY ListPartsType, FlattenSeqType

\* What has been formatted needs no change.
LEMMA FormattedIsTidy ==
  ASSUME NEW f, NEW cfg, NEW text \in Texts
  PROVE  Formatted(f, text, cfg) \in Texts
         /\ Formatted(f, Formatted(f, text, cfg), cfg) = Formatted(f, text, cfg)
BY FormatAssumption DEF Formatted

(***************************************************************************)
(* The history grows by what a command leaves.                             *)
(***************************************************************************)
\* A command that ends well and leaves the files as they are keeps the invariant.
LEMMA ExitKeeps ==
  ASSUME IInv, NEW r, NEW code, NEW report,
         Exit(r, code, report, disk), disk' = disk, configs' = configs,
         r.before = IF run.at = "idle" THEN disk ELSE run.before,
         Outcome([cmd |-> r.cmd, config |-> r.config, before |-> r.before, touched |-> r.touched,
                  after |-> disk, code |-> code, report |-> report])
  PROVE  IInv'
<1> DEFINE new == [cmd |-> r.cmd, config |-> r.config, before |-> r.before, touched |-> r.touched,
                   after |-> disk, code |-> code, report |-> report]
<1>1. run'.at = "idle" /\ run' = Idle /\ history' = Append(history, new)
  BY DEF Exit, Idle
<1>2. new.before = r.before /\ new.after = disk
  OBVIOUS
<1>3. PICK S : history \in Seq(S)
  BY DEF IInv
<1> HIDE DEF new
<1>4. history' \in Seq(S \cup {new})
  BY <1>1, <1>3
<1>5. /\ Len(history) \in Nat /\ Len(history') = Len(history) + 1 /\ history'[Len(history')] = new
      /\ \A i \in 1 .. Len(history) : history'[i] = history[i]
  BY <1>1, <1>3
<1>6. Linked'
  BY <1>1, <1>2, <1>3, <1>5 DEF Linked, IInv
<1>7. \A x : Outcome(x) => Outcome(x)'
  BY DEF Outcome, FormatConfig
<1>8. (\A i \in 1 .. Len(history) : Outcome(history[i]))'
  <2>1. \A i \in 1 .. Len(history') : Outcome(history'[i])
    BY <1>5 DEF IInv, new
  <2> QED BY <2>1, <1>7
<1> QED BY <1>1, <1>4, <1>6, <1>8 DEF IInv, Formatting, Checking, Idle

\* A list that is not empty is its head and its tail.
LEMMA HeadAndTail ==
  ASSUME NEW S, NEW s \in Seq(S), s # <<>>
  PROVE  /\ Head(s) \in S /\ Head(s) \in ToSet(s) /\ Tail(s) \in Seq(S)
         /\ ToSet(Tail(s)) \subseteq ToSet(s)
         /\ ToSet(s) \subseteq {Head(s)} \cup ToSet(Tail(s))
<1>1. Len(s) \in Nat \ {0} /\ DOMAIN s = 1 .. Len(s) /\ Head(s) = s[1]
  OBVIOUS
<1>2. /\ Tail(s) \in Seq(S) /\ DOMAIN Tail(s) = 1 .. Len(s) - 1
      /\ \A i \in 1 .. Len(s) - 1 : Tail(s)[i] = s[i + 1]
  OBVIOUS
<1>3. Head(s) \in S /\ Head(s) \in ToSet(s)
  BY <1>1 DEF ToSet
<1>4. ASSUME NEW i \in DOMAIN Tail(s) PROVE Tail(s)[i] \in ToSet(s)
  BY <1>1, <1>2 DEF ToSet
<1>5. ASSUME NEW i \in DOMAIN s PROVE s[i] \in {Head(s)} \cup ToSet(Tail(s))
  <2>1. CASE i = 1
    BY <1>1, <2>1
  <2>2. CASE i # 1
    <3>1. i - 1 \in DOMAIN Tail(s) /\ Tail(s)[i - 1] = s[i]
      BY <1>1, <1>2, <2>2
    <3> QED BY <3>1 DEF ToSet
  <2> QED BY <2>1, <2>2
<1> QED BY <1>2, <1>3, <1>4, <1>5 DEF ToSet

\* What an assignment to one field of a run leaves.
LEMMA FieldSet ==
  ASSUME NEW D, NEW V, NEW r \in [D -> V], NEW k \in D, NEW x
  PROVE  /\ [r EXCEPT ![k] = x] \in [D -> V \cup {x}]
         /\ [r EXCEPT ![k] = x][k] = x
         /\ \A j \in D : j # k => [r EXCEPT ![k] = x][j] = r[j]
OBVIOUS

(***************************************************************************)
(* Every step keeps the invariant.                                         *)
(***************************************************************************)
\* A check that starts, or fails to, is no format.
LEMMA StartCheckKeeps ==
  ASSUME IInv, run = Idle, NEW c \in Commands, StartCheck(c), UNCHANGED <<disk, configs, edits>>
  PROVE  IInv'
<1> DEFINE config == ResolveConfig(c)
<1>1. run.at = "idle" /\ c.kind = "check"
  BY DEF Idle, StartCheck
<1>2. CASE Exit(Started(c, config), 2, <<>>, disk)
  <2>1. Started(c, config).cmd = c /\ Started(c, config).before = disk
    BY DEF Started
  <2> HIDE DEF config
  <2> QED BY <1>1, <1>2, <2>1, ExitKeeps DEF Outcome
<1>3. CASE /\ run' = [cmd |-> c, config |-> config, before |-> disk, touched |-> {},
                      at |-> "index", todo |-> DiscoverTemplates(Present(disk), Roots(c, config), config),
                      index |-> <<>>, read |-> <<>>]
           /\ UNCHANGED history
  <2> DEFINE todo == DiscoverTemplates(Present(disk), Roots(c, config), config)
  <2> HIDE DEF config, todo
  <2>1. run' \in [CheckFields -> {c, config, disk, {}, "index", todo, <<>>}]
    BY <1>3 DEF todo, CheckFields, Common
  <2>2. run'.at = "index" /\ run'.cmd = c /\ run'.before = disk
    BY <1>3
  <2>3. Checking' /\ Formatting'
    BY <1>1, <2>1, <2>2 DEF Checking, Formatting
  <2>4. Linked'
    BY <1>1, <1>3, <2>2 DEF Linked, IInv
  <2>5. (\A i \in 1 .. Len(history) : Outcome(history[i]))'
    BY <1>3 DEF IInv, Outcome, FormatConfig
  <2> QED BY <1>3, <2>2, <2>3, <2>4, <2>5 DEF IInv
<1> QED BY <1>2, <1>3 DEF StartCheck

\* A format starts with everything it lists still to do.
LEMMA StartFormatKeeps ==
  ASSUME IInv, run = Idle, NEW c \in Commands, StartFormat(c), UNCHANGED <<disk, configs, edits>>
  PROVE  IInv'
<1> DEFINE config == FormatConfig(c)
           files == FilesToFormat(Present(disk), c, config)
<1>1. run.at = "idle" /\ c.kind = "format" /\ configs \in Layouts
  BY DEF Idle, StartFormat, IInv
<1>2. CASE (config = Bad \/ (c.output \in Files /\ Len(files) > 1)) /\ Exit(Started(c, config), 2, <<>>, disk)
  <2>1. Started(c, config).cmd = c /\ Started(c, config).before = disk
        /\ Started(c, config).config = config
    BY DEF Started
  <2>2. config = Bad \/ ~OnlyChecks(c)
    BY <1>2, FormatAssumption DEF OnlyChecks
  <2>3. Outcome([cmd |-> c, config |-> config, before |-> disk, touched |-> Started(c, config).touched,
                 after |-> disk, code |-> 2, report |-> <<>>])
    BY <2>2 DEF Outcome
  <2> HIDE DEF config
  <2> QED BY <1>1, <1>2, <2>1, <2>3, ExitKeeps
<1>3. CASE /\ config # Bad
           /\ run' = [cmd |-> c, config |-> config, before |-> disk, touched |-> {},
                      at |-> "read", todo |-> files, source |-> None, changed |-> 0]
           /\ UNCHANGED history
  <2>1. files \in Seq(Files)
    BY <1>1, <1>3, ListType DEF Present
  <2>2. ToSet(files) = Listed(disk, c, config)
    BY DEF Listed
  <2>3. /\ run' \in [FormatFields -> {c, config, disk, {}, "read", files, None, 0}]
        /\ run'.cmd = c /\ run'.config = config /\ run'.before = disk
        /\ run'.at = "read" /\ run'.todo = files /\ run'.changed = 0
    BY <1>3 DEF FormatFields, Common
  <2>4. config = config'
    BY DEF FormatConfig
  <2> HIDE DEF files, config
  <2>5. Progress'
    BY <2>2, <2>3 DEF Progress
  <2>6. Formatting'
    BY <1>1, <1>3, <2>1, <2>3, <2>4, <2>5 DEF Formatting, config
  <2>7. Linked'
    BY <1>1, <1>3, <2>3 DEF Linked, IInv
  <2>8. (\A i \in 1 .. Len(history) : Outcome(history[i]))'
    BY <1>3 DEF IInv, Outcome, FormatConfig
  <2> QED BY <1>3, <2>3, <2>6, <2>7, <2>8 DEF IInv, Checking
<1> QED BY <1>2, <1>3 DEF StartFormat

\* A check goes on with the command and the files it started with.
LEMMA CheckMoves ==
  ASSUME IInv, IndexFile \/ CollectFile
  PROVE  \E W : /\ run' \in [CheckFields -> W]
                /\ \A j \in {"at", "cmd", "before"} : run'[j] = run[j]
<1>0. PICK V : run \in [CheckFields -> V]
  BY DEF IndexFile, CollectFile, IInv, Checking
<1>1. CASE IndexFile
  <2>1. PICK todo, index : run' = [[run EXCEPT !.todo = todo] EXCEPT !.index = index]
    BY <1>1 DEF IndexFile
  <2> DEFINE next == [run EXCEPT !.todo = todo]
  <2>2. next \in [CheckFields -> V \cup {todo}]
        /\ \A j \in {"at", "cmd", "before"} : next[j] = run[j]
    BY <1>0, FieldSet DEF CheckFields, Common
  <2>3. run' = [next EXCEPT !.index = index]
    BY <2>1
  <2> HIDE DEF next
  <2>4. run' \in [CheckFields -> (V \cup {todo}) \cup {index}]
        /\ \A j \in {"at", "cmd", "before"} : run'[j] = next[j]
    BY <2>2, <2>3, FieldSet DEF CheckFields, Common
  <2> QED BY <2>2, <2>4
<1>2. CASE CollectFile
  <2>1. PICK read : run' = [run EXCEPT !.read = read]
    BY <1>2 DEF CollectFile
  <2>2. run' \in [CheckFields -> V \cup {read}]
        /\ \A j \in {"at", "cmd", "before"} : run'[j] = run[j]
    BY <1>0, <2>1, FieldSet DEF CheckFields, Common
  <2> QED BY <2>2
<1> QED BY <1>1, <1>2

\* The steps of a check are no format's.
LEMMA CheckKeeps ==
  ASSUME IInv, IndexFile \/ CollectFile \/ ReportFindings
  PROVE  IInv'
<1>1. run.at = "index" /\ run.cmd.kind = "check"
  BY DEF IndexFile, CollectFile, ReportFindings, IInv, Checking
<1>2. CASE IndexFile \/ CollectFile
  <2>2. \E W : /\ run' \in [CheckFields -> W]
               /\ \A j \in {"at", "cmd", "before"} : run'[j] = run[j]
    BY <1>2, CheckMoves
  <2>3. UNCHANGED <<disk, configs, history>>
    BY <1>2 DEF IndexFile, CollectFile
  <2>4. run'.at = run.at /\ run'.cmd = run.cmd /\ run'.before = run.before
    BY <2>2
  <2> QED BY <1>1, <2>2, <2>3, <2>4 DEF IInv, Formatting, Checking, Linked, Outcome, FormatConfig
<1>3. CASE ReportFindings
  <2>1. PICK code, report : Exit(run, code, report, disk)
    BY <1>3 DEF ReportFindings
  <2>2. UNCHANGED <<disk, configs>>
    BY <1>3 DEF ReportFindings
  <2> QED BY <1>1, <2>1, <2>2, ExitKeeps DEF Outcome
<1> QED BY <1>2, <1>3

\* A user's edit disturbs the run, of which nothing is said any more.
LEMMA EditKeeps ==
  ASSUME IInv, UserEdits
  PROVE  IInv'
<1>1. PICK f \in Files : (\E t : disk' = [disk EXCEPT ![f] = t]) /\ run' = [run EXCEPT !.touched = @ \cup {f}]
  BY DEF UserEdits
<1>2. UNCHANGED <<configs, history>>
  BY DEF UserEdits
<1>3. run.at # "idle"
  BY DEF UserEdits, IInv
<1>4. PICK D \in {CheckFields, FormatFields} : \E V : run \in [D -> V]
  BY <1>3 DEF IInv, Formatting, Checking
<1>5. PICK V : run \in [D -> V]
  BY <1>4
<1> DEFINE touched == run.touched \cup {f}
<1>6. run' = [run EXCEPT !.touched = touched]
  BY <1>1
<1> HIDE DEF touched
<1>7. /\ run' \in [D -> V \cup {touched}] /\ run'.touched = touched
      /\ \A j \in {"at", "cmd", "config", "before", "todo"} : run'[j] = run[j]
  BY <1>4, <1>5, <1>6, FieldSet DEF CheckFields, FormatFields, Common
<1>8. run'.at = run.at /\ run'.cmd = run.cmd /\ run'.config = run.config
      /\ run'.before = run.before /\ run'.todo = run.todo /\ run'.touched # {}
  BY <1>7 DEF touched
<1>9. run.at = "index" => \E W : run' \in [CheckFields -> W]
  BY <1>5, <1>7 DEF IInv, Checking
<1>10. run.at \in {"read", "write"} => \E W : run' \in [FormatFields -> W]
  BY <1>5, <1>7 DEF IInv, Formatting
<1>11. Formatting' /\ Checking'
  BY <1>2, <1>8, <1>9, <1>10 DEF IInv, Formatting, Checking, FormatConfig
<1>12. Linked'
  BY <1>2, <1>3, <1>8 DEF IInv, Linked
<1>13. (\A i \in 1 .. Len(history) : Outcome(history[i]))'
  BY <1>2 DEF IInv, Outcome, FormatConfig
<1> QED BY <1>1, <1>2, <1>3, <1>8, <1>11, <1>12, <1>13 DEF IInv

\* What is read is the source of the write.
LEMMA ReadMoves ==
  ASSUME IInv, FormatRead, disk[Head(run.todo)] \in Texts
  PROVE  /\ \E V : run' \in [FormatFields -> V]
         /\ run'.at = "write" /\ run'.source = disk[Head(run.todo)]
         /\ run'.cmd = run.cmd /\ run'.config = run.config /\ run'.before = run.before
         /\ run'.todo = run.todo /\ run'.touched = run.touched /\ run'.changed = run.changed
<1> DEFINE text == disk[Head(run.todo)]
           read == [run EXCEPT !.at = "write"]
<1>1. run' = [read EXCEPT !.source = text]
  BY DEF FormatRead
<1>2. PICK V : run \in [FormatFields -> V]
  BY DEF IInv, Formatting, FormatRead
<1>3. /\ read \in [FormatFields -> V \cup {"write"}] /\ read.at = "write"
      /\ \A j \in FormatFields \ {"at"} : read[j] = run[j]
  BY <1>2, FieldSet DEF FormatFields, Common
<1> HIDE DEF read, text
<1>4. /\ run' \in [FormatFields -> (V \cup {"write"}) \cup {text}] /\ run'.source = text
      /\ \A j \in FormatFields \ {"source"} : run'[j] = read[j]
  BY <1>1, <1>3, FieldSet DEF FormatFields, Common
<1>5. /\ run'.at = "write" /\ run'.cmd = run.cmd /\ run'.config = run.config /\ run'.before = run.before
      /\ run'.todo = run.todo /\ run'.touched = run.touched /\ run'.changed = run.changed
  BY <1>3, <1>4 DEF FormatFields, Common
<1> QED BY <1>4, <1>5 DEF text

\* A format reads the next file, or ends because it cannot.
LEMMA FormatReadKeeps ==
  ASSUME IInv, FormatRead
  PROVE  IInv'
<1> DEFINE head == Head(run.todo)
           listed == Listed(run.before, run.cmd, run.config)
<1>1. /\ run.at = "read" /\ run.cmd \in Commands /\ run.cmd.kind = "format"
      /\ run.config = FormatConfig(run.cmd) /\ run.config # Bad /\ run.todo \in Seq(Files)
      /\ run.touched = {} /\ (InPlace(run.cmd) \/ OnlyChecks(run.cmd)) => Progress
  BY DEF IInv, Formatting, FormatRead
<1>2. run.todo # <<>> /\ UNCHANGED <<disk, configs>>
  BY DEF FormatRead
<1>3. head \in ToSet(run.todo)
  BY <1>1, <1>2 DEF ToSet
<1>4. CASE disk[head] \in Texts
  <2>1. UNCHANGED history
    BY <1>4 DEF FormatRead
  <2>4. (\E V : run' \in [FormatFields -> V]) /\ run'.source = disk[head]
    BY <1>4, ReadMoves
  <2>5. /\ run'.at = "write" /\ run'.cmd = run.cmd /\ run'.config = run.config /\ run'.before = run.before
        /\ run'.todo = run.todo /\ run'.touched = run.touched /\ run'.changed = run.changed
    BY <1>4, ReadMoves
  <2>6. Progress => Progress'
    BY <1>1, <1>2, <1>4, <2>4, <2>5 DEF Progress
  <2>7. Formatting' /\ Checking'
    BY <1>1, <1>2, <2>4, <2>5, <2>6 DEF Formatting, Checking, FormatConfig
  <2>8. Linked'
    BY <1>1, <1>2, <2>1, <2>5 DEF IInv, Linked
  <2>9. (\A i \in 1 .. Len(history) : Outcome(history[i]))'
    BY <1>2, <2>1 DEF IInv, Outcome, FormatConfig
  <2> QED BY <1>2, <2>1, <2>5, <2>7, <2>8, <2>9 DEF IInv
<1>5. CASE disk[head] \notin Texts
  <2>1. Exit(run, 2, <<>>, disk)
    BY <1>5 DEF FormatRead
  <2>2. ~(run.touched = {} /\ OnlyChecks(run.cmd) /\ AllTidy(listed, run.before, run.config))
    BY <1>1, <1>3, <1>5 DEF Progress, AllTidy, Tidy
  <2>3. Outcome([cmd |-> run.cmd, config |-> run.config, before |-> run.before, touched |-> run.touched,
                 after |-> disk, code |-> 2, report |-> <<>>])
    BY <1>1, <2>2 DEF Outcome
  <2> QED BY <1>1, <1>2, <2>1, <2>3, ExitKeeps
<1> QED BY <1>4, <1>5

\* What the write of the file at the head would change, and where it goes.
HeadChanges == Formatted(Head(run.todo), run.source, run.config) # run.source
HeadTarget == Target(run.cmd, Head(run.todo), HeadChanges)

\* A format goes on to the next file.
LEMMA WriteMoves ==
  ASSUME IInv, FormatWrite, ~Fails(HeadTarget)
  PROVE  /\ \E V : run' \in [FormatFields -> V]
         /\ run'.at = "read" /\ run'.cmd = run.cmd /\ run'.config = run.config
         /\ run'.before = run.before /\ run'.todo = Tail(run.todo) /\ run'.touched = run.touched
         /\ run'.changed = IF HeadChanges THEN run.changed + 1 ELSE run.changed
<1> DEFINE count == IF HeadChanges THEN run.changed + 1 ELSE run.changed
           one == [run EXCEPT !.at = "read"]
           two == [one EXCEPT !.todo = Tail(run.todo)]
           three == [two EXCEPT !.source = None]
<1>1. run' = [three EXCEPT !.changed = count]
  BY DEF FormatWrite, HeadTarget, HeadChanges
<1>2. PICK V : run \in [FormatFields -> V]
  BY DEF IInv, Formatting, FormatWrite
<1>3. /\ one \in [FormatFields -> V \cup {"read"}] /\ one.at = "read"
      /\ \A j \in FormatFields \ {"at"} : one[j] = run[j]
  BY <1>2, FieldSet DEF FormatFields, Common
<1> HIDE DEF one
<1>4. /\ two \in [FormatFields -> (V \cup {"read"}) \cup {Tail(run.todo)}] /\ two.todo = Tail(run.todo)
      /\ \A j \in FormatFields \ {"todo"} : two[j] = one[j]
  BY <1>3, FieldSet DEF FormatFields, Common
<1> HIDE DEF two
<1>5. /\ three \in [FormatFields -> ((V \cup {"read"}) \cup {Tail(run.todo)}) \cup {None}]
      /\ \A j \in FormatFields \ {"source"} : three[j] = two[j]
  BY <1>4, FieldSet DEF FormatFields, Common
<1> HIDE DEF three, count
<1>6. /\ run' \in [FormatFields -> (((V \cup {"read"}) \cup {Tail(run.todo)}) \cup {None}) \cup {count}]
      /\ run'.changed = count
      /\ \A j \in FormatFields \ {"changed"} : run'[j] = three[j]
  BY <1>1, <1>5, FieldSet DEF FormatFields, Common
<1>7. /\ run'.at = "read" /\ run'.cmd = run.cmd /\ run'.config = run.config /\ run'.before = run.before
      /\ run'.todo = Tail(run.todo) /\ run'.touched = run.touched
  BY <1>3, <1>4, <1>5, <1>6 DEF FormatFields, Common
<1> QED BY <1>6, <1>7 DEF count

\* The file at the head is done after its write: it is tidy, and no other file has changed.
LEMMA FormatWriteKeeps ==
  ASSUME IInv, FormatWrite
  PROVE  IInv'
<1> DEFINE f == Head(run.todo)
           formatted == Formatted(f, run.source, run.config)
           changed == formatted # run.source
           target == Target(run.cmd, f, changed)
           listed == Listed(run.before, run.cmd, run.config)
<1>1. /\ run.at = "write" /\ run.cmd \in Commands /\ run.cmd.kind = "format"
      /\ run.config = FormatConfig(run.cmd) /\ run.config # Bad /\ run.todo \in Seq(Files)
      /\ run.todo # <<>> /\ DOMAIN disk = Files
      /\ run.touched = {} /\ (InPlace(run.cmd) \/ OnlyChecks(run.cmd)) => Progress
  BY DEF IInv, Formatting, FormatWrite
<1>2. /\ UNCHANGED configs
      /\ disk' = IF target = None \/ target \in ReadOnly THEN disk ELSE [disk EXCEPT ![target] = formatted]
  BY DEF FormatWrite
<1>3. f \in Files /\ f \in ToSet(run.todo) /\ ToSet(run.todo) \subseteq {f} \cup ToSet(Tail(run.todo))
      /\ ToSet(Tail(run.todo)) \subseteq ToSet(run.todo) /\ Tail(run.todo) \in Seq(Files)
  BY <1>1, HeadAndTail
<1>4. CASE Fails(target)
  <2>1. Exit(run, 2, <<>>, disk) /\ disk' = disk
    BY <1>2, <1>4 DEF FormatWrite, Fails
  <2>2. ~OnlyChecks(run.cmd)
    BY <1>4 DEF Fails, Target, OnlyChecks
  <2>3. Outcome([cmd |-> run.cmd, config |-> run.config, before |-> run.before, touched |-> run.touched,
                 after |-> disk, code |-> 2, report |-> <<>>])
    BY <1>1, <2>2 DEF Outcome
  <2> QED BY <1>1, <1>2, <2>1, <2>3, ExitKeeps
<1>5. CASE ~Fails(target)
  <2> DEFINE count == IF changed THEN run.changed + 1 ELSE run.changed
  <2>1. UNCHANGED history
    BY <1>5 DEF FormatWrite
  <2>6. (\E V : run' \in [FormatFields -> V]) /\ run'.changed = count
    BY <1>5, WriteMoves DEF HeadTarget, HeadChanges
  <2>7. /\ run'.at = "read" /\ run'.cmd = run.cmd /\ run'.config = run.config /\ run'.before = run.before
        /\ run'.todo = Tail(run.todo) /\ run'.touched = run.touched
    BY <1>5, WriteMoves DEF HeadTarget, HeadChanges
  <2> HIDE DEF count
  <2>8. ASSUME Progress, InPlace(run.cmd) \/ OnlyChecks(run.cmd) PROVE Progress'
    <3>1. run.source = disk[f] /\ run.source \in Texts /\ Present(disk) = Present(run.before)
          /\ ToSet(run.todo) \subseteq listed
      BY <1>1, <2>8 DEF Progress
    <3>2. formatted \in Texts /\ Formatted(f, formatted, run.config) = formatted
      BY <3>1, FormattedIsTidy
    <3>3. target = IF InPlace(run.cmd) /\ changed THEN f ELSE None
      BY <2>8 DEF Target, InPlace, OnlyChecks
    <3>4. target \in ReadOnly => target = None
      BY <1>5 DEF Fails
    <3>5. disk' = IF InPlace(run.cmd) /\ changed THEN [disk EXCEPT ![f] = formatted] ELSE disk
      BY <1>2, <1>3, <3>3, <3>4, FormatAssumption
    <3> HIDE DEF target
    <3>6. Tidy(f, disk, run.config) <=> ~changed
      BY <3>1 DEF Tidy
    <3>7. InPlace(run.cmd) => Tidy(f, disk', run.config)
      BY <1>1, <1>3, <3>1, <3>2, <3>5 DEF Tidy
    <3> HIDE DEF formatted
    <3>8. \A g \in Files \ {f} : disk'[g] = disk[g]
      BY <1>1, <3>5
    <3>9. disk'[f] \in Texts /\ disk[f] \in Texts
      BY <1>1, <1>3, <3>1, <3>2, <3>5
    <3>10. Present(disk') = Present(disk)
      BY <1>3, <3>8, <3>9, FormatAssumption DEF Present
    <3> HIDE DEF changed
    <3>11. listed = Listed(run.before, run.cmd, run.config)'
      BY <2>7
    <3>12. InPlace(run.cmd) => \A g \in listed \ ToSet(Tail(run.todo)) : Tidy(g, disk', run.config)
      <4> SUFFICES ASSUME InPlace(run.cmd), NEW g \in listed, g \notin ToSet(Tail(run.todo))
                   PROVE  Tidy(g, disk', run.config)
        OBVIOUS
      <4>1. CASE g = f
        BY <3>7, <4>1
      <4>2. CASE g # f
        <5>1. Tidy(g, disk, run.config)
          BY <1>3, <2>8, <4>2 DEF Progress
        <5>2. disk'[g] = disk[g]
          BY <1>1, <3>5, <4>2
        <5> QED BY <5>1, <5>2 DEF Tidy
      <4> QED BY <4>1, <4>2
    <3>13. OnlyChecks(run.cmd) =>
             disk' = run.before /\ (AllTidy(listed, run.before, run.config) => count = 0)
      <4> SUFFICES ASSUME OnlyChecks(run.cmd)
                   PROVE  disk' = run.before /\ (AllTidy(listed, run.before, run.config) => count = 0)
        OBVIOUS
      <4>1. disk = run.before /\ (AllTidy(listed, run.before, run.config) => run.changed = 0)
        BY <2>8 DEF Progress
      <4>2. disk' = disk
        BY <3>5 DEF OnlyChecks, InPlace
      <4>3. AllTidy(listed, run.before, run.config) => ~changed
        BY <1>3, <3>1, <3>6, <4>1 DEF AllTidy
      <4> QED BY <4>1, <4>2, <4>3 DEF count
    <3> HIDE DEF listed
    <3> QED BY <1>3, <2>6, <2>7, <3>1, <3>10, <3>11, <3>12, <3>13 DEF Progress
  <2>9. Formatting' /\ Checking'
    BY <1>1, <1>2, <1>3, <2>6, <2>7, <2>8 DEF Formatting, Checking, FormatConfig
  <2>10. Linked'
    BY <1>1, <2>1, <2>7 DEF IInv, Linked
  <2>11. (\A i \in 1 .. Len(history) : Outcome(history[i]))'
    BY <1>2, <2>1 DEF IInv, Outcome, FormatConfig
  <2>12. DOMAIN disk' = Files
    BY <1>1, <1>2
  <2> QED BY <1>2, <2>1, <2>7, <2>9, <2>10, <2>11, <2>12 DEF IInv
<1> QED BY <1>4, <1>5

\* A format that has nothing to do any more has formatted all it listed.
LEMMA FormatDoneKeeps ==
  ASSUME IInv, FormatDone
  PROVE  IInv'
<1> DEFINE listed == Listed(run.before, run.cmd, run.config)
<1>1. /\ run.at = "read" /\ run.cmd \in Commands /\ run.cmd.kind = "format" /\ run.todo = <<>>
      /\ run.config = FormatConfig(run.cmd) /\ run.config # Bad
      /\ run.touched = {} /\ (InPlace(run.cmd) \/ OnlyChecks(run.cmd)) => Progress
      /\ UNCHANGED <<disk, configs>> /\ Exit(run, ExitCode(run.changed), <<>>, disk)
  BY DEF IInv, Formatting, FormatDone
<1>2. ToSet(run.todo) = {}
  BY <1>1 DEF ToSet
<1>3. run.touched = {} /\ InPlace(run.cmd) =>
        Present(disk) = Present(run.before) /\ AllTidy(listed, disk, run.config)
  BY <1>1, <1>2 DEF Progress, AllTidy
<1>4. run.touched = {} /\ OnlyChecks(run.cmd) /\ AllTidy(listed, run.before, run.config) =>
        ExitCode(run.changed) = 0
  BY <1>1 DEF Progress, ExitCode
<1> HIDE DEF listed
<1>5. Outcome([cmd |-> run.cmd, config |-> run.config, before |-> run.before, touched |-> run.touched,
               after |-> disk, code |-> ExitCode(run.changed), report |-> <<>>])
  BY <1>1, <1>3, <1>4 DEF Outcome, listed
<1> QED BY <1>1, <1>5, ExitKeeps

(***************************************************************************)
(* The gate.                                                               *)
(***************************************************************************)
\* Nothing has run yet.
LEMMA InitHolds == Init => IInv
<1> SUFFICES ASSUME Init PROVE IInv
  OBVIOUS
<1>1. DOMAIN disk = Files /\ configs \in Layouts /\ run = Idle /\ history = <<>>
  BY FormatAssumption DEF Init
<1>2. run.at = "idle"
  BY <1>1 DEF Idle
<1>3. history \in Seq({}) /\ Len(history) = 0
  BY <1>1
<1>4. Linked
  BY <1>1, <1>3 DEF Linked
<1> QED BY <1>1, <1>2, <1>3, <1>4 DEF IInv, Formatting, Checking

\* Each step has its lemma.
LEMMA StepHolds == IInv /\ [Next]_vars => IInv'
<1> SUFFICES ASSUME IInv, [Next]_vars PROVE IInv'
  OBVIOUS
<1>1. CASE Start
  BY <1>1, StartCheckKeeps, StartFormatKeeps DEF Start
<1>2. CASE IndexFile \/ CollectFile \/ ReportFindings
  BY <1>2, CheckKeeps
<1>3. CASE FormatRead
  BY <1>3, FormatReadKeeps
<1>4. CASE FormatWrite
  BY <1>4, FormatWriteKeeps
<1>5. CASE FormatDone
  BY <1>5, FormatDoneKeeps
<1>6. CASE UserEdits
  BY <1>6, EditKeeps
<1>7. CASE UNCHANGED vars
  <2>1. UNCHANGED <<disk, configs, run, history>>
    BY <1>7 DEF vars
  <2>2. Progress => Progress'
    BY <2>1 DEF Progress
  <2> QED BY <2>1, <2>2 DEF IInv, Formatting, Checking, Linked, Outcome, FormatConfig
<1> QED BY <1>1, <1>2, <1>3, <1>4, <1>5, <1>6, <1>7 DEF Next

\* A check of what the format before it has formatted lists the same files and finds them tidy.
LEMMA GateHolds == IInv => GatePasses
<1> SUFFICES ASSUME IInv, NEW i \in 1 .. Len(history) - 1,
                    history[i].cmd.kind = "format", history[i + 1].cmd.kind = "format",
                    InPlace(history[i].cmd), history[i].code # 2,
                    history[i + 1].cmd = [history[i].cmd EXCEPT !.check = TRUE],
                    history[i].touched = {}, history[i + 1].touched = {}
             PROVE  history[i + 1].code = 0
  BY DEF GatePasses
<1> DEFINE r == history[i]
           s == history[i + 1]
<1>1. PICK S : history \in Seq(S)
  BY DEF IInv
<1>2. i \in 1 .. Len(history) /\ i + 1 \in 1 .. Len(history)
  BY <1>1
<1>3. Outcome(r) /\ Outcome(s) /\ r.after = s.before
  BY <1>2 DEF IInv, Linked
<1> HIDE DEF r, s
<1>4. /\ r.cmd \in Commands /\ s.cmd \in Commands /\ s.config = FormatConfig(s.cmd)
      /\ r.config = FormatConfig(r.cmd) /\ r.config # Bad /\ Present(r.after) = Present(r.before)
      /\ AllTidy(Listed(r.before, r.cmd, r.config), r.after, r.config)
  BY <1>3 DEF Outcome, r, s
<1>5. s.cmd = [r.cmd EXCEPT !.check = TRUE] /\ DOMAIN r.cmd = {"kind", "paths", "config", "check", "diff", "output"}
  BY <1>4, FormatAssumption DEF r, s
<1>6. s.cmd.paths = r.cmd.paths /\ s.cmd.config = r.cmd.config /\ OnlyChecks(s.cmd)
  BY <1>5 DEF OnlyChecks, InPlace, r, s
<1>7. s.config = r.config
  BY <1>4, <1>6 DEF FormatConfig
<1>8. Listed(s.before, s.cmd, s.config) = Listed(r.before, r.cmd, r.config)
  BY <1>3, <1>4, <1>6, <1>7 DEF Listed, FilesToFormat, Roots
<1> QED BY <1>3, <1>4, <1>6, <1>7, <1>8 DEF Outcome, r, s

\* Whatever the files, the configurations and the commands, and whatever is saved and checked in
\* between: a format in place that went through undisturbed is followed by a --check of the same
\* paths that reports nothing (run_format in src/format/cli.rs).
THEOREM GateAlwaysPasses == Spec => []GatePasses
BY InitHolds, StepHolds, GateHolds, PTL DEF Spec

(***************************************************************************)
(* What a format leaves, file by file, and how it ends.                    *)
(***************************************************************************)
\* The files of a format nobody else writes, what it makes of one, and what it has done.
Mine(r) == Files \ (r.touched \cup {r.cmd.output})
Redone(r, f) == Formatted(f, r.before[f], r.config)
Done(r) == Chosen(r) \ ToSet(r.todo)

Several(r) == \E f, g \in Files : \E i \in AskedBy(r, f), j \in AskedBy(r, g) : <<f, i>> # <<g, j>>

\* A format under way: each of its files has its text still, or is formatted.
Half(r, files) ==
  /\ ToSet(r.todo) \subseteq Chosen(r)
  /\ r.at = "write" => r.source \in Texts /\ (Head(r.todo) \in Mine(r) => r.source = files[Head(r.todo)])
  /\ \A f \in Mine(r) :
       \/ files[f] = r.before[f]
       \/ /\ InPlace(r.cmd) /\ f \in Chosen(r) /\ f \notin ReadOnly
          /\ r.before[f] \in Texts /\ files[f] = Redone(r, f)
  /\ \A f \in Mine(r) \cap Done(r) : InPlace(r.cmd) /\ r.before[f] \in Texts => files[f] = Redone(r, f)

\* One that nobody disturbs has met no reason to fail and counts what it changes.
Judged(r, files) ==
  /\ r.cmd.output \in Files => Len(r.todo) <= 1 /\ (r.todo # <<>> => files = r.before) /\ ~Several(r)
  /\ r.at = "write" => r.source = files[Head(r.todo)]
  /\ r.changed \in Nat
  /\ r.changed > 0 => \E f \in Chosen(r) : Changes(r, f)
  /\ \A f \in Done(r) : /\ r.before[f] \in Texts
                        /\ ~Fails(Target(r.cmd, f, Changes(r, f)))
                        /\ Changes(r, f) => r.changed > 0
  /\ \A f \in Mine(r) : files[f] # r.before[f] => r.changed > 0

\* The two halves of FormatOutcome: the exit status and the files.
Verdict(r, code) ==
  r.touched = {} => code = IF Failing(r) THEN 2 ELSE IF \E f \in Chosen(r) : Changes(r, f) THEN 1 ELSE 0

Leaves(r, files, code) ==
  \A f \in Mine(r) :
    IF r.config # Bad /\ f \in Chosen(r) /\ InPlace(r.cmd) /\ r.before[f] \in Texts
    THEN files[f] \in {Redone(r, f)} \cup (IF code = 2 THEN {r.before[f]} ELSE {})
    ELSE files[f] = r.before[f]

Judgement(r) == r.cmd.kind = "format" => Verdict(r, r.code) /\ Leaves(r, r.after, r.code)

Underway == run.at \in {"read", "write"} => Half(run, disk) /\ (run.touched = {} => Judged(run, disk))

Judgements == \A i \in 1 .. Len(history) : Judgement(history[i])

FInv == IInv /\ Underway /\ Judgements

\* What a format is asked for depends on its command, its configuration and the files before it.
LEMMA SameAsked ==
  ASSUME NEW r, NEW s, s.cmd = r.cmd, s.config = r.config, s.before = r.before
  PROVE  /\ \A f : AskedBy(s, f) = AskedBy(r, f)
         /\ Chosen(s) = Chosen(r)
         /\ \A f : (Changes(s, f) <=> Changes(r, f)) /\ Redone(s, f) = Redone(r, f)
         /\ Several(s) <=> Several(r)
         /\ Failing(s) <=> Failing(r)
<1>1. \A f : AskedBy(s, f) = AskedBy(r, f)
  BY DEF AskedBy
<1>2. Chosen(s) = Chosen(r)
  BY <1>1 DEF Chosen
<1>3. \A f : (Changes(s, f) <=> Changes(r, f)) /\ Redone(s, f) = Redone(r, f)
  BY DEF Changes, Redone
<1>4. Several(s) <=> Several(r)
  BY <1>1 DEF Several
<1>5. \A t : Failing(t) <=>
        \/ t.config = Bad
        \/ t.cmd.output \in Files /\ Several(t)
        \/ \E f \in Chosen(t) : t.before[f] \notin Texts
        \/ \E f \in Chosen(t) : Fails(Target(t.cmd, f, Changes(t, f)))
  BY DEF Failing, Several
<1>6. \A f : Target(s.cmd, f, Changes(s, f)) = Target(r.cmd, f, Changes(r, f))
  BY <1>3 DEF Target
<1> QED BY <1>1, <1>2, <1>3, <1>4, <1>5, <1>6

\* The list of a format has, for each of its paths, the files that path asks for, each once.
LEMMA PartIsAsked ==
  ASSUME configs \in Layouts, NEW r, r.cmd \in Commands, r.cmd.kind = "format",
         r.config = FormatConfig(r.cmd), r.config # Bad,
         NEW i \in DOMAIN Roots(r.cmd, r.config)
  PROVE  LET part == ListParts(Present(r.before), r.cmd, r.config)[i]
         IN  IsInjective(part) /\ ToSet(part) = {f \in Files : i \in AskedBy(r, f)}
<1> DEFINE cfg == r.config
           roots == Roots(r.cmd, cfg)
           root == roots[i]
           present == Present(r.before)
           part == ListParts(present, r.cmd, cfg)[i]
           Asked(f) == r.before[f] # Absent /\ (root = f \/ (root \in Inside[f] /\ Last(Parts[f]) \in cfg.extensions))
           skipped == r.cmd.paths # <<>> /\ IsRelativeEscape(root, cfg)
<1>1. present \in SUBSET Files /\ \A f \in Files : f \in present <=> r.before[f] # Absent
  BY DEF Present
<1>2. root \in Files \cup Dirs
  <2>1. roots \in Seq(Files \cup Dirs)
    BY <1>1, ListPartsType
  <2>2. i \in DOMAIN roots
    OBVIOUS
  <2> HIDE DEF roots
  <2> QED BY <2>1, <2>2, ElementType
<1>3. \A f \in Files : i \in AskedBy(r, f) <=> ~skipped /\ Asked(f)
  BY DEF AskedBy, IsRelativeEscape
<1>4. part = IF skipped THEN <<>> ELSE IF root \in present THEN <<root>> ELSE Walk(present, root, cfg)
  BY DEF ListParts
<1> HIDE DEF part, present, skipped, root, cfg
<1>5. IsInjective(<<>>) /\ ToSet(<<>>) = {}
  BY DEF IsInjective, ToSet
<1>6. CASE skipped
  BY <1>3, <1>4, <1>5, <1>6 DEF part, present, cfg
<1>7. CASE ~skipped /\ root \in present
  <2>1. IsInjective(<<root>>) /\ ToSet(<<root>>) = {root}
    BY DEF IsInjective, ToSet
  <2>2. \A f \in Files : Asked(f) <=> f = root
    BY <1>1, <1>7, WalkAssumption
  <2> HIDE DEF Asked
  <2>3. {f \in Files : i \in AskedBy(r, f)} = {root}
    BY <1>1, <1>3, <1>7, <2>2
  <2> QED BY <1>4, <1>7, <2>1, <2>3 DEF part, present, cfg
<1>8. CASE ~skipped /\ root \notin present /\ root \in Dirs
  <2>1. \A f \in Files : Asked(f) <=> f \in present /\ root \in Inside[f] /\ Last(Parts[f]) \in cfg.extensions
    BY <1>1, <1>8, WalkAssumption
  <2>2. IsInjective(Walk(present, root, cfg))
        /\ ToSet(Walk(present, root, cfg)) =
             {f \in present : root \in Inside[f] /\ Last(Parts[f]) \in cfg.extensions}
    BY <1>1, <1>8, WalkElements
  <2> HIDE DEF Asked
  <2>3. {f \in Files : i \in AskedBy(r, f)} = ToSet(Walk(present, root, cfg))
    BY <1>1, <1>3, <1>8, <2>1, <2>2
  <2> QED BY <1>4, <1>8, <2>2, <2>3 DEF part, present, cfg
<1>9. CASE ~skipped /\ root \notin present /\ root \notin Dirs
  <2>1. \A f \in Files : ~Asked(f)
    BY <1>1, <1>2, <1>9, WalkAssumption
  <2>2. Walk(present, root, cfg) = <<>>
    BY <1>1, <1>9, WalkElements
  <2> HIDE DEF Asked
  <2> QED BY <1>3, <1>4, <1>5, <1>9, <2>1, <2>2 DEF part, present, cfg
<1> QED BY <1>6, <1>7, <1>8, <1>9

\* A format lists what it is asked for, and more than one entry if it is asked for several.
LEMMA ListIsAsked ==
  ASSUME configs \in Layouts, NEW r, r.cmd \in Commands, r.cmd.kind = "format",
         r.config = FormatConfig(r.cmd), r.config # Bad
  PROVE  LET list == FilesToFormat(Present(r.before), r.cmd, r.config)
         IN  ToSet(list) = Chosen(r) /\ (Len(list) > 1 <=> Several(r))
<1> DEFINE parts == ListParts(Present(r.before), r.cmd, r.config)
           paths == Roots(r.cmd, r.config)
<1>1. Present(r.before) \in SUBSET Files
  BY DEF Present
<1>2. parts \in Seq(Seq(Files)) /\ FilesToFormat(Present(r.before), r.cmd, r.config) = FlattenSeq(parts)
  BY <1>1, ListPartsType
<1>3. DOMAIN parts = DOMAIN paths
  BY DEF ListParts
<1>4. \A i \in DOMAIN parts : IsInjective(parts[i]) /\ ToSet(parts[i]) = {f \in Files : i \in AskedBy(r, f)}
  BY <1>3, PartIsAsked
<1>5. \A f : AskedBy(r, f) \subseteq DOMAIN paths
  BY DEF AskedBy
<1> HIDE DEF parts, paths
<1>6. ToSet(FlattenSeq(parts)) = Chosen(r)
  <2>1. ToSet(FlattenSeq(parts)) = UNION {ToSet(parts[i]) : i \in DOMAIN parts}
    BY <1>2, FlattenSeqElements
  <2>2. \A f : f \in ToSet(FlattenSeq(parts)) <=> \E i \in DOMAIN parts : f \in Files /\ i \in AskedBy(r, f)
    BY <1>4, <2>1
  <2> QED BY <1>3, <1>5, <2>2 DEF Chosen
<1>7. Len(FlattenSeq(parts)) > 1 <=> Several(r)
  <2>1. Len(FlattenSeq(parts)) > 1 <=>
          \E i, j \in DOMAIN parts : \E f \in ToSet(parts[i]), g \in ToSet(parts[j]) : f # g \/ i # j
    BY <1>2, <1>4, FlattenSeqSeveral
  <2>2. ASSUME NEW i \in DOMAIN parts, NEW j \in DOMAIN parts,
               NEW f \in ToSet(parts[i]), NEW g \in ToSet(parts[j]), f # g \/ i # j
        PROVE  Several(r)
    <3>1. f \in Files /\ g \in Files /\ i \in AskedBy(r, f) /\ j \in AskedBy(r, g) /\ <<f, i>> # <<g, j>>
      BY <1>4, <2>2
    <3> QED BY <3>1 DEF Several
  <2>3. ASSUME NEW f \in Files, NEW g \in Files, NEW i \in AskedBy(r, f), NEW j \in AskedBy(r, g),
               <<f, i>> # <<g, j>>
        PROVE  \E k, l \in DOMAIN parts : \E x \in ToSet(parts[k]), y \in ToSet(parts[l]) : x # y \/ k # l
    <3>1. i \in DOMAIN parts /\ j \in DOMAIN parts /\ (f # g \/ i # j)
      BY <1>3, <1>5, <2>3
    <3>2. f \in ToSet(parts[i]) /\ g \in ToSet(parts[j])
      BY <1>4, <3>1
    <3> QED BY <3>1, <3>2
  <2> QED BY <2>1, <2>2, <2>3 DEF Several
<1> QED BY <1>2, <1>6, <1>7

\* A command that ends adds its judgement to those before it.
LEMMA ExitJudged ==
  ASSUME FInv, NEW r, NEW code, NEW report, Exit(r, code, report, disk),
         r.cmd.kind = "format" => Verdict(r, code) /\ Leaves(r, disk, code)
  PROVE  Underway' /\ Judgements'
<1> DEFINE new == [cmd |-> r.cmd, config |-> r.config, before |-> r.before, touched |-> r.touched,
                   after |-> disk, code |-> code, report |-> report]
<1>1. run'.at = "idle" /\ history' = Append(history, new)
  BY DEF Exit, Idle
<1>2. /\ new.cmd = r.cmd /\ new.config = r.config /\ new.before = r.before
      /\ new.touched = r.touched /\ new.after = disk /\ new.code = code
  OBVIOUS
<1> HIDE DEF new
<1>3. Judgement(new)
  <2>1. /\ Chosen(new) = Chosen(r) /\ (Failing(new) <=> Failing(r)) /\ Mine(new) = Mine(r)
        /\ \A f : (Changes(new, f) <=> Changes(r, f)) /\ Redone(new, f) = Redone(r, f)
    BY <1>2, SameAsked DEF Mine
  <2>2. Verdict(r, code) => Verdict(new, code)
    BY <1>2, <2>1 DEF Verdict
  <2>3. Leaves(r, disk, code) => Leaves(new, disk, code)
    BY <1>2, <2>1 DEF Leaves
  <2> QED BY <1>2, <2>2, <2>3 DEF Judgement
<1>4. PICK S : history \in Seq(S)
  BY DEF FInv, IInv
<1>5. /\ Len(history) \in Nat /\ Len(history') = Len(history) + 1 /\ history'[Len(history) + 1] = new
      /\ \A i \in 1 .. Len(history) : history'[i] = history[i]
  BY <1>1, <1>4
<1>6. \A i \in 1 .. Len(history') : Judgement(history'[i])
  BY <1>3, <1>5 DEF FInv, Judgements
<1> QED BY <1>1, <1>6 DEF Underway, Judgements

\* What is left half done is kept as a failing format may leave it.
LEMMA HalfIsKept ==
  ASSUME NEW r, NEW files, Half(r, files), r.config # Bad
  PROVE  Leaves(r, files, 2)
BY DEF Half, Leaves

\* The steps of a check say nothing of a format.
LEMMA CheckJudged ==
  ASSUME FInv, IndexFile \/ CollectFile \/ ReportFindings
  PROVE  Underway' /\ Judgements'
<1>1. run.at = "index" /\ run.cmd.kind = "check"
  BY DEF IndexFile, CollectFile, ReportFindings, FInv, IInv, Checking
<1>2. CASE IndexFile \/ CollectFile
  <2>1. run'.at = run.at
    BY <1>2, CheckMoves DEF FInv
  <2>2. history' = history
    BY <1>2 DEF IndexFile, CollectFile
  <2> QED BY <1>1, <2>1, <2>2 DEF FInv, Underway, Judgements
<1>3. CASE ReportFindings
  <2>1. PICK code, report : Exit(run, code, report, disk)
    BY <1>3 DEF ReportFindings
  <2> QED BY <1>1, <2>1, ExitJudged
<1> QED BY <1>2, <1>3

\* So does a check that starts, or fails to.
LEMMA StartCheckJudged ==
  ASSUME FInv, run = Idle, NEW c \in Commands, StartCheck(c)
  PROVE  Underway' /\ Judgements'
<1> DEFINE config == ResolveConfig(c)
<1>1. c.kind = "check"
  BY DEF StartCheck
<1>2. CASE Exit(Started(c, config), 2, <<>>, disk)
  <2>1. Started(c, config).cmd = c
    BY DEF Started
  <2> HIDE DEF config
  <2> QED BY <1>1, <1>2, <2>1, ExitJudged
<1>3. CASE run'.at = "index" /\ UNCHANGED history
  BY <1>3 DEF FInv, Underway, Judgements
<1> QED BY <1>2, <1>3 DEF StartCheck

\* A format that starts has done nothing, and one that does not start has a reason.
LEMMA StartFormatJudged ==
  ASSUME FInv, run = Idle, NEW c \in Commands, StartFormat(c), UNCHANGED <<disk, configs, edits>>
  PROVE  Underway' /\ Judgements'
<1> DEFINE config == FormatConfig(c)
           r == Started(c, config)
           files == FilesToFormat(Present(disk), c, config)
<1>1. c.kind = "format" /\ configs \in Layouts
  BY DEF StartFormat, FInv, IInv
<1>2. r.cmd = c /\ r.config = config /\ r.before = disk /\ r.touched = {}
  BY DEF Started
<1>3. CASE (config = Bad \/ (c.output \in Files /\ Len(files) > 1)) /\ Exit(r, 2, <<>>, disk)
  <2>1. Failing(r)
    <3>1. CASE config = Bad
      BY <1>2, <3>1 DEF Failing
    <3>2. CASE config # Bad
      <4>1. c.output \in Files /\ Len(files) > 1
        BY <1>3, <3>2
      <4> HIDE DEF r, config
      <4>2. Several(r)
        BY <1>1, <1>2, <3>2, <4>1, ListIsAsked DEF config
      <4> QED BY <1>2, <4>1, <4>2 DEF Failing, Several
    <3> QED BY <3>1, <3>2
  <2>2. Verdict(r, 2)
    BY <2>1 DEF Verdict
  <2>3. Leaves(r, disk, 2)
    BY <1>2 DEF Leaves
  <2> HIDE DEF r
  <2> QED BY <1>3, <2>2, <2>3, ExitJudged
<1>4. CASE /\ config # Bad /\ ~(c.output \in Files /\ Len(files) > 1)
           /\ run' = [cmd |-> c, config |-> config, before |-> disk, touched |-> {},
                      at |-> "read", todo |-> files, source |-> None, changed |-> 0]
           /\ UNCHANGED history
  <2> DEFINE next == [cmd |-> c, config |-> config, before |-> disk, touched |-> {},
                      at |-> "read", todo |-> files, source |-> None, changed |-> 0]
  <2>1. /\ next.cmd = c /\ next.config = config /\ next.before = disk /\ next.touched = {}
        /\ next.at = "read" /\ next.todo = files /\ next.changed = 0
    OBVIOUS
  <2>2. files \in Seq(Files)
    BY <1>1, <1>4, ListType DEF Present
  <2>3. run' = next /\ disk' = disk
    BY <1>4
  <2> HIDE DEF next, config
  <2>4. ToSet(next.todo) = Chosen(next) /\ (Len(next.todo) > 1 <=> Several(next))
    BY <1>1, <1>4, <2>1, ListIsAsked DEF config
  <2> HIDE DEF files
  <2>5. Half(next, disk)
    BY <2>1, <2>4 DEF Half, Done
  <2>6. Len(next.todo) \in Nat
    BY <2>1, <2>2
  <2>7. Judged(next, disk)
    BY <1>4, <2>1, <2>4, <2>6 DEF Judged, Done
  <2>8. Underway'
    BY <2>3, <2>5, <2>7 DEF Underway
  <2> QED BY <1>4, <2>8 DEF FInv, Judgements
<1> QED BY <1>3, <1>4 DEF StartFormat

\* The user's edits are not the format's.
LEMMA EditJudged ==
  ASSUME FInv, UserEdits
  PROVE  Underway' /\ Judgements'
<1>1. PICK f \in Files : \E t : disk' = [disk EXCEPT ![f] = t] /\ run' = [run EXCEPT !.touched = @ \cup {f}]
  BY DEF UserEdits
<1>2. history' = history /\ DOMAIN disk = Files
  BY DEF UserEdits, FInv, IInv
<1>3. CASE run.at \in {"read", "write"}
  <2> DEFINE touched == run.touched \cup {f}
  <2>1. PICK V : run \in [FormatFields -> V]
    BY <1>3 DEF FInv, IInv, Formatting
  <2>2. run' = [run EXCEPT !.touched = touched]
    BY <1>1
  <2> HIDE DEF touched
  <2>3. run'.touched = touched /\ \A j \in FormatFields \ {"touched"} : run'[j] = run[j]
    BY <2>1, <2>2, FieldSet DEF FormatFields, Common
  <2>4. /\ run'.at = run.at /\ run'.cmd = run.cmd /\ run'.config = run.config /\ run'.before = run.before
        /\ run'.todo = run.todo /\ run'.source = run.source
    BY <2>3 DEF FormatFields, Common
  <2>5. Chosen(run') = Chosen(run) /\ \A g : Redone(run', g) = Redone(run, g)
    BY <2>4, SameAsked
  <2>6. Mine(run') \subseteq Mine(run) \ {f} /\ run'.touched # {}
    BY <2>3, <2>4 DEF Mine, touched
  <2>7. Done(run') = Done(run)
    BY <2>4, <2>5 DEF Done
  <2>8. \A g \in Mine(run') : disk'[g] = disk[g]
    BY <1>1, <1>2, <2>6 DEF Mine
  <2>9. Half(run, disk)
    BY <1>3 DEF FInv, Underway
  <2>10. Half(run', disk')
    BY <2>4, <2>5, <2>6, <2>7, <2>8, <2>9 DEF Half
  <2> QED BY <1>2, <2>6, <2>10 DEF FInv, Underway, Judgements
<1>4. CASE run.at \notin {"read", "write"}
  <2>1. run.at = "index" /\ \E V : run \in [CheckFields -> V]
    BY <1>4 DEF FInv, IInv, Checking, UserEdits
  <2>2. run'.at = "index"
    BY <1>1, <2>1 DEF CheckFields, Common
  <2> QED BY <1>2, <2>2 DEF FInv, Underway, Judgements
<1> QED BY <1>3, <1>4

\* What is left of a list of one entry.
LEMMA NoMoreThanOne ==
  ASSUME NEW S, NEW s \in Seq(S), s # <<>>, Len(s) <= 1
  PROVE  Tail(s) = <<>> /\ Len(Tail(s)) <= 1
<1>1. Len(s) \in Nat /\ Len(s) # 0 /\ Tail(s) \in Seq(S) /\ Len(Tail(s)) = Len(s) - 1
  OBVIOUS
<1>2. \A n \in Nat : n # 0 /\ n <= 1 => n - 1 = 0
  OBVIOUS
<1>3. Len(Tail(s)) = 0
  BY <1>1, <1>2, Zenon
<1> QED BY <1>1, <1>3

\* What a format under way has at its head; undisturbed, that file is as it was or already formatted.
LEMMA HeadIsMine ==
  ASSUME NEW r, NEW files, Half(r, files), r.touched = {} => Judged(r, files),
         r.todo \in Seq(Files), r.todo # <<>>
  PROVE  LET f == Head(r.todo)
         IN  /\ f \in Files /\ f \in Chosen(r)
             /\ r.touched = {} =>
                  \/ files[f] = r.before[f]
                  \/ /\ InPlace(r.cmd) /\ f \notin ReadOnly /\ r.before[f] \in Texts
                     /\ files[f] = Redone(r, f) /\ r.changed > 0
<1> DEFINE f == Head(r.todo)
<1>1. f \in Files /\ f \in Chosen(r)
  BY HeadAndTail DEF Half
<1>2. CASE f = r.cmd.output
  BY <1>1, <1>2 DEF Judged
<1>3. CASE f # r.cmd.output
  <2>1. r.touched = {} => f \in Mine(r)
    BY <1>1, <1>3 DEF Mine
  <2> HIDE DEF f
  <2>2. r.touched = {} /\ files[f] # r.before[f] => r.changed > 0
    BY <2>1 DEF Judged
  <2> QED BY <1>1, <2>1, <2>2 DEF Half, f
<1> QED BY <1>1, <1>2, <1>3

\* A file that cannot be read is a reason to fail.
LEMMA ReadJudged ==
  ASSUME FInv, FormatRead
  PROVE  Underway' /\ Judgements'
<1> DEFINE f == Head(run.todo)
<1>1. /\ run.at = "read" /\ run.todo # <<>> /\ run.todo \in Seq(Files) /\ run.config # Bad
      /\ Half(run, disk) /\ (run.touched = {} => Judged(run, disk)) /\ disk' = disk
  BY DEF FormatRead, FInv, IInv, Formatting, Underway
<1>2. /\ f \in Chosen(run)
      /\ run.touched = {} => disk[f] = run.before[f] \/ (run.before[f] \in Texts /\ disk[f] = Redone(run, f))
  BY <1>1, HeadIsMine
<1>3. CASE disk[f] \in Texts
  <2>1. /\ run'.at = "write" /\ run'.source = disk[f] /\ run'.cmd = run.cmd /\ run'.config = run.config
        /\ run'.before = run.before /\ run'.todo = run.todo /\ run'.touched = run.touched
        /\ run'.changed = run.changed
    BY <1>3, ReadMoves DEF FInv
  <2>2. /\ Chosen(run') = Chosen(run) /\ (Several(run') <=> Several(run))
        /\ \A g : (Changes(run', g) <=> Changes(run, g)) /\ Redone(run', g) = Redone(run, g)
    BY <2>1, SameAsked
  <2>3. Mine(run') = Mine(run) /\ Done(run') = Done(run)
    BY <2>1, <2>2 DEF Mine, Done
  <2>4. Half(run', disk')
    BY <1>1, <1>3, <2>1, <2>2, <2>3 DEF Half
  <2>5. Judged(run, disk) => Judged(run', disk')
    <3>1. \A g : Target(run'.cmd, g, Changes(run', g)) = Target(run.cmd, g, Changes(run, g))
      BY <2>1, <2>2 DEF Target
    <3> QED BY <1>1, <2>1, <2>2, <2>3, <3>1 DEF Judged
  <2>6. history' = history
    BY <1>3 DEF FormatRead
  <2> QED BY <1>1, <2>1, <2>4, <2>5, <2>6 DEF FInv, Underway, Judgements
<1>4. CASE disk[f] \notin Texts
  <2>1. Exit(run, 2, <<>>, disk)
    BY <1>4 DEF FormatRead
  <2>2. run.touched = {} => run.before[f] \notin Texts
    BY <1>2, <1>4, FormattedIsTidy DEF Redone
  <2>3. Verdict(run, 2)
    BY <1>2, <2>2 DEF Verdict, Failing
  <2>4. Leaves(run, disk, 2)
    BY <1>1, HalfIsKept
  <2> QED BY <2>1, <2>3, <2>4, ExitJudged
<1> QED BY <1>3, <1>4

\* A write that fails is a reason to fail; another leaves the file at the head formatted.
LEMMA WriteJudged ==
  ASSUME FInv, FormatWrite
  PROVE  Underway' /\ Judgements'
<1> DEFINE f == Head(run.todo)
           formatted == Formatted(f, run.source, run.config)
<1>1. /\ run.at = "write" /\ run.todo # <<>> /\ run.todo \in Seq(Files) /\ run.config # Bad
      /\ DOMAIN disk = Files
      /\ Half(run, disk) /\ (run.touched = {} => Judged(run, disk))
  BY DEF FormatWrite, FInv, IInv, Formatting, Underway
<1>2. /\ f \in Files /\ f \in Chosen(run)
      /\ run.touched = {} =>
           \/ disk[f] = run.before[f]
           \/ /\ InPlace(run.cmd) /\ f \notin ReadOnly /\ run.before[f] \in Texts
              /\ disk[f] = Redone(run, f) /\ run.changed > 0
  BY <1>1, HeadIsMine
<1>3. /\ run.source \in Texts /\ (f \in Mine(run) => run.source = disk[f])
      /\ run.touched = {} => run.source = disk[f]
  BY <1>1 DEF Half, Judged
<1>4. HeadChanges <=> formatted # run.source
  BY DEF HeadChanges
<1>5. /\ \A g : Formatted(g, run.source, run.config) \in Texts
      /\ \A g : Formatted(g, Formatted(g, run.source, run.config), run.config) = Formatted(g, run.source, run.config)
      /\ \A g : run.before[g] \in Texts => Formatted(g, Redone(run, g), run.config) = Redone(run, g)
  BY <1>3, FormattedIsTidy DEF Redone
\* What the write changes is what the file asks for, but for one formatted already.
<1>6. run.touched = {} =>
        \/ run.source = run.before[f] /\ (HeadChanges <=> Changes(run, f))
        \/ /\ InPlace(run.cmd) /\ f \notin ReadOnly /\ run.before[f] \in Texts
           /\ ~HeadChanges /\ run.changed > 0
  BY <1>2, <1>3, <1>4, <1>5 DEF Changes
<1>7. /\ HeadTarget \in {None, f, run.cmd.output}
      /\ HeadTarget # run.cmd.output => HeadTarget = IF InPlace(run.cmd) /\ HeadChanges THEN f ELSE None
      /\ InPlace(run.cmd) => HeadTarget = IF HeadChanges THEN f ELSE None
  BY DEF HeadTarget, Target, InPlace
<1>8. run.touched = {} /\ Fails(Target(run.cmd, f, Changes(run, f))) => Fails(HeadTarget)
  <2>1. CASE HeadChanges <=> Changes(run, f)
    BY <2>1 DEF HeadTarget, Target
  <2>2. CASE InPlace(run.cmd) /\ f \notin ReadOnly
    BY <2>2 DEF Fails, Target, InPlace
  <2> QED BY <1>6, <2>1, <2>2
<1>9. run.touched = {} /\ Fails(HeadTarget) => Fails(Target(run.cmd, f, Changes(run, f)))
  <2>1. CASE HeadChanges <=> Changes(run, f)
    BY <2>1 DEF HeadTarget, Target
  <2>2. CASE InPlace(run.cmd) /\ f \notin ReadOnly
    BY <1>7, <2>2 DEF Fails
  <2> QED BY <1>6, <2>1, <2>2
<1>10. disk' = IF HeadTarget = None \/ HeadTarget \in ReadOnly THEN disk
               ELSE [disk EXCEPT ![HeadTarget] = formatted]
  BY DEF FormatWrite, HeadTarget, HeadChanges
<1>11. CASE Fails(HeadTarget)
  <2>1. Exit(run, 2, <<>>, disk)
    BY <1>11 DEF FormatWrite, HeadTarget, HeadChanges
  <2>2. Verdict(run, 2)
    BY <1>2, <1>9, <1>11 DEF Verdict, Failing
  <2>3. Leaves(run, disk, 2)
    BY <1>1, HalfIsKept
  <2> QED BY <2>1, <2>2, <2>3, ExitJudged
<1>12. CASE ~Fails(HeadTarget)
  <2>1. /\ run'.at = "read" /\ run'.cmd = run.cmd /\ run'.config = run.config
        /\ run'.before = run.before /\ run'.todo = Tail(run.todo) /\ run'.touched = run.touched
        /\ run'.changed = IF HeadChanges THEN run.changed + 1 ELSE run.changed
    BY <1>12, WriteMoves DEF FInv
  <2>2. /\ Chosen(run') = Chosen(run) /\ (Several(run') <=> Several(run))
        /\ \A g : (Changes(run', g) <=> Changes(run, g)) /\ Redone(run', g) = Redone(run, g)
    BY <2>1, SameAsked
  <2>3. ToSet(Tail(run.todo)) \subseteq ToSet(run.todo) /\ ToSet(run.todo) \subseteq {f} \cup ToSet(Tail(run.todo))
    BY <1>1, HeadAndTail
  <2>4. Mine(run') = Mine(run) /\ Done(run') \subseteq Done(run) \cup {f}
    BY <2>1, <2>2, <2>3 DEF Mine, Done
  <2>5. history' = history
    BY <1>12 DEF FormatWrite, HeadTarget, HeadChanges
  <2>6. \A g \in Mine(run) : HeadTarget = g => g = f /\ InPlace(run.cmd) /\ HeadChanges
    BY <1>2, <1>7, FormatAssumption DEF Mine
  <2>7. \A g \in Mine(run) :
          disk'[g] = IF g = f /\ InPlace(run.cmd) /\ HeadChanges THEN formatted ELSE disk[g]
    BY <1>1, <1>2, <1>7, <1>10, <1>12, <2>6, FormatAssumption DEF Fails, Mine
  <2>8. InPlace(run.cmd) /\ HeadChanges => f \notin ReadOnly
    BY <1>2, <1>7, <1>12, FormatAssumption DEF Fails
  <2>9. f \in Mine(run) =>
          /\ disk[f] = run.before[f] \/ (InPlace(run.cmd) /\ f \notin ReadOnly /\ run.before[f] \in Texts
                                         /\ disk[f] = Redone(run, f))
          /\ run.before[f] \in Texts /\ formatted = Redone(run, f)
    BY <1>1, <1>3, <1>5 DEF Half, Redone
  <2> HIDE DEF f, formatted
  <2>10. \A g \in Mine(run') :
           \/ disk'[g] = run'.before[g]
           \/ /\ InPlace(run'.cmd) /\ g \in Chosen(run') /\ g \notin ReadOnly
              /\ run'.before[g] \in Texts /\ disk'[g] = Redone(run', g)
    BY <1>1, <1>2, <2>1, <2>2, <2>4, <2>7, <2>8, <2>9 DEF Half
  <2>11. \A g \in Mine(run') \cap Done(run') :
           InPlace(run'.cmd) /\ run'.before[g] \in Texts => disk'[g] = Redone(run', g)
    <3> SUFFICES ASSUME NEW g \in Mine(run), g \in Done(run'), InPlace(run.cmd), run.before[g] \in Texts
                 PROVE  disk'[g] = Redone(run, g)
      BY <2>1, <2>2, <2>4
    <3>1. CASE g = f
      BY <1>3, <1>4, <2>7, <2>9, <3>1
    <3>2. CASE g # f
      BY <1>1, <2>4, <2>7, <3>2 DEF Half
    <3> QED BY <3>1, <3>2
  <2>12. Half(run', disk')
    BY <1>1, <2>1, <2>2, <2>3, <2>10, <2>11 DEF Half
  <2>13. ASSUME run.touched = {} PROVE Judged(run', disk')
    <3>1. Judged(run, disk)
      BY <1>1, <2>13
    <3>2. run.changed \in Nat /\ run'.changed \in Nat /\ (HeadChanges => run'.changed > 0)
          /\ (run.changed > 0 => run'.changed > 0)
      BY <2>1, <3>1 DEF Judged
    <3>3. run'.cmd.output \in Files =>
            Len(run'.todo) <= 1 /\ (run'.todo # <<>> => disk' = run'.before) /\ ~Several(run')
      <4> SUFFICES ASSUME run.cmd.output \in Files
                   PROVE  Len(Tail(run.todo)) <= 1 /\ Tail(run.todo) = <<>> /\ ~Several(run)
        BY <2>1, <2>2
      <4>1. Len(run.todo) <= 1 /\ ~Several(run)
        BY <3>1 DEF Judged
      <4> QED BY <1>1, <4>1, NoMoreThanOne
    <3>4. run'.changed > 0 => \E g \in Chosen(run') : Changes(run', g)
      <4>1. CASE HeadChanges
        BY <1>2, <1>6, <2>2, <2>13, <4>1
      <4>2. CASE ~HeadChanges
        BY <2>1, <2>2, <3>1, <4>2 DEF Judged
      <4> QED BY <4>1, <4>2
    <3>5. \A g \in Done(run') : /\ run'.before[g] \in Texts
                                /\ ~Fails(Target(run'.cmd, g, Changes(run', g)))
                                /\ Changes(run', g) => run'.changed > 0
      <4>1. \A g : Target(run'.cmd, g, Changes(run', g)) = Target(run.cmd, g, Changes(run, g))
        BY <2>1, <2>2 DEF Target
      <4> SUFFICES ASSUME NEW g \in Done(run')
                   PROVE  /\ run.before[g] \in Texts
                          /\ ~Fails(Target(run.cmd, g, Changes(run, g)))
                          /\ Changes(run, g) => run'.changed > 0
        BY <2>1, <2>2, <4>1
      <4>2. CASE g = f
        BY <1>3, <1>6, <1>8, <1>12, <2>13, <3>2, <4>2
      <4>3. CASE g # f
        BY <2>4, <3>1, <3>2, <4>3 DEF Judged
      <4> QED BY <4>2, <4>3
    <3>6. \A g \in Mine(run') : disk'[g] # run'.before[g] => run'.changed > 0
      BY <2>1, <2>4, <2>7, <3>1, <3>2 DEF Judged
    <3> QED BY <2>1, <3>2, <3>3, <3>4, <3>5, <3>6 DEF Judged
  <2>14. Underway'
    BY <2>1, <2>12, <2>13 DEF Underway
  <2> QED BY <2>5, <2>14 DEF FInv, Judgements
<1> QED BY <1>11, <1>12

\* A format that has nothing to do any more has no reason to fail.
LEMMA DoneJudged ==
  ASSUME FInv, FormatDone
  PROVE  Underway' /\ Judgements'
<1>1. /\ run.at = "read" /\ run.todo = <<>> /\ run.config # Bad
      /\ Half(run, disk) /\ (run.touched = {} => Judged(run, disk))
      /\ Exit(run, ExitCode(run.changed), <<>>, disk)
  BY DEF FormatDone, FInv, IInv, Formatting, Underway
<1>2. Done(run) = Chosen(run)
  BY <1>1 DEF Done, ToSet
<1>3. Verdict(run, ExitCode(run.changed))
  <2> SUFFICES ASSUME run.touched = {}
               PROVE  ExitCode(run.changed) = IF Failing(run) THEN 2
                        ELSE IF \E f \in Chosen(run) : Changes(run, f) THEN 1 ELSE 0
    BY DEF Verdict
  <2>1. Judged(run, disk)
    BY <1>1
  <2>2. ~Failing(run)
    BY <1>1, <1>2, <2>1 DEF Judged, Failing, Several
  <2>3. run.changed > 0 <=> \E f \in Chosen(run) : Changes(run, f)
    BY <1>2, <2>1 DEF Judged
  <2> QED BY <2>2, <2>3 DEF ExitCode
<1>4. Leaves(run, disk, ExitCode(run.changed))
  BY <1>1, <1>2 DEF Half, Leaves, ExitCode
<1> QED BY <1>1, <1>3, <1>4, ExitJudged

\* Each step has its lemma.
LEMMA FormatStepHolds == FInv /\ [Next]_vars => FInv'
<1> SUFFICES ASSUME FInv, [Next]_vars PROVE FInv'
  OBVIOUS
<1>1. IInv'
  BY StepHolds DEF FInv
<1>2. CASE Start
  BY <1>1, <1>2, StartCheckJudged, StartFormatJudged DEF Start, FInv
<1>3. CASE IndexFile \/ CollectFile \/ ReportFindings
  BY <1>1, <1>3, CheckJudged DEF FInv
<1>4. CASE FormatRead
  BY <1>1, <1>4, ReadJudged DEF FInv
<1>5. CASE FormatWrite
  BY <1>1, <1>5, WriteJudged DEF FInv
<1>6. CASE FormatDone
  BY <1>1, <1>6, DoneJudged DEF FInv
<1>7. CASE UserEdits
  BY <1>1, <1>7, EditJudged DEF FInv
<1>8. CASE UNCHANGED vars
  BY <1>1, <1>8 DEF FInv, Underway, Judgements, vars
<1> QED BY <1>2, <1>3, <1>4, <1>5, <1>6, <1>7, <1>8 DEF Next

\* The judgements of the history are what FormatOutcome says.
LEMMA OutcomeHolds == FInv => FormatOutcome
<1> SUFFICES ASSUME FInv, NEW r \in Runs, r.cmd.kind = "format"
             PROVE  Verdict(r, r.code) /\ Leaves(r, r.after, r.code)
  BY DEF FormatOutcome, Verdict, Leaves, Mine, Redone
<1>1. PICK S : history \in Seq(S)
  BY DEF FInv, IInv
<1>2. PICK i \in 1 .. Len(history) : r = history[i]
  BY <1>1 DEF Runs, ToSet
<1> QED BY <1>2 DEF FInv, Judgements, Judgement

\* A format that nobody disturbs fails exactly when its configuration, its list, a text or a target
\* gives it a reason to, and otherwise tells whether there is anything to change; disturbed or not, it
\* leaves each file it was not to write as it was and each other formatted, or, when it fails, as it
\* was (run_format in src/format/cli.rs).
THEOREM FormatsAsAsked == Spec => []FormatOutcome
<1>1. Init => FInv
  <2> SUFFICES ASSUME Init PROVE FInv
    OBVIOUS
  <2>1. run.at = "idle" /\ history = <<>>
    BY DEF Init, Idle
  <2> QED BY <2>1, InitHolds DEF FInv, Underway, Judgements
<1> QED BY <1>1, FormatStepHolds, OutcomeHolds, PTL DEF Spec

(***************************************************************************)
(* The report of a check: sorted, filtered and suppressed.                 *)
(***************************************************************************)
\* The findings of a set have a file, a line and a column to compare.
Placed(S) == \A d \in S : d.file \in Nat /\ d.line \in Nat /\ d.col \in Nat

\* The order of a report, compared part by part.
LEMMA BeforeMeans ==
  ASSUME NEW d, NEW e
  PROVE  Before(d, e) <=> \/ d.file < e.file
                          \/ d.file = e.file /\ d.line < e.line
                          \/ d.file = e.file /\ d.line = e.line /\ d.col < e.col
<1> DEFINE s == <<d.file, d.line, d.col>>
           t == <<e.file, e.line, e.col>>
<1>1. DOMAIN s = {1, 2, 3}
  OBVIOUS
<1>2. 1 .. (1 - 1) = {} /\ 1 .. (2 - 1) = {1} /\ 1 .. (3 - 1) = {1, 2}
  OBVIOUS
<1>3. Before(d, e) <=> \E i \in {1, 2, 3} : s[i] < t[i] /\ \A j \in 1 .. (i - 1) : s[j] = t[j]
  BY <1>1 DEF Before, Lexicographic
<1>4. /\ s[1] = d.file /\ s[2] = d.line /\ s[3] = d.col
      /\ t[1] = e.file /\ t[2] = e.line /\ t[3] = e.col
  OBVIOUS
<1> HIDE DEF s, t
<1>5. Before(d, e) <=> \/ s[1] < t[1]
                       \/ s[2] < t[2] /\ s[1] = t[1]
                       \/ s[3] < t[3] /\ s[1] = t[1] /\ s[2] = t[2]
  BY <1>2, <1>3
<1> QED BY <1>4, <1>5

\* Parts that are compared one after the other order what has them, but for equals.
LEMMA PartsOrder ==
  ASSUME NEW a \in Nat, NEW b \in Nat, NEW c \in Nat, NEW l \in Nat, NEW m \in Nat, NEW n \in Nat,
         NEW x \in Nat, NEW y \in Nat, NEW z \in Nat
  PROVE  LET ab == a < b \/ (a = b /\ (l < m \/ (l = m /\ x < y)))
             bc == b < c \/ (b = c /\ (m < n \/ (m = n /\ y < z)))
             ac == a < c \/ (a = c /\ (l < n \/ (l = n /\ x < z)))
             ba == b < a \/ (a = b /\ (m < l \/ (l = m /\ y < x)))
             cb == c < b \/ (b = c /\ (n < m \/ (m = n /\ z < y)))
             ca == c < a \/ (a = c /\ (n < l \/ (l = n /\ z < x)))
         IN  /\ ab /\ bc => ac
             /\ ab /\ ~cb => ac
             /\ ~ba /\ bc => ac
             /\ ~ba /\ ~cb => ~ca
OBVIOUS

LEMMA BeforeOrders ==
  ASSUME NEW d, NEW e, NEW h, Placed({d, e, h})
  PROVE  /\ Before(d, e) /\ Before(e, h) => Before(d, h)
         /\ Before(d, e) /\ ~Before(h, e) => Before(d, h)
         /\ ~Before(e, d) /\ Before(e, h) => Before(d, h)
         /\ ~Before(e, d) /\ ~Before(h, e) => ~Before(h, d)
BY BeforeMeans, PartsOrder DEF Placed

ComesIn(diags) == {p \in (DOMAIN diags) \X (DOMAIN diags) : Comes(diags, p[1], p[2])}

\* The sort is one: each finding comes out at its place, and nothing else does.
LEMMA SortedPlaces ==
  ASSUME NEW S, Placed(S), NEW diags \in Seq(S)
  PROVE  /\ Orders(ComesIn(diags), Len(diags))
         /\ Sorted(diags) \in Seq(S) /\ Len(Sorted(diags)) = Len(diags)
         /\ \A j \in 1 .. Len(diags) : Sorted(diags)[PlaceIn(ComesIn(diags), Len(diags), j)] = diags[j]
         /\ ToSet(Sorted(diags)) = ToSet(diags)
<1> DEFINE R == ComesIn(diags)
           place == [j \in DOMAIN diags |-> Cardinality({i \in DOMAIN diags : Comes(diags, i, j)}) + 1]
           At(k) == CHOOSE j \in DOMAIN diags : place[j] = k
<1>1. PICK n \in Nat : n = Len(diags) /\ DOMAIN diags = 1 .. n
  BY LenProperties
<1>2. \A i \in 1 .. n : diags[i].file \in Nat /\ diags[i].line \in Nat /\ diags[i].col \in Nat
  BY <1>1, ElementType DEF Placed
<1>3. \A i, j \in 1 .. n : <<i, j>> \in R <=> Comes(diags, i, j)
  BY <1>1 DEF ComesIn
<1>4. Orders(R, n)
  <2>1. ASSUME NEW i \in 1 .. n PROVE <<i, i>> \notin R
    BY <1>2, <1>3, BeforeMeans DEF Comes
  <2>2. ASSUME NEW i \in 1 .. n, NEW j \in 1 .. n, i # j PROVE <<i, j>> \in R \/ <<j, i>> \in R
    BY <1>3, <2>2 DEF Comes
  <2>3. ASSUME NEW i \in 1 .. n, NEW j \in 1 .. n, NEW k \in 1 .. n, <<i, j>> \in R, <<j, k>> \in R
        PROVE  <<i, k>> \in R
    <3> DEFINE B(a, b) == Before(diags[a], diags[b])
    <3>1. Comes(diags, i, j) /\ Comes(diags, j, k)
      BY <1>3, <2>3
    <3>2. /\ B(i, j) /\ B(j, k) => B(i, k)
          /\ B(i, j) /\ ~B(k, j) => B(i, k)
          /\ ~B(j, i) /\ B(j, k) => B(i, k)
          /\ ~B(j, i) /\ ~B(k, j) => ~B(k, i)
      BY <1>2, BeforeOrders DEF Placed
    <3> HIDE DEF B
    <3>3. (B(i, j) \/ (i < j /\ ~B(j, i))) /\ (B(j, k) \/ (j < k /\ ~B(k, j)))
      BY <3>1 DEF Comes, B
    <3>4. i < j /\ j < k => i < k
      OBVIOUS
    <3>5. B(i, k) \/ (i < k /\ ~B(k, i))
      BY <3>2, <3>3, <3>4
    <3> QED BY <1>3, <3>5 DEF Comes, B
  <2> QED BY <2>1, <2>2, <2>3 DEF Orders
<1>5. \A j \in 1 .. n : place[j] = PlaceIn(R, n, j)
  <2> SUFFICES ASSUME NEW j \in 1 .. n
               PROVE  {i \in DOMAIN diags : Comes(diags, i, j)} = Preceding(R, n, j)
    BY <1>1 DEF PlaceIn
  <2> QED BY <1>1, <1>3 DEF Preceding
<1>6. Sorted(diags) = [k \in DOMAIN diags |-> diags[At(k)]]
  BY Zenon DEF Sorted
<1> HIDE DEF At
<1> HIDE DEF R, place
<1>7. /\ \A j \in 1 .. n : place[j] \in 1 .. n
      /\ \A i, j \in 1 .. n : place[i] = place[j] => i = j
      /\ \A k \in 1 .. n : \E j \in 1 .. n : place[j] = k
  <2>1. /\ \A j \in 1 .. n : PlaceIn(R, n, j) \in 1 .. n
        /\ \A i, j \in 1 .. n : PlaceIn(R, n, i) = PlaceIn(R, n, j) => i = j
        /\ \A k \in 1 .. n : \E j \in 1 .. n : PlaceIn(R, n, j) = k
    BY <1>4, PlacesAreTaken, Zenon
  <2>2. \A j \in 1 .. n : place[j] \in 1 .. n
    BY <1>5, <2>1
  <2>3. \A i, j \in 1 .. n : place[i] = place[j] => i = j
    BY <1>5, <2>1
  <2>4. ASSUME NEW k \in 1 .. n PROVE \E j \in 1 .. n : place[j] = k
    <3>1. PICK j \in 1 .. n : PlaceIn(R, n, j) = k
      BY <2>1
    <3> QED BY <1>5, <3>1
  <2> QED BY <2>2, <2>3, <2>4
<1>8. \A j \in 1 .. n : Sorted(diags)[place[j]] = diags[j]
  <2> SUFFICES ASSUME NEW j \in 1 .. n PROVE At(place[j]) = j
    BY <1>1, <1>6, <1>7
  <2>1. At(place[j]) \in 1 .. n /\ place[At(place[j])] = place[j]
    BY <1>1 DEF At
  <2> QED BY <1>7, <2>1
<1>9. \A k \in 1 .. n : Sorted(diags)[k] \in S
  <2> SUFFICES ASSUME NEW k \in 1 .. n PROVE Sorted(diags)[k] \in S
    OBVIOUS
  <2>1. PICK j \in 1 .. n : place[j] = k
    BY <1>7
  <2>2. diags[j] \in S
    BY <1>1, ElementType
  <2> QED BY <1>8, <2>1, <2>2
<1>10. Sorted(diags) \in Seq(S) /\ Len(Sorted(diags)) = n /\ DOMAIN Sorted(diags) = 1 .. n
  <2>1. Sorted(diags) \in [1 .. n -> S]
    BY <1>1, <1>6, <1>9
  <2> HIDE DEF Sorted
  <2> QED BY <2>1
<1>11. ToSet(Sorted(diags)) = ToSet(diags)
  <2>1. ASSUME NEW j \in 1 .. n PROVE \E k \in 1 .. n : Sorted(diags)[k] = diags[j]
    BY <1>7, <1>8
  <2>2. ASSUME NEW k \in 1 .. n PROVE \E j \in 1 .. n : Sorted(diags)[k] = diags[j]
    <3>1. PICK j \in 1 .. n : place[j] = k
      BY <1>7
    <3> QED BY <1>8, <3>1
  <2>3. /\ ToSet(diags) = {diags[j] : j \in 1 .. n}
        /\ ToSet(Sorted(diags)) = {Sorted(diags)[j] : j \in 1 .. n}
    BY <1>1, <1>10 DEF ToSet
  <2> HIDE DEF Sorted
  <2> QED BY <2>1, <2>2, <2>3
<1> QED BY <1>1, <1>4, <1>5, <1>8, <1>10, <1>11 DEF R

\* Findings that come in the same order are sorted alike, in whatever order they were collected.
LEMMA SortedAlike ==
  ASSUME NEW S, Placed(S), NEW diags \in Seq(S), NEW others \in Seq(S), Len(others) = Len(diags),
         NEW p \in Bijection(1 .. Len(diags), 1 .. Len(diags)),
         \A i \in 1 .. Len(diags) : others[p[i]] = diags[i],
         \A i, j \in 1 .. Len(diags) : Comes(others, p[i], p[j]) <=> Comes(diags, i, j)
  PROVE  Sorted(others) = Sorted(diags)
<1>1. PICK n \in Nat : n = Len(diags) /\ DOMAIN diags = 1 .. n /\ DOMAIN others = 1 .. n
  BY LenProperties
<1>2. p \in [1 .. n -> 1 .. n]
  BY <1>1 DEF Bijection, Injection
<1>3. \A i, j \in 1 .. n : <<p[i], p[j]>> \in ComesIn(others) <=> <<i, j>> \in ComesIn(diags)
  BY <1>1, <1>2 DEF ComesIn
<1>4. \A j \in 1 .. n : PlaceIn(ComesIn(others), n, p[j]) = PlaceIn(ComesIn(diags), n, j)
  <2>1. p \in Bijection(1 .. n, 1 .. n)
    BY <1>1
  <2> QED BY <1>3, <2>1, PlacesAgree, ZenonT(40)
<1>5. /\ Sorted(diags) \in Seq(S) /\ Len(Sorted(diags)) = n
      /\ Sorted(others) \in Seq(S) /\ Len(Sorted(others)) = n
      /\ \A j \in 1 .. n : Sorted(diags)[PlaceIn(ComesIn(diags), n, j)] = diags[j]
      /\ \A j \in 1 .. n : Sorted(others)[PlaceIn(ComesIn(others), n, j)] = others[j]
      /\ Orders(ComesIn(diags), n)
  BY <1>1, SortedPlaces
<1>6. ASSUME NEW k \in 1 .. n PROVE Sorted(others)[k] = Sorted(diags)[k]
  <2>1. PICK j \in 1 .. n : PlaceIn(ComesIn(diags), n, j) = k
    BY <1>5, PlacesAreTaken
  <2> QED BY <1>1, <1>2, <1>4, <1>5, <2>1
<1>7. Sorted(diags) = [k \in 1 .. n |-> Sorted(diags)[k]] /\ Sorted(others) = [k \in 1 .. n |-> Sorted(others)[k]]
  BY <1>5
<1> QED BY <1>6, <1>7

(***************************************************************************)
(* Which tag a line is in.                                                 *)
(***************************************************************************)
\* The delimiters of the lines above l, each with its line.
Delimiters(lines, l) == [i \in 1 .. (l - 1) |-> [j \in DOMAIN lines[i].tags |-> <<i, lines[i].tags[j]>>]]

LEMMA DelimitersType ==
  ASSUME NEW lines \in Seq(TextLine), NEW l \in Nat, l - 1 <= Len(lines)
  PROVE  /\ \A i \in 1 .. (l - 1) :
              /\ lines[i].tags \in Seq({"open", "close"})
              /\ Delimiters(lines, l)[i] \in Seq(Nat \X {"open", "close"})
              /\ Len(Delimiters(lines, l)[i]) = Len(lines[i].tags)
              /\ lines[i].tags # <<>> => Last(Delimiters(lines, l)[i]) = <<i, Last(lines[i].tags)>>
         /\ Delimiters(lines, l) \in Seq(Seq(Nat \X {"open", "close"}))
         /\ DOMAIN Delimiters(lines, l) = 1 .. (l - 1)
<1>1. ASSUME NEW i \in 1 .. (l - 1)
      PROVE  /\ lines[i].tags \in Seq({"open", "close"})
             /\ Delimiters(lines, l)[i] \in Seq(Nat \X {"open", "close"})
             /\ Len(Delimiters(lines, l)[i]) = Len(lines[i].tags)
             /\ lines[i].tags # <<>> => Last(Delimiters(lines, l)[i]) = <<i, Last(lines[i].tags)>>
  <2>1. Len(lines) \in Nat /\ i \in DOMAIN lines
    BY LenProperties
  <2>2. lines[i] \in TextLine
    BY <2>1, ElementType
  <2>3. lines[i].tags \in Seq({"open", "close"})
    BY <2>2 DEF TextLine
  <2>4. PICK tags : tags = lines[i].tags /\ tags \in Seq({"open", "close"})
    BY <2>3
  <2>a. PICK n \in Nat : n = Len(tags) /\ DOMAIN tags = 1 .. n
    BY <2>4, LenProperties
  <2> DEFINE d == [j \in 1 .. n |-> <<i, tags[j]>>]
  <2>5. Delimiters(lines, l)[i] = d
    BY <2>4, <2>a DEF Delimiters
  <2>6. \A j \in 1 .. n : d[j] \in Nat \X {"open", "close"} /\ d[j] = <<i, tags[j]>>
    BY <2>4, <2>a, ElementType
  <2>7. d \in [1 .. n -> Nat \X {"open", "close"}]
    BY <2>6
  <2> HIDE DEF d
  <2>8. d \in Seq(Nat \X {"open", "close"}) /\ Len(d) = n
    BY <2>7
  <2>9. tags # <<>> => n \in 1 .. n
    BY <2>4, <2>a, EmptySeq
  <2> QED BY <2>3, <2>4, <2>a, <2>5, <2>6, <2>8, <2>9 DEF Last
<1>2. DOMAIN Delimiters(lines, l) = 1 .. (l - 1)
  BY DEF Delimiters
<1>3. Delimiters(lines, l) \in Seq(Seq(Nat \X {"open", "close"}))
  <2>1. PICK m \in Nat : 1 .. (l - 1) = 1 .. m
    <3>1. CASE l = 0
      BY <3>1
    <3>2. CASE l # 0
      BY <3>2
    <3> QED BY <3>1, <3>2
  <2>2. Delimiters(lines, l) = [i \in 1 .. m |-> Delimiters(lines, l)[i]]
    BY <2>1 DEF Delimiters
  <2>3. Delimiters(lines, l) \in [1 .. m -> Seq(Nat \X {"open", "close"})]
    BY <1>1, <2>1, <2>2
  <2> QED BY <2>3
<1> QED BY <1>1, <1>2, <1>3

\* A tag is open at l if the last line above that has delimiters leaves it open.
LEMMA TagOpenMeans ==
  ASSUME NEW lines \in Seq(TextLine), NEW l \in Nat, l - 1 <= Len(lines)
  PROVE  /\ (\A i \in 1 .. (l - 1) : lines[i].tags = <<>>) => TagOpenAt(lines, l) = 0
         /\ \A k \in 1 .. (l - 1) :
              lines[k].tags # <<>> /\ (\A i \in 1 .. (l - 1) : i > k => lines[i].tags = <<>>) =>
                TagOpenAt(lines, l) = IF Last(lines[k].tags) = "open" THEN k ELSE 0
<1> DEFINE d == Delimiters(lines, l)
           flat == FlattenSeq(d)
<1>1. TagOpenAt(lines, l) = IF flat # <<>> /\ Last(flat)[2] = "open" THEN Last(flat)[1] ELSE 0
  BY DEF TagOpenAt, Delimiters
<1>2. d \in Seq(Seq(Nat \X {"open", "close"})) /\ DOMAIN d = 1 .. (l - 1)
  BY DelimitersType
<1>3. \A i \in 1 .. (l - 1) : lines[i].tags = <<>> <=> d[i] = <<>>
  BY DelimitersType, EmptySeq
<1>4. \A i \in 1 .. (l - 1) : lines[i].tags # <<>> => Last(d[i]) = <<i, Last(lines[i].tags)>>
  BY DelimitersType
<1> HIDE DEF d
<1>5. /\ (\A i \in DOMAIN d : d[i] = <<>>) => flat = <<>>
      /\ \A k \in DOMAIN d : d[k] # <<>> /\ (\A i \in DOMAIN d : i > k => d[i] = <<>>) =>
           flat # <<>> /\ Last(flat) = Last(d[k])
  BY <1>2, FlattenSeqLast
<1> HIDE DEF flat
<1>6. ASSUME \A i \in 1 .. (l - 1) : lines[i].tags = <<>> PROVE TagOpenAt(lines, l) = 0
  BY <1>1, <1>2, <1>3, <1>5, <1>6
<1>7. ASSUME NEW k \in 1 .. (l - 1), lines[k].tags # <<>>, \A i \in 1 .. (l - 1) : i > k => lines[i].tags = <<>>
      PROVE  TagOpenAt(lines, l) = IF Last(lines[k].tags) = "open" THEN k ELSE 0
  <2>1. flat # <<>> /\ Last(flat) = <<k, Last(lines[k].tags)>>
    BY <1>2, <1>3, <1>4, <1>5, <1>7
  <2> QED BY <1>1, <2>1
<1> QED BY <1>6, <1>7

\* What the delimiters of a line say of it.
LEMMA LineTags ==
  ASSUME NEW line, line.tags \in Seq({"open", "close"})
  PROVE  /\ line.tags = <<>> => ~Has(line, "open") /\ ~Has(line, "close")
         /\ line.tags # <<>> => \/ Last(line.tags) = "open" /\ LeavesOpen(line)
                                \/ /\ Last(line.tags) = "close" /\ ~LeavesOpen(line)
                                   /\ OnlyCloses(line) \/ Has(line, "open")
<1>1. PICK tags : tags = line.tags /\ tags \in Seq({"open", "close"})
  OBVIOUS
<1>2. PICK n \in Nat : n = Len(tags) /\ DOMAIN tags = 1 .. n
  BY <1>1, LenProperties
<1>3. CASE tags = <<>>
  <2>1. ToSet(tags) = {}
    BY <1>3 DEF ToSet
  <2> QED BY <1>1, <1>3, <2>1 DEF Has
<1>4. CASE tags # <<>>
  <2>1. n \in 1 .. n /\ Last(tags) = tags[n]
    BY <1>1, <1>2, <1>4, EmptySeq DEF Last
  <2>2. Last(tags) \in {"open", "close"} /\ Last(tags) \in ToSet(tags)
    BY <1>1, <1>2, <2>1 DEF ToSet
  <2> QED BY <1>1, <1>4, <2>2 DEF Has, LeavesOpen, OnlyCloses
<1> QED BY <1>3, <1>4

\* Of the indices with a property there is a last one.
LEMMA LastIndex ==
  ASSUME NEW n \in Int, NEW S, \E i \in 1 .. n : i \in S
  PROVE  \E k \in 1 .. n : k \in S /\ \A i \in 1 .. n : i > k => i \notin S
<1> DEFINE N == {m \in Nat : (\E i \in 1 .. n : i \in S /\ i <= m) =>
                       \E k \in 1 .. n : k \in S /\ \A i \in 1 .. n : i > k /\ i <= m => i \notin S}
<1>1. 0 \in N
  OBVIOUS
<1>2. ASSUME NEW m \in Nat, m \in N PROVE m + 1 \in N
  <2>1. CASE m + 1 \in 1 .. n /\ m + 1 \in S
    BY <2>1
  <2>2. CASE ~(m + 1 \in 1 .. n /\ m + 1 \in S)
    <3>1. \A i \in 1 .. n : i \in S /\ i <= m + 1 => i <= m
      BY <2>2
    <3> SUFFICES ASSUME \E i \in 1 .. n : i \in S /\ i <= m + 1
                 PROVE  \E k \in 1 .. n : k \in S /\ \A i \in 1 .. n : i > k /\ i <= m + 1 => i \notin S
      OBVIOUS
    <3>2. PICK k \in 1 .. n : k \in S /\ \A i \in 1 .. n : i > k /\ i <= m => i \notin S
      BY <1>2, <3>1
    <3> QED BY <3>1, <3>2
  <2> QED BY <2>1, <2>2
<1>3. n \in Nat
  OBVIOUS
<1> HIDE DEF N
<1>4. n \in N
  BY <1>1, <1>2, <1>3, Induction
<1> QED BY <1>3, <1>4 DEF N

\* The search backwards finds the tag that is open, if the tags settle.
LEMMA EnclosingIsOpen ==
  ASSUME NEW lines \in Seq(TextLine), TagsSettle(lines), NEW n \in Nat, n <= Len(lines) + 1
  PROVE  EnclosingTagOpenLines(lines, n) = {TagOpenAt(lines, n)} \ {0}
<1> DEFINE Right(l) == EnclosingTagOpenLines(lines, l) = {TagOpenAt(lines, l)} \ {0}
           N == {m \in Nat : \A l \in 0 .. m : l <= Len(lines) + 1 => Right(l)}
<1>1. Len(lines) \in Nat /\ DOMAIN lines = 1 .. Len(lines)
  BY LenProperties
<1>2. ASSUME NEW l \in Nat, l <= Len(lines) + 1, \A k \in Nat : k < l => Right(k)
      PROVE  Right(l)
  <2>1. l - 1 <= Len(lines) /\ \A i \in 1 .. (l - 1) : i \in DOMAIN lines /\ i \in Nat /\ i < l
    BY <1>1, <1>2
  <2>2. \A i \in 1 .. (l - 1) : lines[i].tags \in Seq({"open", "close"})
    <3> SUFFICES ASSUME NEW i \in 1 .. (l - 1) PROVE lines[i].tags \in Seq({"open", "close"})
      OBVIOUS
    <3>1. lines[i] \in TextLine
      BY <2>1, ElementType
    <3> QED BY <3>1 DEF TextLine
  <2>3. \A i \in 1 .. (l - 1) : lines[i].tags = <<>> => ~LeavesOpen(lines[i]) /\ ~OnlyCloses(lines[i])
    BY <2>2, LineTags DEF LeavesOpen, OnlyCloses
  <2>4. CASE \A i \in 1 .. (l - 1) : lines[i].tags = <<>>
    <3>1. TagOpenAt(lines, l) = 0
      BY <2>1, <2>4, TagOpenMeans
    <3>2. EnclosingTagOpenLines(lines, l) = {}
      BY <2>3, <2>4 DEF EnclosingTagOpenLines
    <3> QED BY <3>1, <3>2
  <2>5. CASE \E i \in 1 .. (l - 1) : lines[i].tags # <<>>
    <3>1. PICK k \in 1 .. (l - 1) : lines[k].tags # <<>> /\ \A i \in 1 .. (l - 1) : i > k => lines[i].tags = <<>>
      <4> DEFINE T == {i \in 1 .. (l - 1) : lines[i].tags # <<>>}
      <4>1. \E i \in 1 .. (l - 1) : i \in T
        BY <2>5
      <4> HIDE DEF T
      <4>2. \E k \in 1 .. (l - 1) : k \in T /\ \A i \in 1 .. (l - 1) : i > k => i \notin T
        <5>1. l - 1 \in Int
          OBVIOUS
        <5> QED BY <4>1, <5>1, LastIndex, Zenon
      <4> QED BY <4>2 DEF T
    <3>2. TagOpenAt(lines, l) = IF Last(lines[k].tags) = "open" THEN k ELSE 0
      BY <2>1, <3>1, TagOpenMeans
    <3>3. \A j \in (k + 1) .. (l - 1) : j \in 1 .. (l - 1) /\ j > k /\ ~LeavesOpen(lines[j]) /\ ~OnlyCloses(lines[j])
      BY <2>3, <3>1
    <3>4. CASE Last(lines[k].tags) = "open"
      <4>1. LeavesOpen(lines[k])
        BY <2>2, <3>1, <3>4, LineTags
      <4>2. k \in EnclosingTagOpenLines(lines, l)
        BY <3>3, <4>1 DEF EnclosingTagOpenLines
      <4>3. ASSUME NEW j \in EnclosingTagOpenLines(lines, l) PROVE j = k
        <5>1. /\ j \in 1 .. (l - 1) /\ LeavesOpen(lines[j])
              /\ \A i \in (j + 1) .. (l - 1) : ~LeavesOpen(lines[i])
          BY <4>3 DEF EnclosingTagOpenLines
        <5>2. ~(j > k)
          BY <2>3, <3>1, <5>1
        <5>3. ~(j < k)
          BY <4>1, <5>1
        <5> QED BY <5>1, <5>2, <5>3
      <4>4. k # 0
        OBVIOUS
      <4> QED BY <3>2, <3>4, <4>2, <4>3, <4>4
    <3>5. CASE Last(lines[k].tags) # "open"
      <4>1. Last(lines[k].tags) = "close" /\ ~LeavesOpen(lines[k]) /\ (OnlyCloses(lines[k]) \/ Has(lines[k], "open"))
        BY <2>2, <3>1, <3>5, LineTags
      <4>2. EnclosingTagOpenLines(lines, l) = {}
        <5> SUFFICES ASSUME NEW j \in EnclosingTagOpenLines(lines, l) PROVE FALSE
          OBVIOUS
        <5>1. /\ j \in 1 .. (l - 1) /\ LeavesOpen(lines[j])
              /\ \A i \in (j + 1) .. (l - 1) : ~LeavesOpen(lines[i]) /\ ~OnlyCloses(lines[i])
          BY DEF EnclosingTagOpenLines
        <5>2. j < k
          BY <2>3, <3>1, <4>1, <5>1
        <5>3. Has(lines[k], "open")
          BY <4>1, <5>1, <5>2
        <5>4. TagOpenAt(lines, k) = 0 /\ Right(k)
          BY <1>2, <2>1, <4>1, <5>3 DEF TagsSettle
        <5>5. j \in EnclosingTagOpenLines(lines, k)
          BY <5>1, <5>2 DEF EnclosingTagOpenLines
        <5> QED BY <5>4, <5>5
      <4> QED BY <3>2, <3>5, <4>2
    <3> QED BY <3>4, <3>5
  <2> QED BY <2>4, <2>5
<1> HIDE DEF Right
<1>3. 0 \in N
  BY <1>2
<1>4. ASSUME NEW m \in Nat, m \in N PROVE m + 1 \in N
  <2>1. \A k \in Nat : k < m + 1 /\ k <= Len(lines) + 1 => Right(k)
    BY <1>4
  <2>2. m + 1 <= Len(lines) + 1 => \A k \in Nat : k < m + 1 => k <= Len(lines) + 1
    BY <1>1
  <2>3. m + 1 <= Len(lines) + 1 => Right(m + 1)
    BY <1>2, <2>1, <2>2
  <2>4. \A l \in 0 .. m + 1 : l = m + 1 \/ (l \in Nat /\ l < m + 1)
    OBVIOUS
  <2> QED BY <2>1, <2>3, <2>4
<1> HIDE DEF N
<1>5. n \in N
  BY <1>3, <1>4, Induction
<1> QED BY <1>5 DEF N, Right

(***************************************************************************)
(* Which findings are shown.                                               *)
(***************************************************************************)
\* A finding that no noqa suppresses, as the code looks for one and as F01 says.
Unsuppressed(d, lines) == ~SuppressedInFile(d, lines) /\ ~SuppressedOnLine(d, lines)

Heard(d, lines) ==
  \A directive \in Directives(lines) :
    directive.file \/ directive.line \in {d.line, TagOpenAt(lines, d.line)} => ~Covers(directive, d.code)

LEMMA HeardIsUnsuppressed ==
  ASSUME NEW lines \in Seq(TextLine), TagsSettle(lines), NEW d, d.line \in Nat \ {0},
         SuppressedInFile(d, lines) \/ ~(d.line > Len(lines) + 1)
  PROVE  Unsuppressed(d, lines) <=> Heard(d, lines)
<1>1. CASE SuppressedInFile(d, lines)
  BY <1>1 DEF SuppressedInFile, Unsuppressed, Heard
<1>2. CASE ~SuppressedInFile(d, lines)
  <2>1. PICK n \in Nat : n = Len(lines) /\ DOMAIN lines = 1 .. n
    BY LenProperties
  <2>2. EnclosingTagOpenLines(lines, d.line) = {TagOpenAt(lines, d.line)} \ {0}
    BY <1>2, <2>1, EnclosingIsOpen
  <2>3. \A directive \in Directives(lines) : directive.line # 0
    <3> SUFFICES ASSUME NEW i \in DOMAIN lines, NEW c PROVE Directive(i, c).line # 0
      BY DEF Directives
    <3> QED BY <2>1 DEF Directive
  <2>4. \A directive \in Directives(lines) :
          directive.line \in {d.line} \cup EnclosingTagOpenLines(lines, d.line)
            <=> directive.line \in {d.line, TagOpenAt(lines, d.line)}
    BY <2>2, <2>3
  <2> HIDE DEF Directives
  <2> QED BY <1>2, <2>4 DEF SuppressedInFile, SuppressedOnLine, Unsuppressed, Heard
<1> QED BY <1>1, <1>2

\* What select and ignore leave.
Selected(d, select, ignore) ==
  /\ IF select = {} THEN d.code # W106 ELSE Matched(d.code, select)
  /\ ~Matched(d.code, ignore)

LEMMA FilterLeaves ==
  ASSUME NEW T, NEW diags \in Seq(T), NEW select, NEW ignore
  PROVE  /\ FilterByConfig(diags, select, ignore) \in Seq(T)
         /\ ToSet(FilterByConfig(diags, select, ignore)) = {d \in ToSet(diags) : Selected(d, select, ignore)}
<1> DEFINE S == {d \in ToSet(diags) : /\ ~(d.code = W106 /\ select = {})
                                      /\ ~Matched(d.code, ignore)
                                      /\ select # {} => Matched(d.code, select)}
<1>1. FilterByConfig(diags, select, ignore) = Keep(diags, S)
  BY DEF FilterByConfig
<1>2. S = {d \in ToSet(diags) : Selected(d, select, ignore)}
  <2>1. \A d : Selected(d, select, ignore) <=> /\ ~(d.code = W106 /\ select = {})
                                               /\ ~Matched(d.code, ignore)
                                               /\ select # {} => Matched(d.code, select)
    BY DEF Selected
  <2> QED BY <2>1
<1> HIDE DEF S
<1>3. Keep(diags, S) \in Seq(T) /\ ToSet(Keep(diags, S)) = ToSet(diags) \cap S
  BY KeepElements
<1> QED BY <1>1, <1>2, <1>3

LEMMA SuppressLeaves ==
  ASSUME NEW T, NEW diags \in Seq(T), NEW lines
  PROVE  /\ SuppressByNoqa(diags, lines) \in Seq(T)
         /\ ToSet(SuppressByNoqa(diags, lines)) = {d \in ToSet(diags) : Unsuppressed(d, lines)}
<1> DEFINE S == {d \in ToSet(diags) : Unsuppressed(d, lines)}
<1>1. SuppressByNoqa(diags, lines) = Keep(diags, S)
  BY DEF SuppressByNoqa, Unsuppressed
<1> HIDE DEF S
<1>2. Keep(diags, S) \in Seq(T) /\ ToSet(Keep(diags, S)) = ToSet(diags) \cap S
  BY KeepElements
<1> QED BY <1>1, <1>2 DEF S

\* Filtered and suppressed, a list is left with what is to be shown of it.
LEMMA ShownIsLeft ==
  ASSUME NEW T, NEW diags \in Seq(T), \A d \in T : d.line \in Nat \ {0}, NEW select, NEW ignore,
         NEW lines \in Seq(TextLine), TagsSettle(lines),
         ~ReadsNoLine(FilterByConfig(diags, select, ignore), lines)
  PROVE  ToSet(SuppressByNoqa(FilterByConfig(diags, select, ignore), lines))
           = {d \in ToSet(diags) : Shown(d, select, ignore, lines)}
<1> DEFINE left == FilterByConfig(diags, select, ignore)
<1>1. left \in Seq(T) /\ ToSet(left) = {d \in ToSet(diags) : Selected(d, select, ignore)}
  BY FilterLeaves
<1>2. ToSet(SuppressByNoqa(left, lines)) = {d \in ToSet(left) : Unsuppressed(d, lines)}
  <2> HIDE DEF left
  <2> QED BY <1>1, SuppressLeaves
<1> HIDE DEF left
<1>3. ASSUME NEW d \in ToSet(left) PROVE Unsuppressed(d, lines) <=> Heard(d, lines)
  <2>1. PICK i \in DOMAIN left : d = left[i]
    BY DEF ToSet
  <2>2. d.line \in Nat \ {0}
    BY <1>1, <2>1, ElementType
  <2>3. SuppressedInFile(d, lines) \/ ~(d.line > Len(lines) + 1)
    BY <2>1 DEF ReadsNoLine, left
  <2> QED BY <2>2, <2>3, HeardIsUnsuppressed
<1>4. \A d : Shown(d, select, ignore, lines) <=> Selected(d, select, ignore) /\ Heard(d, lines)
  BY DEF Shown, Selected, Heard
<1> QED BY <1>1, <1>2, <1>3, <1>4 DEF left

\* Without directives it is left with what is selected.
LEMMA NothingIsSuppressed ==
  ASSUME NEW d, NEW select, NEW ignore
  PROVE  Shown(d, select, ignore, <<>>) <=> Selected(d, select, ignore)
<1>1. Directives(<<>>) = {}
  BY DEF Directives
<1> QED BY <1>1 DEF Shown, Selected

(***************************************************************************)
(* What a check lists and by which names.                                  *)
(***************************************************************************)
Rooted(r) == Roots(r.cmd, r.config) \in Seq(Files \cup Dirs)

List(r) == DiscoverTemplates(Present(r.before), Roots(r.cmd, r.config), r.config)
KeyOf(r, f) == RelativeKey(f, Roots(r.cmd, r.config))
Keys(r) == {KeyOf(r, f) : f \in ToSet(List(r))}

\* Where a name is first met in the list, and the file that is meant by it.
FirstAt(r, k) == Min({i \in DOMAIN List(r) : KeyOf(r, List(r)[i]) = k})
FirstOf(r, k) == List(r)[FirstAt(r, k)]

\* The list has the files in the order of the roots they lie below, each for each root.
LEMMA ListFollowsRoots ==
  ASSUME NEW r, Rooted(r)
  PROVE  /\ List(r) \in Seq(Files)
         /\ \E row \in [1 .. Len(List(r)) -> Nat] :
              /\ \A k \in 1 .. Len(List(r)) : List(r)[k] \in Discovered(r) /\ row[k] \in Below(r, List(r)[k])
              /\ \A f \in Discovered(r) : \A i \in Below(r, f) :
                   \E k \in 1 .. Len(List(r)) : List(r)[k] = f /\ row[k] = i
              /\ \A k, l \in 1 .. Len(List(r)) : k < l => row[k] <= row[l]
<1> DEFINE roots == Roots(r.cmd, r.config)
           present == Present(r.before)
           parts == [i \in DOMAIN roots |-> Walk(present, roots[i], r.config)]
<1>1. roots \in Seq(Files \cup Dirs) /\ present \in SUBSET Files
  BY DEF Rooted, Present
<1>2. PICK n \in Nat : n = Len(roots) /\ DOMAIN roots = 1 .. n
  BY <1>1, LenProperties
<1>3. List(r) = FlattenSeq(parts)
  BY DEF List, DiscoverTemplates
<1>4. ASSUME NEW i \in DOMAIN roots
      PROVE  /\ parts[i] \in Seq(Files)
             /\ ToSet(parts[i]) = {f \in Discovered(r) : i \in Below(r, f)}
  <2>1. roots[i] \in Files \cup Dirs
    BY <1>1, ElementType
  <2> HIDE DEF roots, present
  <2>2. parts[i] \in Seq(Files)
    BY <1>1, WalkElements
  <2>3. \A f : f \in Discovered(r) /\ i \in Below(r, f)
                 <=> /\ f \in present /\ Last(Parts[f]) \in r.config.extensions
                     /\ roots[i] \in Inside[f]
    BY DEF Discovered, Below, Present, roots, present
  <2>4. CASE roots[i] \in Dirs
    <3>1. ToSet(Walk(present, roots[i], r.config))
            = {f \in present : roots[i] \in Inside[f] /\ Last(Parts[f]) \in r.config.extensions}
      BY <1>1, <2>4, WalkElements
    <3> QED BY <2>2, <2>3, <3>1
  <2>5. CASE roots[i] \notin Dirs
    <3>1. Walk(present, roots[i], r.config) = <<>>
      BY <1>1, <2>5, WalkElements
    <3>2. ToSet(parts[i]) = {}
      BY <3>1 DEF ToSet
    <3>3. \A f \in Files : roots[i] \notin Inside[f]
      BY <2>1, <2>5, WalkAssumption
    <3> QED BY <1>1, <2>2, <2>3, <3>2, <3>3
  <2> QED BY <2>4, <2>5
<1>5. DOMAIN parts = 1 .. n /\ parts \in Seq(Seq(Files)) /\ Len(parts) = n
  <2>1. parts \in [1 .. n -> Seq(Files)]
    BY <1>2, <1>4
  <2> HIDE DEF parts
  <2> QED BY <2>1
<1> HIDE DEF roots, present, parts
<1>6. PICK list : list = List(r) /\ list \in Seq(Files)
  BY <1>3, <1>5, FlattenSeqType
<1>7. PICK row, col : Strung(list, parts, n, row, col)
  BY <1>3, <1>5, <1>6, FlattenSeqPlaces
<1>8. ASSUME NEW k \in 1 .. Len(list) PROVE list[k] \in Discovered(r) /\ row[k] \in Below(r, list[k])
  <2>1. row[k] \in 1 .. n /\ col[k] \in 1 .. Len(parts[row[k]]) /\ list[k] = parts[row[k]][col[k]]
    BY <1>7 DEF Strung
  <2>2. parts[row[k]] \in Seq(Files)
    BY <1>2, <1>4, <2>1
  <2>3. list[k] \in ToSet(parts[row[k]])
    BY <2>1, <2>2 DEF ToSet
  <2> QED BY <1>2, <1>4, <2>1, <2>3
<1>9. ASSUME NEW f \in Discovered(r), NEW i \in Below(r, f)
      PROVE  \E k \in 1 .. Len(list) : list[k] = f /\ row[k] = i
  <2>1. i \in 1 .. n
    BY <1>2 DEF Below, roots
  <2>2. f \in ToSet(parts[i]) /\ parts[i] \in Seq(Files)
    BY <1>2, <1>4, <2>1
  <2>3. PICK j \in 1 .. Len(parts[i]) : parts[i][j] = f
    BY <2>2 DEF ToSet
  <2>4. PICK k \in 1 .. Len(list) : row[k] = i /\ col[k] = j
    BY <1>7, <2>1, <2>3 DEF Strung
  <2>5. list[k] = parts[i][j]
    BY <1>7, <2>4 DEF Strung
  <2> QED BY <2>3, <2>4, <2>5
<1>10. \A k, l \in 1 .. Len(list) : k < l => row[k] <= row[l]
  <2> SUFFICES ASSUME NEW k \in 1 .. Len(list), NEW l \in 1 .. Len(list), k < l PROVE row[k] <= row[l]
    OBVIOUS
  <2>1. row[k] \in 1 .. n /\ row[l] \in 1 .. n /\ (row[k] < row[l] \/ row[k] = row[l])
    BY <1>7 DEF Strung
  <2> QED BY <2>1
<1>11. row \in [1 .. Len(list) -> Nat]
  <2>1. row \in [1 .. Len(list) -> 1 .. n] /\ 1 .. n \subseteq Nat
    BY <1>7 DEF Strung
  <2> QED BY <2>1
<1> QED BY <1>6, <1>8, <1>9, <1>10, <1>11

\* A name stands for the first file that has it.
LEMMA FirstIsNamed ==
  ASSUME NEW r, Rooted(r), NEW k \in Keys(r)
  PROVE  /\ FirstAt(r, k) \in 1 .. Len(List(r))
         /\ FirstOf(r, k) \in ToSet(List(r)) /\ FirstOf(r, k) \in Files
         /\ KeyOf(r, FirstOf(r, k)) = k
         /\ \A i \in 1 .. Len(List(r)) : KeyOf(r, List(r)[i]) = k => FirstAt(r, k) <= i
<1>1. PICK list : list = List(r) /\ list \in Seq(Files)
  BY ListFollowsRoots
<1>2. PICK n \in Nat : n = Len(list) /\ DOMAIN list = 1 .. n
  BY <1>1, LenProperties
<1> DEFINE S == {i \in 1 .. n : KeyOf(r, list[i]) = k}
<1>3. FirstAt(r, k) = Min(S)
  BY <1>1, <1>2 DEF FirstAt
<1>4. S # {} /\ S \in SUBSET Nat
  <2>1. PICK i \in DOMAIN list : k = KeyOf(r, list[i])
    BY <1>1 DEF Keys, ToSet
  <2> QED BY <1>2, <2>1
<1> HIDE DEF S
<1>5. Min(S) \in S /\ \A i \in S : Min(S) <= i
  BY <1>4, LeastOf
<1>6. FirstOf(r, k) = list[Min(S)] /\ Min(S) \in 1 .. n /\ KeyOf(r, list[Min(S)]) = k
  BY <1>1, <1>3, <1>5 DEF FirstOf, S
<1>7. FirstOf(r, k) \in ToSet(List(r)) /\ FirstOf(r, k) \in Files
  BY <1>1, <1>2, <1>6, ElementType DEF ToSet
<1> QED BY <1>1, <1>2, <1>3, <1>5, <1>6, <1>7 DEF S

\* In directories the names are those of the files below, and they stand for the files that count.
LEMMA NamesAreChecked ==
  ASSUME NEW r, Rooted(r), DirectoriesOnly(r)
  PROVE  /\ Keys(r) = {NameOf(r, g) : g \in Discovered(r)}
         /\ \A k \in Keys(r) : FirstOf(r, k) \in Checked(r)
         /\ \A f \in Checked(r) : NameOf(r, f) \in Keys(r) /\ FirstOf(r, NameOf(r, f)) = f
<1> DEFINE roots == Roots(r.cmd, r.config)
<1>1. PICK list : list = List(r) /\ list \in Seq(Files)
  BY ListFollowsRoots
<1>2. PICK n \in Nat : n = Len(list) /\ DOMAIN list = 1 .. n
  BY <1>1, LenProperties
<1>3. PICK row \in [1 .. n -> Nat] :
        /\ \A k \in 1 .. n : list[k] \in Discovered(r) /\ row[k] \in Below(r, list[k])
        /\ \A f \in Discovered(r) : \A i \in Below(r, f) : \E k \in 1 .. n : list[k] = f /\ row[k] = i
        /\ \A k, l \in 1 .. n : k < l => row[k] <= row[l]
  BY <1>1, <1>2, ListFollowsRoots, SMTT(40)
<1>4. DOMAIN roots \subseteq Nat /\ \A i \in DOMAIN roots : roots[i] \in Dirs
  <2>1. roots \in Seq(Files \cup Dirs)
    BY DEF Rooted
  <2>2. DOMAIN roots \subseteq Nat
    BY <2>1, LenProperties
  <2> QED BY <2>2 DEF DirectoriesOnly, ToSet
<1>5. ASSUME NEW f \in Discovered(r)
      PROVE  /\ f \in Files /\ KeyOf(r, f) = NameOf(r, f)
             /\ FirstBelow(r, f) \in Below(r, f) /\ \A i \in Below(r, f) : FirstBelow(r, f) <= i
  <2>1. f \in Files /\ Below(r, f) # {}
    BY DEF Discovered
  <2>2. Below(r, f) \in SUBSET Nat
    BY <1>4 DEF Below
  <2>3. {i \in DOMAIN roots : Holds(roots[i], f)} = Below(r, f)
    BY <1>4, <2>1, WalkAssumption DEF Below, Holds
  <2>4. FirstBelow(r, f) \in Below(r, f) /\ \A i \in Below(r, f) : FirstBelow(r, f) <= i
    BY <2>1, <2>2, LeastOf DEF FirstBelow
  <2>5. roots[FirstBelow(r, f)] # f
    <3>1. roots[FirstBelow(r, f)] \in Dirs
      BY <1>4, <2>4 DEF Below
    <3> QED BY <2>1, <3>1, WalkAssumption
  <2>6. KeyOf(r, f) = NameOf(r, f)
    BY <2>3, <2>5 DEF KeyOf, RelativeKey, NameOf, FirstBelow
  <2> QED BY <2>1, <2>4, <2>6
<1>6. ToSet(list) = Discovered(r)
  <2>1. ASSUME NEW f \in Discovered(r) PROVE f \in ToSet(list)
    BY <1>2, <1>3, <1>5 DEF ToSet
  <2> QED BY <1>2, <1>3, <2>1 DEF ToSet
<1>7. Keys(r) = {NameOf(r, g) : g \in Discovered(r)}
  BY <1>1, <1>5, <1>6 DEF Keys
<1>8. ASSUME NEW k \in Keys(r)
      PROVE  LET f == FirstOf(r, k)
             IN  /\ f \in Discovered(r) /\ NameOf(r, f) = k
                 /\ \A g \in Discovered(r) : NameOf(r, g) = k => FirstBelow(r, f) <= FirstBelow(r, g)
  <2>1. PICK f : f = FirstOf(r, k)
    OBVIOUS
  <2>2. /\ FirstAt(r, k) \in 1 .. n /\ f \in Discovered(r) /\ f = list[FirstAt(r, k)] /\ KeyOf(r, f) = k
        /\ \A i \in 1 .. n : KeyOf(r, list[i]) = k => FirstAt(r, k) <= i
    BY <1>1, <1>2, <1>6, <2>1, FirstIsNamed DEF FirstOf
  <2>3. NameOf(r, f) = k
    BY <1>5, <2>2
  <2>4. ASSUME NEW g \in Discovered(r), NameOf(r, g) = k PROVE FirstBelow(r, f) <= FirstBelow(r, g)
    <3>1. FirstBelow(r, g) \in Below(r, g)
      BY <1>5
    <3>2. PICK i \in 1 .. n : list[i] = g /\ row[i] = FirstBelow(r, g)
      BY <1>3, <3>1
    <3>3. FirstAt(r, k) <= i
      BY <1>5, <2>2, <2>4, <3>2
    <3>4. row[FirstAt(r, k)] <= row[i]
      <4>1. FirstAt(r, k) = i \/ FirstAt(r, k) < i
        BY <2>2, <3>3
      <4>2. row[i] \in Nat
        BY <3>2
      <4> QED BY <1>3, <2>2, <4>1, <4>2
    <3>5. FirstBelow(r, f) <= row[FirstAt(r, k)]
      BY <1>3, <1>5, <2>2
    <3>6. FirstBelow(r, f) \in Nat /\ row[FirstAt(r, k)] \in Nat /\ row[i] \in Nat
      BY <1>4, <1>5, <2>2, <3>2 DEF Below
    <3> QED BY <3>2, <3>4, <3>5, <3>6
  <2> QED BY <2>1, <2>2, <2>3, <2>4
<1>9. \A k \in Keys(r) : FirstOf(r, k) \in Checked(r)
  BY <1>8 DEF Checked
<1>10. ASSUME NEW f \in Checked(r) PROVE NameOf(r, f) \in Keys(r) /\ FirstOf(r, NameOf(r, f)) = f
  <2>1. f \in Discovered(r) /\ NameOf(r, f) \in Keys(r)
    BY <1>7 DEF Checked
  <2>2. PICK g : g = FirstOf(r, NameOf(r, f))
    OBVIOUS
  <2>3. g \in Discovered(r) /\ NameOf(r, g) = NameOf(r, f) /\ FirstBelow(r, g) <= FirstBelow(r, f)
    BY <1>8, <2>1, <2>2
  <2>4. FirstBelow(r, f) <= FirstBelow(r, g)
    BY <2>3 DEF Checked
  <2>5. FirstBelow(r, f) \in Below(r, f) /\ FirstBelow(r, g) \in Below(r, g) /\ f \in Files /\ g \in Files
    BY <1>5, <2>1, <2>3
  <2>6. FirstBelow(r, f) = FirstBelow(r, g)
    BY <1>4, <2>3, <2>4, <2>5 DEF Below
  <2>7. PICK d : d = roots[FirstBelow(r, f)]
    OBVIOUS
  <2>8. d \in Dirs /\ d \in Inside[f] /\ d \in Inside[g] /\ RelativeTo[d][f] = RelativeTo[d][g]
    BY <1>4, <2>3, <2>5, <2>6, <2>7 DEF Below, NameOf
  <2>9. f = g
    BY <2>5, <2>8, CheckAssumption
  <2> QED BY <2>1, <2>2, <2>9
<1> QED BY <1>7, <1>9, <1>10

(***************************************************************************)
(* What a check says of one file.                                          *)
(***************************************************************************)
Reported == [file : Files, line : Nat \ {0}, col : Nat, code : Seq(STRING)]

\* What the checks find in a text of a file, and what the filters and the noqa comments of a text leave.
Checksum(text, keys) ==
  IF Needs[text] = None \/ Needs[text].key \in keys THEN Finds[text] ELSE Finds[text] \o <<Needs[text].finding>>

Left(f, text, read, keys, select, ignore) ==
  SuppressByNoqa(FilterByConfig(RunChecks(f, text, keys), select, ignore), Lines[read])

\* The ids its noqa comments name in vain
Vain(f, read, select, ignore) ==
  FilterByConfig([i \in DOMAIN InvalidIds(Lines[read]) |-> InFile(f, InvalidIds(Lines[read])[i])], select, ignore)

\* Findings that are given a file.
LEMMA InFileType ==
  ASSUME NEW f \in Files, NEW s \in Seq(Finding)
  PROVE  /\ [i \in DOMAIN s |-> InFile(f, s[i])] \in Seq(Reported)
         /\ ToSet([i \in DOMAIN s |-> InFile(f, s[i])]) = {InFile(f, d) : d \in ToSet(s)}
<1> DEFINE t == [i \in DOMAIN s |-> InFile(f, s[i])]
<1>1. PICK n \in Nat : n = Len(s) /\ DOMAIN s = 1 .. n
  BY LenProperties
<1>2. \A i \in 1 .. n : t[i] = InFile(f, s[i]) /\ t[i] \in Reported
  <2> TAKE i \in 1 .. n
  <2>1. s[i] \in Finding
    BY <1>1, ElementType
  <2>2. InFile(f, s[i]) \in Reported
    BY <2>1 DEF InFile, Finding, Reported
  <2>3. t[i] = InFile(f, s[i])
    BY <1>1
  <2> QED BY <2>2, <2>3
<1>3. t \in [1 .. n -> Reported]
  BY <1>1, <1>2
<1> HIDE DEF t
<1>4. t \in Seq(Reported) /\ DOMAIN t = 1 .. n
  BY <1>3
<1>5. ToSet(t) = {InFile(f, d) : d \in ToSet(s)}
  BY <1>1, <1>2, <1>4 DEF ToSet
<1> QED BY <1>4, <1>5 DEF t

\* The findings of a text have their type.
LEMMA ChecksumType ==
  ASSUME NEW text \in Texts, NEW keys
  PROVE  /\ Checksum(text, keys) \in Seq(Finding)
         /\ ToSet(Checksum(text, keys)) =
              ToSet(Finds[text]) \cup IF Needs[text] = None \/ Needs[text].key \in keys THEN {} ELSE {Needs[text].finding}
<1>1. PICK s : s = Finds[text] /\ s \in Seq(Finding)
  BY FindingAssumption
<1>2. CASE Needs[text] = None \/ Needs[text].key \in keys
  BY <1>1, <1>2 DEF Checksum
<1>3. CASE ~(Needs[text] = None \/ Needs[text].key \in keys)
  <2>1. PICK d : d = Needs[text].finding /\ d \in Finding
    BY <1>3, FindingAssumption
  <2>2. <<d>> \in Seq(Finding) /\ ToSet(<<d>>) = {d}
    BY <2>1 DEF ToSet
  <2>3. s \o <<d>> \in Seq(Finding) /\ ToSet(s \o <<d>>) = ToSet(s) \cup ToSet(<<d>>)
    BY <1>1, <2>2, ConcatElements
  <2> QED BY <1>1, <1>3, <2>1, <2>2, <2>3 DEF Checksum
<1> QED BY <1>2, <1>3

\* The unknown ids of a text are findings of it.
LEMMA InvalidIdsType ==
  ASSUME NEW lines \in Seq(TextLine)
  PROVE  InvalidIds(lines) \in Seq(Finding)
<1> DEFINE Named(i) == Keep(lines[i].comments, {c \in ToSet(lines[i].comments) : IsDirective(c)})
           Ids(i) == FlattenSeq([j \in DOMAIN Named(i) |-> Named(i)[j].ids])
           Unknown(i) == Keep(Ids(i), ToSet(Ids(i)) \ Known)
           parts == [i \in DOMAIN lines |->
                       [j \in DOMAIN Unknown(i) |-> [line |-> i, col |-> 0, code |-> W107]]]
<1>1. PICK n \in Nat : n = Len(lines) /\ DOMAIN lines = 1 .. n
  BY LenProperties
<1>2. InvalidIds(lines) = FlattenSeq(parts)
  BY Zenon DEF InvalidIds
<1>3. ASSUME NEW i \in 1 .. n PROVE parts[i] \in Seq(Finding)
  <2>1. lines[i] \in TextLine
    BY <1>1, ElementType
  <2>2. PICK comments : comments = lines[i].comments /\ comments \in Seq(Comment)
    BY <2>1 DEF TextLine
  <2>3. PICK named : named = Named(i)
    OBVIOUS
  <2>4. named \in Seq(Comment)
    BY <2>2, <2>3, KeepElements
  <2>5. PICK m \in Nat : m = Len(named) /\ DOMAIN named = 1 .. m
    BY <2>4, LenProperties
  <2>6. PICK lists : lists = [j \in DOMAIN named |-> named[j].ids]
    OBVIOUS
  <2>7. lists \in [1 .. m -> Seq(Seq(STRING))]
    <3>1. ASSUME NEW j \in 1 .. m PROVE named[j].ids \in Seq(Seq(STRING))
      <4>1. named[j] \in Comment
        BY <2>4, <2>5, ElementType
      <4> QED BY <4>1 DEF Comment
    <3> QED BY <2>5, <2>6, <3>1
  <2>8. FlattenSeq(lists) \in Seq(Seq(STRING))
    <3>1. lists \in Seq(Seq(Seq(STRING)))
      BY <2>7
    <3> QED BY <3>1, FlattenSeqType
  <2>9. Ids(i) = FlattenSeq(lists)
    BY <2>3, <2>6
  <2> HIDE DEF Named
  <2>10. PICK unknown : unknown = Unknown(i)
    OBVIOUS
  <2>11. unknown \in Seq(Seq(STRING))
    <3> HIDE DEF Ids
    <3> QED BY <2>8, <2>9, <2>10, KeepElements
  <2>12. PICK l \in Nat : l = Len(unknown) /\ DOMAIN unknown = 1 .. l
    BY <2>11, LenProperties
  <2>13. parts[i] = [j \in 1 .. l |-> [line |-> i, col |-> 0, code |-> W107]]
    <3> HIDE DEF Unknown
    <3> QED BY <1>1, <2>10, <2>12
  <2>14. [line |-> i, col |-> 0, code |-> W107] \in Finding
    BY FindingAssumption DEF Finding
  <2> HIDE DEF parts
  <2>15. parts[i] \in [1 .. l -> Finding]
    BY <2>13, <2>14
  <2> QED BY <2>15
<1>4. DOMAIN parts = 1 .. n
  BY <1>1
<1>5. parts = [i \in 1 .. n |-> parts[i]]
  BY <1>1
<1> HIDE DEF parts
<1>6. parts \in Seq(Seq(Finding))
  <2>1. parts \in [1 .. n -> Seq(Finding)]
    BY <1>3, <1>5
  <2> QED BY <2>1
<1> QED BY <1>2, <1>6, FlattenSeqType

\* A finding is shown in a file if it is shown.
LEMMA ShownInFile ==
  ASSUME NEW f, NEW d, NEW select, NEW ignore, NEW lines
  PROVE  Shown(InFile(f, d), select, ignore, lines) <=> Shown(d, select, ignore, lines)
<1>1. InFile(f, d).line = d.line /\ InFile(f, d).code = d.code
  BY DEF InFile
<1> HIDE DEF InFile
<1> QED BY <1>1 DEF Shown

\* What is said of a file, for any texts of it.
LEMMA SaidOfFile ==
  ASSUME NEW f \in Files, NEW text \in Texts, NEW read \in Texts, NEW keys, NEW select, NEW ignore
  PROVE  /\ Left(f, text, read, keys, select, ignore) \in Seq(Reported)
         /\ Vain(f, read, select, ignore) \in Seq(Reported)
         /\ \A d \in ToSet(Left(f, text, read, keys, select, ignore)) : d.file = f
         /\ \A d \in ToSet(Vain(f, read, select, ignore)) : d.file = f
         /\ ToSet(Vain(f, read, select, ignore)) =
              {InFile(f, d) : d \in {e \in ToSet(InvalidIds(Lines[read])) : Shown(e, select, ignore, <<>>)}}
         /\ /\ text = read /\ TagsSettle(Lines[read])
            /\ ~ReadsNoLine(FilterByConfig(RunChecks(f, text, keys), select, ignore), Lines[read])
            => ToSet(Left(f, text, read, keys, select, ignore)) =
                 {InFile(f, d) : d \in {e \in ToSet(Checksum(text, keys)) : Shown(e, select, ignore, Lines[read])}}
<1>1. PICK finds : finds = Checksum(text, keys) /\ finds \in Seq(Finding)
  BY ChecksumType
<1>2. PICK diags : diags = RunChecks(f, text, keys)
  OBVIOUS
<1>3. diags = [i \in DOMAIN finds |-> InFile(f, finds[i])]
  BY <1>1, <1>2 DEF RunChecks, Checksum
<1>4. diags \in Seq(Reported) /\ ToSet(diags) = {InFile(f, d) : d \in ToSet(finds)}
  BY <1>1, <1>3, InFileType
<1>5. PICK filtered : filtered = FilterByConfig(diags, select, ignore)
  OBVIOUS
<1>6. filtered \in Seq(Reported) /\ ToSet(filtered) \subseteq ToSet(diags)
  BY <1>4, <1>5, FilterLeaves
<1>7. /\ Left(f, text, read, keys, select, ignore) = SuppressByNoqa(filtered, Lines[read])
      /\ SuppressByNoqa(filtered, Lines[read]) \in Seq(Reported)
      /\ ToSet(SuppressByNoqa(filtered, Lines[read])) \subseteq ToSet(filtered)
  BY <1>2, <1>5, <1>6, SuppressLeaves DEF Left
<1>8. \A d : InFile(f, d).file = f
  BY DEF InFile
<1>9. PICK lines : lines = Lines[read] /\ lines \in Seq(TextLine)
  BY FindingAssumption
<1>10. ASSUME TagsSettle(lines), ~ReadsNoLine(filtered, lines)
       PROVE  ToSet(SuppressByNoqa(filtered, lines)) =
                {InFile(f, d) : d \in {e \in ToSet(finds) : Shown(e, select, ignore, lines)}}
  <2>1. \A d \in Reported : d.line \in Nat \ {0}
    BY DEF Reported
  <2>2. ToSet(SuppressByNoqa(filtered, lines)) = {d \in ToSet(diags) : Shown(d, select, ignore, lines)}
    BY <1>4, <1>5, <1>9, <1>10, <2>1, ShownIsLeft
  <2> QED BY <1>4, <2>2, ShownInFile
<1>11. PICK ids : ids = InvalidIds(lines) /\ ids \in Seq(Finding)
  BY <1>9, InvalidIdsType
<1>12. PICK vain : vain = [i \in DOMAIN ids |-> InFile(f, ids[i])]
  OBVIOUS
<1>13. vain \in Seq(Reported) /\ ToSet(vain) = {InFile(f, d) : d \in ToSet(ids)}
  BY <1>11, <1>12, InFileType
<1>14. Vain(f, read, select, ignore) = FilterByConfig(vain, select, ignore)
  BY <1>9, <1>11, <1>12 DEF Vain
<1>15. /\ Vain(f, read, select, ignore) \in Seq(Reported)
       /\ ToSet(Vain(f, read, select, ignore)) = {d \in ToSet(vain) : Selected(d, select, ignore)}
  BY <1>13, <1>14, FilterLeaves
<1>16. ToSet(Vain(f, read, select, ignore)) =
         {InFile(f, d) : d \in {e \in ToSet(ids) : Shown(e, select, ignore, <<>>)}}
  <2>1. \A d : Selected(InFile(f, d), select, ignore) <=> Shown(d, select, ignore, <<>>)
    BY ShownInFile, NothingIsSuppressed
  <2> QED BY <1>13, <1>15, <2>1
<1> QED BY <1>1, <1>2, <1>4, <1>5, <1>6, <1>7, <1>8, <1>9, <1>10, <1>11, <1>13, <1>15, <1>16

(***************************************************************************)
(* How far a check is.                                                     *)
(***************************************************************************)
\* A text read of a file that nobody edits is the one the check started with.
ReadAs(r, f, text) == text \in Texts /\ (f \notin r.touched => text = TextOf(r, f))

\* The first n files of the list are indexed, and each name stands for the first that has it.
Indexing(r, n) ==
  /\ n \in 0 .. Len(List(r))
  /\ r.todo \in Seq(Files) /\ Len(r.todo) = Len(List(r)) - n
  /\ \A i \in 1 .. (Len(List(r)) - n) : r.todo[i] = List(r)[n + i]
  /\ DOMAIN r.index = {KeyOf(r, List(r)[i]) : i \in 1 .. n}
  /\ \A k \in DOMAIN r.index : r.index[k].file = FirstOf(r, k) /\ ReadAs(r, FirstOf(r, k), r.index[k].text)

\* Of the names some have been read, once the list is through.
Reading(r) ==
  /\ \E S : r.read \in Seq(S)
  /\ \A i \in 1 .. Len(r.read) :
       /\ r.read[i].key \in DOMAIN r.index
       /\ r.read[i].file = FirstOf(r, r.read[i].key) /\ ReadAs(r, r.read[i].file, r.read[i].text)
  /\ \A i, j \in 1 .. Len(r.read) : r.read[i].key = r.read[j].key => i = j
  /\ r.read # <<>> => r.todo = <<>>

\* The same check, some steps later
SameCheck(r, s) == s.cmd = r.cmd /\ s.config = r.config /\ s.before = r.before

LEMMA SameNames ==
  ASSUME NEW r, NEW s, SameCheck(r, s)
  PROVE  /\ Rooted(s) <=> Rooted(r)
         /\ List(s) = List(r) /\ Keys(s) = Keys(r)
         /\ \A f : KeyOf(s, f) = KeyOf(r, f) /\ TextOf(s, f) = TextOf(r, f)
         /\ \A k : FirstAt(s, k) = FirstAt(r, k) /\ FirstOf(s, k) = FirstOf(r, k)
<1>1. (Rooted(s) <=> Rooted(r)) /\ List(s) = List(r) /\ \A f : KeyOf(s, f) = KeyOf(r, f) /\ TextOf(s, f) = TextOf(r, f)
  BY DEF SameCheck, Rooted, List, KeyOf, TextOf
<1>2. Keys(s) = Keys(r) /\ \A k : FirstAt(s, k) = FirstAt(r, k)
  BY <1>1 DEF Keys, FirstAt
<1> QED BY <1>1, <1>2 DEF FirstOf

\* The file at the head of the list is indexed unless another has its name.
LEMMA IndexGoesOn ==
  ASSUME NEW r, NEW s, NEW n, NEW text, Rooted(r), Indexing(r, n), r.todo # <<>>,
         SameCheck(r, s), s.touched = r.touched, s.todo = Tail(r.todo),
         ReadAs(r, Head(r.todo), text),
         s.index = Indexed(r.index, KeyOf(r, Head(r.todo)), [file |-> Head(r.todo), text |-> text])
  PROVE  Indexing(s, n + 1)
<1>1. PICK list : list = List(r) /\ list \in Seq(Files)
  BY ListFollowsRoots
<1>2. PICK m \in Nat : m = Len(list) /\ DOMAIN list = 1 .. m
  BY <1>1, LenProperties
<1>3. PICK todo : todo = r.todo /\ todo \in Seq(Files) /\ Len(todo) = m - n /\ todo # <<>>
                  /\ \A i \in 1 .. (m - n) : todo[i] = list[n + i]
  BY <1>1, <1>2 DEF Indexing
<1>4. n \in 0 .. m
  BY <1>1, <1>2 DEF Indexing
<1>5. n + 1 \in 1 .. m /\ n + 1 \in 0 .. m
  <2>1. Len(todo) # 0
    BY <1>3, EmptySeq
  <2> QED BY <1>3, <1>4, <2>1
<1>6. PICK f : f = Head(todo)
  OBVIOUS
<1>7. f = list[n + 1] /\ f \in Files
  <2>1. f = todo[1] /\ 1 \in 1 .. (m - n)
    BY <1>3, <1>4, <1>5, <1>6
  <2> QED BY <1>1, <1>2, <1>3, <1>5, <2>1, ElementType
<1>8. /\ Tail(todo) \in Seq(Files) /\ Len(Tail(todo)) = m - (n + 1)
      /\ \A i \in 1 .. (m - (n + 1)) : Tail(todo)[i] = list[(n + 1) + i]
  <2>1. /\ Tail(todo) \in Seq(Files) /\ Len(Tail(todo)) = (m - n) - 1
        /\ \A i \in 1 .. ((m - n) - 1) : Tail(todo)[i] = todo[i + 1]
    BY <1>3
  <2>2. (m - n) - 1 = m - (n + 1)
    BY <1>4
  <2>3. \A i \in 1 .. ((m - n) - 1) : i + 1 \in 1 .. (m - n) /\ n + (i + 1) = (n + 1) + i
    BY <1>4
  <2> QED BY <1>3, <2>1, <2>2, <2>3
<1>9. PICK key : key = KeyOf(r, f)
  OBVIOUS
<1>10. PICK old : old = r.index
  OBVIOUS
<1>11. /\ DOMAIN old = {KeyOf(r, list[i]) : i \in 1 .. n}
       /\ \A k \in DOMAIN old : old[k].file = FirstOf(r, k) /\ ReadAs(r, FirstOf(r, k), old[k].text)
  BY <1>1, <1>2, <1>10 DEF Indexing
<1>12. PICK new : new = s.index
  OBVIOUS
<1>13. new = [k \in DOMAIN old \cup {key} |-> IF k \in DOMAIN old THEN old[k] ELSE [file |-> f, text |-> text]]
  BY <1>3, <1>6, <1>9, <1>10, <1>12 DEF Indexed
<1>14. DOMAIN new = {KeyOf(r, list[i]) : i \in 1 .. (n + 1)}
  <2>1. \A i \in 1 .. (n + 1) : i \in 1 .. n \/ i = n + 1
    BY <1>4
  <2>2. 1 .. n \subseteq 1 .. (n + 1) /\ n + 1 \in 1 .. (n + 1)
    BY <1>4
  <2>3. \A k : k \in DOMAIN new <=> k = key \/ \E i \in 1 .. n : k = KeyOf(r, list[i])
    BY <1>11, <1>13
  <2> QED BY <1>7, <1>9, <2>1, <2>2, <2>3
<1>15. key \notin DOMAIN old => FirstOf(r, key) = f
  <2> SUFFICES ASSUME key \notin DOMAIN old PROVE FirstOf(r, key) = f
    OBVIOUS
  <2>1. key \in Keys(r)
    BY <1>1, <1>2, <1>5, <1>7, <1>9 DEF Keys, ToSet
  <2>2. /\ FirstAt(r, key) \in 1 .. m /\ FirstAt(r, key) <= n + 1
        /\ KeyOf(r, list[FirstAt(r, key)]) = key /\ FirstOf(r, key) = list[FirstAt(r, key)]
    BY <1>1, <1>2, <1>5, <1>7, <1>9, <2>1, FirstIsNamed DEF FirstOf
  <2>3. FirstAt(r, key) \notin 1 .. n
    BY <1>11, <2>2
  <2>4. FirstAt(r, key) = n + 1
    BY <1>4, <2>2, <2>3
  <2> QED BY <1>7, <2>2, <2>4
<1>16. ASSUME NEW k \in DOMAIN new PROVE new[k].file = FirstOf(r, k) /\ ReadAs(r, FirstOf(r, k), new[k].text)
  <2>1. CASE k \in DOMAIN old
    BY <1>11, <1>13, <2>1
  <2>2. CASE k \notin DOMAIN old
    <3>1. k = key /\ new[k] = [file |-> f, text |-> text]
      BY <1>13, <2>2
    <3>2. new[k].file = f /\ new[k].text = text
      BY <3>1
    <3> QED BY <1>3, <1>6, <1>15, <2>2, <3>1, <3>2
  <2> QED BY <2>1, <2>2
<1>17. /\ List(s) = list /\ (\A g : KeyOf(s, g) = KeyOf(r, g)) /\ (\A k : FirstOf(s, k) = FirstOf(r, k))
       /\ \A g, t : ReadAs(s, g, t) <=> ReadAs(r, g, t)
  BY <1>1, SameNames DEF ReadAs
<1>18. n + 1 \in 0 .. Len(List(s)) /\ s.todo = Tail(todo) /\ s.index = new
  BY <1>2, <1>3, <1>5, <1>12, <1>17
<1>19. /\ s.todo \in Seq(Files) /\ Len(s.todo) = Len(List(s)) - (n + 1)
       /\ \A i \in 1 .. (Len(List(s)) - (n + 1)) : s.todo[i] = List(s)[(n + 1) + i]
  BY <1>2, <1>8, <1>17, <1>18
<1>20. DOMAIN s.index = {KeyOf(s, List(s)[i]) : i \in 1 .. (n + 1)}
  BY <1>14, <1>17, <1>18
<1>21. \A k \in DOMAIN s.index : s.index[k].file = FirstOf(s, k) /\ ReadAs(s, FirstOf(s, k), s.index[k].text)
  BY <1>16, <1>17, <1>18
<1> QED BY <1>18, <1>19, <1>20, <1>21 DEF Indexing

\* Another name of the index is read.
LEMMA ReadGoesOn ==
  ASSUME NEW r, NEW s, NEW n, NEW text, NEW key, Rooted(r), Indexing(r, n), Reading(r), r.todo = <<>>,
         SameCheck(r, s), s.touched = r.touched, s.todo = r.todo, s.index = r.index,
         key \in DOMAIN r.index, \A i \in 1 .. Len(r.read) : r.read[i].key # key,
         ReadAs(r, r.index[key].file, text),
         s.read = Append(r.read, [key |-> key, file |-> r.index[key].file, text |-> text])
  PROVE  Indexing(s, n) /\ Reading(s)
<1>1. /\ List(s) = List(r) /\ (\A g : KeyOf(s, g) = KeyOf(r, g)) /\ (\A k : FirstOf(s, k) = FirstOf(r, k))
      /\ \A g, t : ReadAs(s, g, t) <=> ReadAs(r, g, t)
  BY SameNames DEF ReadAs
<1>2. Indexing(s, n)
  BY <1>1 DEF Indexing
<1>3. PICK S : r.read \in Seq(S)
  BY DEF Reading
<1>4. PICK old, new : old = r.read /\ new = s.read
  OBVIOUS
<1>5. PICK e : e = [key |-> key, file |-> r.index[key].file, text |-> text]
  OBVIOUS
<1>6. PICK m \in Nat : m = Len(old)
  BY <1>3, <1>4, LenProperties
<1>7. /\ new \in Seq(S \cup {e}) /\ Len(new) = m + 1 /\ new[m + 1] = e
      /\ \A i \in 1 .. m : new[i] = old[i]
  BY <1>3, <1>4, <1>5, <1>6
<1>8. e.key = key /\ e.file = FirstOf(r, key) /\ e.text = text /\ ReadAs(r, e.file, e.text)
  BY <1>5 DEF Indexing
<1>9. ASSUME NEW i \in 1 .. Len(new)
      PROVE  /\ new[i].key \in DOMAIN r.index
             /\ new[i].file = FirstOf(r, new[i].key) /\ ReadAs(r, new[i].file, new[i].text)
  <2>1. CASE i \in 1 .. m
    BY <1>4, <1>6, <1>7, <2>1 DEF Reading
  <2>2. CASE i \notin 1 .. m
    <3>1. i = m + 1
      BY <1>7, <2>2
    <3> QED BY <1>7, <1>8, <3>1
  <2> QED BY <2>1, <2>2
<1>10. ASSUME NEW i \in 1 .. Len(new), NEW j \in 1 .. Len(new), new[i].key = new[j].key PROVE i = j
  <2>1. \A l \in 1 .. (m + 1) : l \in 1 .. m \/ l = m + 1
    OBVIOUS
  <2>2. \A l \in 1 .. m : new[l].key # key
    BY <1>4, <1>6, <1>7
  <2>3. \A l, o \in 1 .. m : new[l].key = new[o].key => l = o
    BY <1>4, <1>6, <1>7 DEF Reading
  <2> QED BY <1>7, <1>8, <1>10, <2>1, <2>2, <2>3
<1> QED BY <1>1, <1>2, <1>4, <1>7, <1>9, <1>10 DEF Reading

\* Once the list is through, the names are all there is.
LEMMA AllIndexed ==
  ASSUME NEW r, NEW n, Rooted(r), Indexing(r, n), r.todo = <<>>
  PROVE  DOMAIN r.index = Keys(r) /\ IsFiniteSet(Keys(r))
<1>1. PICK list : list = List(r) /\ list \in Seq(Files)
  BY ListFollowsRoots
<1>2. PICK m \in Nat : m = Len(list) /\ DOMAIN list = 1 .. m
  BY <1>1, LenProperties
<1>3. n = m
  <2>1. n \in 0 .. m /\ Len(r.todo) = m - n /\ Len(r.todo) = 0
    BY <1>1, <1>2, EmptySeq DEF Indexing
  <2> QED BY <2>1
<1>4. Keys(r) = {KeyOf(r, list[i]) : i \in 1 .. m}
  BY <1>1, <1>2 DEF Keys, ToSet
<1>5. DOMAIN r.index = Keys(r)
  BY <1>1, <1>2, <1>3, <1>4 DEF Indexing
<1>6. IsFiniteSet(Keys(r))
  <2>0. 1 \in Int /\ m \in Int
    OBVIOUS
  <2>1. IsFiniteSet(1 .. m)
    BY <2>0, FS_Interval, Zenon
  <2>2. PICK g : g = [i \in 1 .. m |-> KeyOf(r, list[i])]
    OBVIOUS
  <2>3. g \in Surjection(1 .. m, Keys(r))
    BY <1>4, <2>2 DEF Surjection
  <2> QED BY <2>1, <2>3, FS_Surjection
<1> QED BY <1>5, <1>6

\* As many as there are names, they are read all.
LEMMA AllRead ==
  ASSUME NEW r, NEW n, Rooted(r), Indexing(r, n), Reading(r), r.todo = <<>>,
         Len(r.read) = Cardinality(DOMAIN r.index)
  PROVE  \A k \in Keys(r) : \E i \in 1 .. Len(r.read) : r.read[i].key = k
<1>1. DOMAIN r.index = Keys(r) /\ IsFiniteSet(Keys(r))
  BY AllIndexed
<1>2. PICK read : read = r.read
  OBVIOUS
<1>3. PICK m \in Nat : m = Len(read) /\ m = Cardinality(Keys(r))
  BY <1>1, <1>2, LenProperties DEF Reading
<1>4. PICK g : g = [i \in 1 .. m |-> read[i].key]
  OBVIOUS
<1>5. g \in Injection(1 .. m, Keys(r))
  <2>1. \A i \in 1 .. m : read[i].key \in Keys(r)
    BY <1>1, <1>2, <1>3 DEF Reading
  <2>2. \A i, j \in 1 .. m : read[i].key = read[j].key => i = j
    BY <1>2, <1>3 DEF Reading
  <2> QED BY <1>4, <2>1, <2>2 DEF Injection, IsInjective
<1>6. IsFiniteSet(1 .. m) /\ Cardinality(1 .. m) = m
  BY FS_Interval
<1>7. g \in Surjection(1 .. m, Keys(r))
  BY <1>1, <1>3, <1>5, <1>6, FS_Injection
<1> QED BY <1>2, <1>3, <1>4, <1>7 DEF Surjection

(***************************************************************************)
(* What the check has read and what it reports of it.                      *)
(***************************************************************************)
Select(r) == EffectiveSelect(r.cmd, r.config)
Ignore(r) == EffectiveIgnore(r.cmd, r.config)

LeftOf(r, e) == Left(e.file, r.index[e.key].text, e.text, DOMAIN r.index, Select(r), Ignore(r))
VainOf(r, e) == Vain(e.file, e.text, Select(r), Ignore(r))

AllLeft(r) == [i \in DOMAIN r.read |-> LeftOf(r, r.read[i])]
AllVain(r) == [i \in DOMAIN r.read |-> VainOf(r, r.read[i])]
Unsorted(r) == FlattenSeq(AllLeft(r)) \o FlattenSeq(AllVain(r))

StopsAt(r, e) ==
  ReadsNoLine(FilterByConfig(RunChecks(e.file, r.index[e.key].text, DOMAIN r.index), Select(r), Ignore(r)),
              Lines[e.text])

\* Every text settles its tags: no line closes one from above and then opens and closes another.
AllSettle == \A t \in Texts : TagsSettle(Lines[t])

LEMMA ReportedArePlaced == Placed(Reported)
BY CheckAssumption DEF Placed, Reported

\* What is said of each entry that was read.
LEMMA EntrySays ==
  ASSUME NEW r, NEW n, Rooted(r), Indexing(r, n), Reading(r), r.todo = <<>>, NEW i \in 1 .. Len(r.read)
  PROVE  /\ r.read[i].key \in Keys(r) /\ r.read[i].file \in Files
         /\ r.read[i].file = FirstOf(r, r.read[i].key) /\ KeyOf(r, r.read[i].file) = r.read[i].key
         /\ ReadAs(r, r.read[i].file, r.read[i].text)
         /\ ReadAs(r, r.read[i].file, r.index[r.read[i].key].text)
         /\ LeftOf(r, r.read[i]) \in Seq(Reported) /\ VainOf(r, r.read[i]) \in Seq(Reported)
         /\ \A d \in ToSet(LeftOf(r, r.read[i])) : d.file = r.read[i].file
         /\ \A d \in ToSet(VainOf(r, r.read[i])) : d.file = r.read[i].file
<1>1. PICK e : e = r.read[i]
  OBVIOUS
<1>2. DOMAIN r.index = Keys(r)
  BY AllIndexed
<1>3. e.key \in Keys(r) /\ e.file = FirstOf(r, e.key) /\ ReadAs(r, e.file, e.text)
  BY <1>1, <1>2 DEF Reading
<1>4. e.file \in Files /\ KeyOf(r, e.file) = e.key
  BY <1>3, FirstIsNamed
<1>5. ReadAs(r, e.file, r.index[e.key].text)
  BY <1>2, <1>3 DEF Indexing
<1>6. e.text \in Texts /\ r.index[e.key].text \in Texts
  BY <1>3, <1>5 DEF ReadAs
<1>7. /\ LeftOf(r, e) \in Seq(Reported) /\ VainOf(r, e) \in Seq(Reported)
      /\ \A d \in ToSet(LeftOf(r, e)) : d.file = e.file
      /\ \A d \in ToSet(VainOf(r, e)) : d.file = e.file
  <2>1. PICK left, vain : left = LeftOf(r, e) /\ vain = VainOf(r, e)
    OBVIOUS
  <2>2. /\ left = Left(e.file, r.index[e.key].text, e.text, DOMAIN r.index, Select(r), Ignore(r))
        /\ vain = Vain(e.file, e.text, Select(r), Ignore(r))
    BY <2>1 DEF LeftOf, VainOf
  <2>3. /\ left \in Seq(Reported) /\ vain \in Seq(Reported)
        /\ (\A d \in ToSet(left) : d.file = e.file) /\ (\A d \in ToSet(vain) : d.file = e.file)
    BY <1>4, <1>6, <2>2, SaidOfFile
  <2> QED BY <2>1, <2>3
<1> QED BY <1>1, <1>3, <1>4, <1>5, <1>7

\* The report is of all of them, and it has a type.
LEMMA UnsortedType ==
  ASSUME NEW r, NEW n, Rooted(r), Indexing(r, n), Reading(r), r.todo = <<>>
  PROVE  /\ DOMAIN r.read = 1 .. Len(r.read) /\ Len(r.read) \in Nat
         /\ AllLeft(r) \in Seq(Seq(Reported)) /\ Len(AllLeft(r)) = Len(r.read)
         /\ AllVain(r) \in Seq(Seq(Reported)) /\ Len(AllVain(r)) = Len(r.read)
         /\ \A i \in 1 .. Len(r.read) : AllLeft(r)[i] = LeftOf(r, r.read[i]) /\ AllVain(r)[i] = VainOf(r, r.read[i])
         /\ FlattenSeq(AllLeft(r)) \in Seq(Reported) /\ FlattenSeq(AllVain(r)) \in Seq(Reported)
         /\ Unsorted(r) \in Seq(Reported)
         /\ ToSet(Unsorted(r)) =
              UNION {ToSet(LeftOf(r, r.read[i])) \cup ToSet(VainOf(r, r.read[i])) : i \in 1 .. Len(r.read)}
<1>1. PICK m \in Nat : m = Len(r.read) /\ DOMAIN r.read = 1 .. m
  BY LenProperties DEF Reading
<1>2. PICK left, vain : left = AllLeft(r) /\ vain = AllVain(r)
  OBVIOUS
<1>3. /\ left = [i \in 1 .. m |-> LeftOf(r, r.read[i])]
      /\ vain = [i \in 1 .. m |-> VainOf(r, r.read[i])]
  BY <1>1, <1>2 DEF AllLeft, AllVain
<1>4. \A i \in 1 .. m : LeftOf(r, r.read[i]) \in Seq(Reported) /\ VainOf(r, r.read[i]) \in Seq(Reported)
  BY <1>1, EntrySays
<1>5. left \in [1 .. m -> Seq(Reported)] /\ vain \in [1 .. m -> Seq(Reported)]
  BY <1>3, <1>4
<1>6. /\ left \in Seq(Seq(Reported)) /\ vain \in Seq(Seq(Reported)) /\ Len(left) = m /\ Len(vain) = m
      /\ DOMAIN left = 1 .. m /\ DOMAIN vain = 1 .. m
  BY <1>5
<1>7. PICK a, b : a = FlattenSeq(left) /\ b = FlattenSeq(vain)
  OBVIOUS
<1>8. a \in Seq(Reported) /\ b \in Seq(Reported)
  BY <1>6, <1>7, FlattenSeqType
<1>9. ToSet(a) = UNION {ToSet(left[i]) : i \in 1 .. m} /\ ToSet(b) = UNION {ToSet(vain[i]) : i \in 1 .. m}
  BY <1>6, <1>7, FlattenSeqElements
<1>10. Unsorted(r) = a \o b
  BY <1>2, <1>7 DEF Unsorted
<1>11. a \o b \in Seq(Reported) /\ ToSet(a \o b) = ToSet(a) \cup ToSet(b)
  BY <1>8, ConcatElements
<1>12. ToSet(Unsorted(r)) = UNION {ToSet(LeftOf(r, r.read[i])) \cup ToSet(VainOf(r, r.read[i])) : i \in 1 .. m}
  <2>1. \A i \in 1 .. m : left[i] = LeftOf(r, r.read[i]) /\ vain[i] = VainOf(r, r.read[i])
    BY <1>3
  <2>2. \A x : x \in ToSet(Unsorted(r)) <=> \E i \in 1 .. m : x \in ToSet(left[i]) \/ x \in ToSet(vain[i])
    BY <1>9, <1>10, <1>11
  <2> QED BY <2>1, <2>2
<1> QED BY <1>1, <1>2, <1>3, <1>6, <1>7, <1>8, <1>10, <1>11, <1>12

\* Of a file that nobody edits the report has what it is expected to have.
LEMMA ReportSays ==
  ASSUME NEW r, NEW n, Rooted(r), Indexing(r, n), Reading(r), r.todo = <<>>,
         Len(r.read) = Cardinality(DOMAIN r.index), \A i \in 1 .. Len(r.read) : ~StopsAt(r, r.read[i]),
         AllSettle, DirectoriesOnly(r), NEW f \in Files \ r.touched
  PROVE  {d \in ToSet(Unsorted(r)) : d.file = f} = IF f \in Checked(r) THEN Expected(r, f) ELSE {}
<1>1. PICK m \in Nat : m = Len(r.read)
  BY UnsortedType
<1>2. PICK read : read = r.read
  OBVIOUS
<1>3. \A i \in 1 .. m :
        /\ read[i].key \in Keys(r) /\ read[i].file = FirstOf(r, read[i].key) /\ KeyOf(r, read[i].file) = read[i].key
        /\ \A d \in ToSet(LeftOf(r, read[i])) : d.file = read[i].file
        /\ \A d \in ToSet(VainOf(r, read[i])) : d.file = read[i].file
  BY <1>1, <1>2, EntrySays
<1>4. \A d : d \in ToSet(Unsorted(r)) <=> \E i \in 1 .. m : d \in ToSet(LeftOf(r, read[i])) \cup ToSet(VainOf(r, read[i]))
  BY <1>1, <1>2, UnsortedType
<1>5. CASE f \notin Checked(r)
  <2>1. \A i \in 1 .. m : read[i].file # f
    BY <1>3, <1>5, NamesAreChecked
  <2> QED BY <1>3, <1>4, <1>5, <2>1
<1>6. CASE f \in Checked(r)
  <2>1. NameOf(r, f) \in Keys(r) /\ FirstOf(r, NameOf(r, f)) = f
    BY <1>6, NamesAreChecked
  <2>2. PICK i \in 1 .. m : read[i].key = NameOf(r, f)
    BY <1>1, <1>2, <2>1, AllRead
  <2>3. read[i].file = f
    BY <1>3, <2>1, <2>2
  <2>4. \A j \in 1 .. m : read[j].file = f => j = i
    <3>1. \A j \in 1 .. m : read[j].file = f => read[j].key = read[i].key
      BY <1>3, <2>3
    <3> QED BY <1>1, <1>2, <3>1 DEF Reading
  <2>5. {d \in ToSet(Unsorted(r)) : d.file = f} = ToSet(LeftOf(r, read[i])) \cup ToSet(VainOf(r, read[i]))
    BY <1>3, <1>4, <2>3, <2>4
  <2>6. PICK text : text = TextOf(r, f)
    OBVIOUS
  <2>7. read[i].text = text /\ r.index[read[i].key].text = text /\ text \in Texts
    BY <1>1, <1>2, <2>3, <2>6, EntrySays, SMTT(40) DEF ReadAs
  <2>8. DOMAIN r.index = Keys(r)
    BY AllIndexed
  <2>9. /\ LeftOf(r, read[i]) = Left(f, text, text, Keys(r), Select(r), Ignore(r))
        /\ VainOf(r, read[i]) = Vain(f, text, Select(r), Ignore(r))
    BY <2>3, <2>7, <2>8 DEF LeftOf, VainOf
  <2>10. ~ReadsNoLine(FilterByConfig(RunChecks(f, text, Keys(r)), Select(r), Ignore(r)), Lines[text])
    <3>1. ~StopsAt(r, read[i])
      BY <1>1, <1>2
    <3> QED BY <2>3, <2>7, <2>8, <3>1 DEF StopsAt
  <2>11. /\ ToSet(LeftOf(r, read[i])) =
              {InFile(f, d) : d \in {e \in ToSet(Checksum(text, Keys(r))) : Shown(e, Select(r), Ignore(r), Lines[text])}}
         /\ ToSet(VainOf(r, read[i])) =
              {InFile(f, d) : d \in {e \in ToSet(InvalidIds(Lines[text])) : Shown(e, Select(r), Ignore(r), <<>>)}}
    BY <2>7, <2>9, <2>10, SaidOfFile DEF AllSettle
  <2>12. ToSet(Checksum(text, Keys(r))) = Found(r, f)
    <3>1. Keys(r) = {NameOf(r, g) : g \in Discovered(r)}
      BY NamesAreChecked
    <3> QED BY <2>6, <2>7, <3>1, ChecksumType DEF Found
  <2>13. Expected(r, f) =
           {InFile(f, d) : d \in {e \in Found(r, f) : Shown(e, Select(r), Ignore(r), Lines[text])}
                                 \cup {e \in ToSet(InvalidIds(Lines[text])) : Shown(e, Select(r), Ignore(r), <<>>)}}
    BY <2>6 DEF Expected, Select, Ignore, EffectiveSelect, EffectiveIgnore
  <2> HIDE DEF Found, Expected
  <2> QED BY <1>6, <2>5, <2>11, <2>12, <2>13
<1> QED BY <1>5, <1>6

\* Exactly what a check prints: ReportIsWanted follows, and leaves open what Checked and the union of
\* the lists in Expected settle the way the code does.
Wanted(r, code, report) ==
  r.cmd.kind = "check" /\ code \in 0 .. 1 /\ DirectoriesOnly(r) =>
    /\ \A f \in Files \ r.touched :
         {d \in ToSet(report) : d.file = f} = IF f \in Checked(r) THEN Expected(r, f) ELSE {}
    /\ r.touched = {} => code = IF \E f \in Checked(r) : Expected(r, f) # {} THEN 1 ELSE 0

LEMMA ReportWanted ==
  ASSUME NEW r, NEW n, Rooted(r), Indexing(r, n), Reading(r), r.todo = <<>>,
         Len(r.read) = Cardinality(DOMAIN r.index), \A i \in 1 .. Len(r.read) : ~StopsAt(r, r.read[i]),
         AllSettle
  PROVE  Wanted(r, IF Sorted(Unsorted(r)) = <<>> THEN 0 ELSE 1, Sorted(Unsorted(r)))
<1>1. PICK report : report = Sorted(Unsorted(r)) /\ report \in Seq(Reported) /\ ToSet(report) = ToSet(Unsorted(r))
  BY UnsortedType, SortedPlaces, ReportedArePlaced
<1> SUFFICES ASSUME DirectoriesOnly(r)
             PROVE  /\ \A f \in Files \ r.touched :
                         {d \in ToSet(report) : d.file = f} = IF f \in Checked(r) THEN Expected(r, f) ELSE {}
                    /\ r.touched = {} => (report # <<>> <=> \E f \in Checked(r) : Expected(r, f) # {})
  BY <1>1 DEF Wanted
<1>2. \A f \in Files \ r.touched :
        {d \in ToSet(report) : d.file = f} = IF f \in Checked(r) THEN Expected(r, f) ELSE {}
  BY <1>1, ReportSays
<1>3. ASSUME r.touched = {} PROVE report # <<>> <=> \E f \in Checked(r) : Expected(r, f) # {}
  <2>1. report # <<>> <=> \E d \in ToSet(report) : TRUE
    BY <1>1 DEF ToSet
  <2>2. \A d \in ToSet(report) : d.file \in Files
    <3> SUFFICES ASSUME NEW i \in DOMAIN report PROVE report[i].file \in Files
      BY DEF ToSet
    <3>1. report[i] \in Reported
      BY <1>1, ElementType
    <3> QED BY <3>1 DEF Reported
  <2>3. Checked(r) \subseteq Files
    BY DEF Checked, Discovered
  <2>4. \A f \in Files : {d \in ToSet(report) : d.file = f} = IF f \in Checked(r) THEN Expected(r, f) ELSE {}
    BY <1>2, <1>3
  <2> HIDE DEF Expected, Checked
  <2> QED BY <2>1, <2>2, <2>3, <2>4
<1> QED BY <1>2, <1>3

\* Findings of one file stay in their order.
FilesKept(s, p, n) == \A k, l \in 1 .. n : s[k].file = s[l].file => (k < l <=> p[k] < p[l])

\* The same findings in other places, those of each file in their order
Rearranged(s, t) ==
  \E n \in Nat : \E p \in Bijection(1 .. n, 1 .. n) :
    Len(s) = n /\ Len(t) = n /\ (\A k \in 1 .. n : t[p[k]] = s[k]) /\ FilesKept(s, p, n)

\* Two flattened sequences, one after the other, are permuted each within itself.
LEMMA ConcatPermuted ==
  ASSUME NEW S, NEW a \in Seq(S), NEW b \in Seq(S), NEW c \in Seq(S), NEW d \in Seq(S),
         Rearranged(a, c), Rearranged(b, d)
  PROVE  Rearranged(a \o b, c \o d)
<1>1. PICK m \in Nat : \E f \in Bijection(1 .. m, 1 .. m) :
         Len(a) = m /\ Len(c) = m /\ (\A k \in 1 .. m : c[f[k]] = a[k]) /\ FilesKept(a, f, m)
  BY DEF Rearranged
<1>2. PICK f \in Bijection(1 .. m, 1 .. m) :
         Len(a) = m /\ Len(c) = m /\ (\A k \in 1 .. m : c[f[k]] = a[k]) /\ FilesKept(a, f, m)
  BY <1>1
<1>3. PICK n \in Nat : \E g \in Bijection(1 .. n, 1 .. n) :
         Len(b) = n /\ Len(d) = n /\ (\A k \in 1 .. n : d[g[k]] = b[k]) /\ FilesKept(b, g, n)
  BY DEF Rearranged
<1>4. PICK g \in Bijection(1 .. n, 1 .. n) :
         Len(b) = n /\ Len(d) = n /\ (\A k \in 1 .. n : d[g[k]] = b[k]) /\ FilesKept(b, g, n)
  BY <1>3
<1>5. PICK s, t : s = a \o b /\ t = c \o d
  OBVIOUS
<1>6. /\ Len(s) = m + n /\ \A k \in 1 .. m + n : s[k] = IF k <= m THEN a[k] ELSE b[k - m]
  <2>0. /\ Len(a \o b) = Len(a) + Len(b)
        /\ \A k \in 1 .. Len(a) + Len(b) : (a \o b)[k] = IF k <= Len(a) THEN a[k] ELSE b[k - Len(a)]
    BY ConcatPlaces, Zenon
  <2>1. /\ Len(a \o b) = m + n
        /\ \A k \in 1 .. m + n : (a \o b)[k] = IF k <= m THEN a[k] ELSE b[k - m]
    BY <1>2, <1>4, <2>0
  <2> QED BY <1>5, <2>1, Zenon
<1>7. /\ Len(t) = m + n /\ \A k \in 1 .. m + n : t[k] = IF k <= m THEN c[k] ELSE d[k - m]
  <2>0. /\ Len(c \o d) = Len(c) + Len(d)
        /\ \A k \in 1 .. Len(c) + Len(d) : (c \o d)[k] = IF k <= Len(c) THEN c[k] ELSE d[k - Len(c)]
    BY ConcatPlaces, Zenon
  <2>1. /\ Len(c \o d) = m + n
        /\ \A k \in 1 .. m + n : (c \o d)[k] = IF k <= m THEN c[k] ELSE d[k - m]
    BY <1>2, <1>4, <2>0
  <2> QED BY <1>5, <2>1, Zenon
<1>8. /\ \A k \in 1 .. m : f[k] \in 1 .. m
      /\ \A k, l \in 1 .. m : f[k] = f[l] => k = l
      /\ \A k \in 1 .. m : \E l \in 1 .. m : f[l] = k
  BY DEF Bijection, Injection, Surjection, IsInjective
<1>9. /\ \A k \in 1 .. n : g[k] \in 1 .. n
      /\ \A k, l \in 1 .. n : g[k] = g[l] => k = l
      /\ \A k \in 1 .. n : \E l \in 1 .. n : g[l] = k
  BY DEF Bijection, Injection, Surjection, IsInjective
<1>10. PICK p : p = [k \in 1 .. m + n |-> IF k <= m THEN f[k] ELSE m + g[k - m]]
  OBVIOUS
<1>11. \A k \in 1 .. m : k \in 1 .. m + n /\ k <= m /\ p[k] = f[k] /\ p[k] \in 1 .. m /\ s[k] = a[k]
  <2> TAKE k \in 1 .. m
  <2>1. k \in 1 .. m + n /\ k <= m
    OBVIOUS
  <2> QED BY <1>6, <1>8, <1>10, <2>1
<1>12. \A k \in 1 .. n : /\ m + k \in 1 .. m + n /\ ~(m + k <= m) /\ p[m + k] = m + g[k] /\ g[k] \in 1 .. n
                        /\ s[m + k] = b[k]
  <2> TAKE k \in 1 .. n
  <2>1. m + k \in 1 .. m + n /\ ~(m + k <= m) /\ (m + k) - m = k
    OBVIOUS
  <2> QED BY <1>6, <1>9, <1>10, <2>1
<1>13. ASSUME NEW k \in 1 .. m + n PROVE k \in 1 .. m \/ \E l \in 1 .. n : k = m + l
  <2>1. CASE k <= m
    BY <2>1
  <2>2. CASE ~(k <= m)
    <3>1. k - m \in 1 .. n /\ k = m + (k - m)
      BY <2>2
    <3> QED BY <3>1
  <2> QED BY <2>1, <2>2
<1>14. p \in [1 .. m + n -> 1 .. m + n]
  <2>1. ASSUME NEW k \in 1 .. m + n PROVE p[k] \in 1 .. m + n
    <3>1. CASE k \in 1 .. m
      <4>1. p[k] \in 1 .. m
        BY <1>11, <3>1
      <4> QED BY <4>1
    <3>2. CASE \E l \in 1 .. n : k = m + l
      <4>1. PICK l \in 1 .. n : k = m + l
        BY <3>2
      <4>2. PICK o \in 1 .. n : p[k] = m + o
        BY <1>12, <4>1
      <4> QED BY <4>2
    <3> QED BY <1>13, <3>1, <3>2
  <2> QED BY <1>10, <2>1
\* Where the parts of two places are and how they compare.
<1>15. ASSUME NEW k \in 1 .. m, NEW l \in 1 .. n PROVE k < m + l /\ p[k] < p[m + l]
  <2>1. p[k] \in 1 .. m /\ p[m + l] = m + g[l] /\ g[l] \in 1 .. n
    BY <1>11, <1>12
  <2> QED BY <2>1
<1>16. ASSUME NEW k \in 1 .. n, NEW l \in 1 .. n
       PROVE  (m + k < m + l <=> k < l) /\ (p[m + k] < p[m + l] <=> g[k] < g[l]) /\ (p[m + k] = p[m + l] => g[k] = g[l])
  <2>1. PICK x \in 1 .. n, y \in 1 .. n : x = g[k] /\ y = g[l] /\ p[m + k] = m + x /\ p[m + l] = m + y
    BY <1>12
  <2>2. m \in Nat /\ x \in Nat /\ y \in Nat /\ k \in Nat /\ l \in Nat
    OBVIOUS
  <2>3. (m + k < m + l <=> k < l) /\ (m + x < m + y <=> x < y) /\ (m + x = m + y => x = y)
    BY <2>2
  <2> QED BY <2>1, <2>3
<1>17. ASSUME NEW k \in 1 .. m + n, NEW l \in 1 .. m + n, p[k] = p[l] PROVE k = l
  <2>1. CASE k \in 1 .. m /\ l \in 1 .. m
    BY <1>8, <1>11, <1>17, <2>1
  <2>2. CASE k \in 1 .. m /\ \E o \in 1 .. n : l = m + o
    <3>1. p[k] < p[l] /\ p[k] \in 1 .. m + n
      BY <1>14, <1>15, <2>2
    <3> QED BY <1>17, <3>1
  <2>3. CASE l \in 1 .. m /\ \E o \in 1 .. n : k = m + o
    <3>1. p[l] < p[k] /\ p[k] \in 1 .. m + n
      BY <1>14, <1>15, <2>3
    <3> QED BY <1>17, <3>1
  <2>4. CASE (\E o \in 1 .. n : k = m + o) /\ \E o \in 1 .. n : l = m + o
    <3>1. PICK x \in 1 .. n, y \in 1 .. n : k = m + x /\ l = m + y
      BY <2>4
    <3>2. g[x] = g[y]
      BY <1>16, <1>17, <3>1
    <3> QED BY <1>9, <3>1, <3>2
  <2> QED BY <1>13, <2>1, <2>2, <2>3, <2>4
<1>18. ASSUME NEW k \in 1 .. m + n PROVE \E l \in 1 .. m + n : p[l] = k
  <2>1. CASE k \in 1 .. m
    BY <1>8, <1>11, <2>1
  <2>2. CASE \E o \in 1 .. n : k = m + o
    <3>1. PICK x \in 1 .. n : k = m + x
      BY <2>2
    <3>2. PICK o \in 1 .. n : g[o] = x
      BY <1>9
    <3>3. m + o \in 1 .. m + n /\ p[m + o] = k
      BY <1>12, <3>1, <3>2
    <3> QED BY <3>3
  <2> QED BY <1>13, <2>1, <2>2
<1>19. p \in Bijection(1 .. m + n, 1 .. m + n)
  BY <1>14, <1>17, <1>18 DEF Bijection, Injection, Surjection, IsInjective
<1>20. ASSUME NEW k \in 1 .. m + n PROVE t[p[k]] = s[k]
  <2>1. CASE k \in 1 .. m
    <3>1. p[k] = f[k] /\ p[k] \in 1 .. m /\ s[k] = a[k]
      BY <1>11, <2>1
    <3>2. PICK x : x = p[k]
      OBVIOUS
    <3>3. x \in 1 .. m + n /\ x <= m
      BY <3>1, <3>2
    <3>4. t[x] = c[x]
      BY <1>7, <3>3
    <3> QED BY <1>2, <2>1, <3>1, <3>2, <3>4
  <2>2. CASE \E o \in 1 .. n : k = m + o
    <3>1. PICK o \in 1 .. n : k = m + o
      BY <2>2
    <3>2. PICK x \in 1 .. n : x = g[o] /\ p[k] = m + x /\ s[k] = b[o]
      BY <1>12, <3>1
    <3>3. m + x \in 1 .. m + n /\ ~(m + x <= m) /\ (m + x) - m = x
      OBVIOUS
    <3>4. t[m + x] = d[x]
      BY <1>7, <3>3
    <3> QED BY <1>4, <3>2, <3>4
  <2> QED BY <1>13, <2>1, <2>2
<1>21. FilesKept(s, p, m + n)
  <2> SUFFICES ASSUME NEW k \in 1 .. m + n, NEW l \in 1 .. m + n, s[k].file = s[l].file
               PROVE  k < l <=> p[k] < p[l]
    BY DEF FilesKept
  <2>0. p[k] \in 1 .. m + n /\ p[l] \in 1 .. m + n
    BY <1>14
  <2>1. CASE k \in 1 .. m /\ l \in 1 .. m
    BY <1>2, <1>11, <2>1 DEF FilesKept
  <2>2. CASE k \in 1 .. m /\ \E o \in 1 .. n : l = m + o
    BY <1>15, <2>2
  <2>3. CASE l \in 1 .. m /\ \E o \in 1 .. n : k = m + o
    <3>1. l < k /\ p[l] < p[k]
      BY <1>15, <2>3
    <3> QED BY <2>0, <3>1
  <2>4. CASE (\E o \in 1 .. n : k = m + o) /\ \E o \in 1 .. n : l = m + o
    <3>1. PICK x \in 1 .. n, y \in 1 .. n : k = m + x /\ l = m + y
      BY <2>4
    <3>2. b[x].file = b[y].file
      BY <1>12, <3>1
    <3>3. x < y <=> g[x] < g[y]
      BY <1>4, <3>2 DEF FilesKept
    <3> QED BY <1>16, <3>1, <3>3
  <2> QED BY <1>13, <2>1, <2>2, <2>3, <2>4
<1>22. m + n \in Nat
  OBVIOUS
<1>23. Rearranged(s, t)
  BY <1>6, <1>7, <1>19, <1>20, <1>21, <1>22 DEF Rearranged
<1> QED BY <1>5, <1>23

\* Permuted so, the findings are sorted alike.
LEMMA SortedTogether ==
  ASSUME NEW S, Placed(S), NEW s \in Seq(S), NEW t \in Seq(S), Rearranged(s, t)
  PROVE  Sorted(t) = Sorted(s)
<1>1. PICK n \in Nat : \E p \in Bijection(1 .. n, 1 .. n) :
         Len(s) = n /\ Len(t) = n /\ (\A k \in 1 .. n : t[p[k]] = s[k]) /\ FilesKept(s, p, n)
  BY DEF Rearranged
<1>2. PICK p \in Bijection(1 .. n, 1 .. n) :
         Len(s) = n /\ Len(t) = n /\ (\A k \in 1 .. n : t[p[k]] = s[k]) /\ FilesKept(s, p, n)
  BY <1>1
<1>3. \A k \in 1 .. n : p[k] \in 1 .. n
  BY DEF Bijection, Injection
<1>4. ASSUME NEW k \in 1 .. n, NEW l \in 1 .. n PROVE Comes(t, p[k], p[l]) <=> Comes(s, k, l)
  <2>1. DOMAIN s = 1 .. n
    BY <1>2, LenProperties
  <2>2. s[k] \in S /\ s[l] \in S
    BY <2>1, ElementType
  <2>3. PICK d, e : d = s[k] /\ e = s[l]
    OBVIOUS
  <2>4. t[p[k]] = d /\ t[p[l]] = e
    BY <1>2, <2>3
  <2>5. d.file \in Nat /\ e.file \in Nat
    BY <2>2, <2>3 DEF Placed
  <2>6. Before(d, e) \/ Before(e, d) \/ d.file = e.file
    <3>1. d.file < e.file \/ e.file < d.file \/ d.file = e.file
      BY <2>5
    <3> QED BY <3>1, BeforeMeans
  <2>7. d.file = e.file => (k < l <=> p[k] < p[l])
    BY <1>2, <2>3 DEF FilesKept
  <2>8. /\ Comes(t, p[k], p[l]) <=> Before(d, e) \/ (p[k] < p[l] /\ ~Before(e, d))
        /\ Comes(s, k, l) <=> Before(d, e) \/ (k < l /\ ~Before(e, d))
    BY <2>3, <2>4 DEF Comes
  <2> QED BY <2>6, <2>7, <2>8
<1>5. /\ Len(t) = Len(s) /\ p \in Bijection(1 .. Len(s), 1 .. Len(s))
      /\ \A k \in 1 .. Len(s) : t[p[k]] = s[k]
      /\ \A k, l \in 1 .. Len(s) : Comes(t, p[k], p[l]) <=> Comes(s, k, l)
  BY <1>2, <1>4
<1> QED BY <1>5, SortedAlike

(***************************************************************************)
(* A check that nobody disturbs has one report.                            *)
(***************************************************************************)
\* What is said of the file a name stands for.
SaysLeft(r, k) ==
  Left(FirstOf(r, k), TextOf(r, FirstOf(r, k)), TextOf(r, FirstOf(r, k)), Keys(r), Select(r), Ignore(r))
SaysVain(r, k) == Vain(FirstOf(r, k), TextOf(r, FirstOf(r, k)), Select(r), Ignore(r))
Stops(r, k) ==
  ReadsNoLine(FilterByConfig(RunChecks(FirstOf(r, k), TextOf(r, FirstOf(r, k)), Keys(r)), Select(r), Ignore(r)),
              Lines[TextOf(r, FirstOf(r, k))])

\* The findings of the names in an order, those that are left and the ids named in vain
LeftIn(r, n, order) == [i \in 1 .. n |-> SaysLeft(r, order[i])]
VainIn(r, n, order) == [i \in 1 .. n |-> SaysVain(r, order[i])]
SortedIn(r, n, order) == Sorted(FlattenSeq(LeftIn(r, n, order)) \o FlattenSeq(VainIn(r, n, order)))

\* The report is that of the names in some order.
Settled(r, report) ==
  \E n \in Nat : \E order \in Bijection(1 .. n, Keys(r)) :
    report = IF \E k \in Keys(r) : Stops(r, k) THEN <<>> ELSE SortedIn(r, n, order)

\* A check that has read all its names undisturbed settles its report.
LEMMA CheckSettles ==
  ASSUME NEW r, NEW n, Rooted(r), Indexing(r, n), Reading(r), r.todo = <<>>,
         Len(r.read) = Cardinality(DOMAIN r.index), r.touched = {}
  PROVE  Settled(r, IF \E i \in 1 .. Len(r.read) : StopsAt(r, r.read[i]) THEN <<>> ELSE Sorted(Unsorted(r)))
<1>1. PICK m \in Nat : m = Len(r.read) /\ DOMAIN r.read = 1 .. m
  BY UnsortedType
<1>2. PICK read : read = r.read
  OBVIOUS
<1>3. DOMAIN r.index = Keys(r)
  BY AllIndexed
<1>4. \A i \in 1 .. m :
        /\ read[i].key \in Keys(r) /\ read[i].file = FirstOf(r, read[i].key)
        /\ read[i].text = TextOf(r, read[i].file) /\ r.index[read[i].key].text = TextOf(r, read[i].file)
  <2> SUFFICES ASSUME NEW i \in 1 .. m
               PROVE  /\ read[i].key \in Keys(r) /\ read[i].file = FirstOf(r, read[i].key)
                      /\ read[i].text = TextOf(r, read[i].file) /\ r.index[read[i].key].text = TextOf(r, read[i].file)
    OBVIOUS
  <2>1. /\ read[i].key \in Keys(r) /\ read[i].file = FirstOf(r, read[i].key)
        /\ ReadAs(r, read[i].file, read[i].text) /\ ReadAs(r, read[i].file, r.index[read[i].key].text)
    BY <1>1, <1>2, EntrySays
  <2> QED BY <2>1 DEF ReadAs
<1>5. PICK order : order = [i \in 1 .. m |-> read[i].key]
  OBVIOUS
<1>6. order \in Bijection(1 .. m, Keys(r))
  <2>1. order \in [1 .. m -> Keys(r)]
    BY <1>4, <1>5
  <2>2. \A i, j \in 1 .. m : order[i] = order[j] => i = j
    BY <1>1, <1>2, <1>5 DEF Reading
  <2>3. \A k \in Keys(r) : \E i \in 1 .. m : order[i] = k
    <3>1. \A k \in Keys(r) : \E i \in 1 .. m : read[i].key = k
      BY <1>1, <1>2, AllRead
    <3> QED BY <1>5, <3>1
  <2> QED BY <2>1, <2>2, <2>3 DEF Bijection, Injection, Surjection, IsInjective
<1>7. ASSUME NEW i \in 1 .. m
      PROVE  /\ LeftOf(r, read[i]) = SaysLeft(r, order[i]) /\ VainOf(r, read[i]) = SaysVain(r, order[i])
             /\ StopsAt(r, read[i]) <=> Stops(r, order[i])
  <2>1. PICK e, k : e = read[i] /\ k = order[i]
    OBVIOUS
  <2>2. /\ e.key = k /\ e.file = FirstOf(r, k) /\ e.text = TextOf(r, FirstOf(r, k))
        /\ r.index[k].text = TextOf(r, FirstOf(r, k))
    BY <1>4, <1>5, <2>1
  <2>3. LeftOf(r, e) = SaysLeft(r, k)
    BY <1>3, <2>2 DEF LeftOf, SaysLeft
  <2>4. VainOf(r, e) = SaysVain(r, k)
    BY <2>2 DEF VainOf, SaysVain
  <2>5. StopsAt(r, e) <=> Stops(r, k)
    BY <1>3, <2>2 DEF StopsAt, Stops
  <2> QED BY <2>1, <2>3, <2>4, <2>5
<1>8. AllLeft(r) = LeftIn(r, m, order) /\ AllVain(r) = VainIn(r, m, order)
  BY <1>1, <1>2, <1>7 DEF AllLeft, AllVain, LeftIn, VainIn
<1>9. Sorted(Unsorted(r)) = SortedIn(r, m, order)
  BY <1>8 DEF Unsorted, SortedIn
<1>10. (\E i \in 1 .. Len(r.read) : StopsAt(r, r.read[i])) <=> \E k \in Keys(r) : Stops(r, k)
  <2>1. ASSUME NEW i \in 1 .. m, StopsAt(r, read[i]) PROVE \E k \in Keys(r) : Stops(r, k)
    <3>1. order[i] \in Keys(r) /\ Stops(r, order[i])
      BY <1>4, <1>5, <1>7, <2>1
    <3> QED BY <3>1
  <2>2. ASSUME NEW k \in Keys(r), Stops(r, k) PROVE \E i \in 1 .. m : StopsAt(r, read[i])
    <3>1. PICK i \in 1 .. m : order[i] = k
      BY <1>6 DEF Bijection, Surjection
    <3> QED BY <1>7, <2>2, <3>1
  <2> QED BY <1>1, <1>2, <2>1, <2>2
<1> QED BY <1>6, <1>9, <1>10 DEF Settled

\* Findings of each name have its file.
LEMMA NameSays ==
  ASSUME NEW r, Rooted(r), NEW k \in Keys(r)
  PROVE  /\ SaysLeft(r, k) \in Seq(Reported) /\ SaysVain(r, k) \in Seq(Reported)
         /\ \A d \in ToSet(SaysLeft(r, k)) : d.file = FirstOf(r, k)
         /\ \A d \in ToSet(SaysVain(r, k)) : d.file = FirstOf(r, k)
<1>1. PICK f, text : f = FirstOf(r, k) /\ text = TextOf(r, f)
  OBVIOUS
<1>2. f \in Files /\ text \in Texts
  BY <1>1, FirstIsNamed, FindingAssumption DEF TextOf
<1>3. PICK left, vain : left = Left(f, text, text, Keys(r), Select(r), Ignore(r)) /\ vain = Vain(f, text, Select(r), Ignore(r))
  OBVIOUS
<1>4. /\ left \in Seq(Reported) /\ vain \in Seq(Reported)
      /\ (\A d \in ToSet(left) : d.file = f) /\ (\A d \in ToSet(vain) : d.file = f)
  BY <1>2, <1>3, SaidOfFile
<1>5. SaysLeft(r, k) = left /\ SaysVain(r, k) = vain
  BY <1>1, <1>3 DEF SaysLeft, SaysVain
<1> QED BY <1>1, <1>4, <1>5

\* Of the names in two orders each part of the report is one permuted, and files are kept in order.
LEMMA PartPermuted ==
  ASSUME NEW n \in Nat, NEW seqs \in Seq(Seq(Reported)), NEW others \in Seq(Seq(Reported)),
         Len(seqs) = n, Len(others) = n,
         NEW q \in Bijection(1 .. n, 1 .. n), \A i \in 1 .. n : others[q[i]] = seqs[i],
         NEW file, \A i \in 1 .. n : \A d \in ToSet(seqs[i]) : d.file = file[i],
         \A i, j \in 1 .. n : file[i] = file[j] => i = j
  PROVE  Rearranged(FlattenSeq(seqs), FlattenSeq(others))
<1>1. PICK s, t : s = FlattenSeq(seqs) /\ t = FlattenSeq(others)
  OBVIOUS
<1>2. s \in Seq(Reported)
  BY <1>1, FlattenSeqType
<1>3. PICK m \in Nat : m = Len(s)
  BY <1>2, LenProperties
<1>4. PICK row, p :
        /\ Len(t) = m /\ row \in [1 .. m -> 1 .. n] /\ p \in Bijection(1 .. m, 1 .. m)
        /\ \A k \in 1 .. m : t[p[k]] = s[k] /\ s[k] \in ToSet(seqs[row[k]])
        /\ Follows(row, p, m)
  <2>1. Interleaved(seqs, others, n)
    BY FlattenSeqPermuted
  <2> QED BY <1>1, <1>3, <2>1 DEF Interleaved
<1>5. FilesKept(s, p, m)
  <2> SUFFICES ASSUME NEW k \in 1 .. m, NEW l \in 1 .. m, s[k].file = s[l].file PROVE k < l <=> p[k] < p[l]
    BY DEF FilesKept
  <2>1. row[k] \in 1 .. n /\ row[l] \in 1 .. n
    BY <1>4
  <2>2. s[k].file = file[row[k]] /\ s[l].file = file[row[l]]
    BY <1>4, <2>1
  <2>3. row[k] = row[l]
    BY <2>1, <2>2
  <2> QED BY <1>4, <2>3 DEF Follows
<1>6. Rearranged(s, t)
  BY <1>3, <1>4, <1>5 DEF Rearranged
<1> QED BY <1>1, <1>6

\* The order does not matter.
LEMMA SortedInAnyOrder ==
  ASSUME NEW r, Rooted(r), NEW n \in Nat, NEW o \in Bijection(1 .. n, Keys(r)), NEW u \in Bijection(1 .. n, Keys(r)),
         NEW q \in Bijection(1 .. n, 1 .. n), \A i \in 1 .. n : u[q[i]] = o[i]
  PROVE  SortedIn(r, n, u) = SortedIn(r, n, o)
<1>1. PICK a, b, c, d : a = LeftIn(r, n, o) /\ b = VainIn(r, n, o) /\ c = LeftIn(r, n, u) /\ d = VainIn(r, n, u)
  OBVIOUS
<1>2. /\ \A i \in 1 .. n : a[i] = SaysLeft(r, o[i]) /\ b[i] = SaysVain(r, o[i])
      /\ \A i \in 1 .. n : c[i] = SaysLeft(r, u[i]) /\ d[i] = SaysVain(r, u[i])
  BY <1>1 DEF LeftIn, VainIn
<1>3. /\ \A i \in 1 .. n : o[i] \in Keys(r) /\ u[i] \in Keys(r) /\ q[i] \in 1 .. n
      /\ \A i, j \in 1 .. n : o[i] = o[j] => i = j
  BY DEF Bijection, Injection, IsInjective
<1>4. \A k \in Keys(r) : SaysLeft(r, k) \in Seq(Reported) /\ SaysVain(r, k) \in Seq(Reported)
  BY NameSays
<1>5. /\ a \in Seq(Seq(Reported)) /\ Len(a) = n /\ b \in Seq(Seq(Reported)) /\ Len(b) = n
      /\ c \in Seq(Seq(Reported)) /\ Len(c) = n /\ d \in Seq(Seq(Reported)) /\ Len(d) = n
  <2>1. /\ a \in [1 .. n -> Seq(Reported)] /\ b \in [1 .. n -> Seq(Reported)]
        /\ c \in [1 .. n -> Seq(Reported)] /\ d \in [1 .. n -> Seq(Reported)]
    BY <1>1, <1>3, <1>4 DEF LeftIn, VainIn
  <2> QED BY <2>1
<1>6. PICK file : file = [i \in 1 .. n |-> FirstOf(r, o[i])]
  OBVIOUS
<1>7. \A i, j \in 1 .. n : file[i] = file[j] => i = j
  <2> SUFFICES ASSUME NEW i \in 1 .. n, NEW j \in 1 .. n, file[i] = file[j] PROVE i = j
    OBVIOUS
  <2>1. KeyOf(r, FirstOf(r, o[i])) = o[i] /\ KeyOf(r, FirstOf(r, o[j])) = o[j]
    BY <1>3, FirstIsNamed
  <2>2. FirstOf(r, o[i]) = FirstOf(r, o[j])
    BY <1>6
  <2> QED BY <1>3, <2>1, <2>2
<1>8. ASSUME NEW i \in 1 .. n
      PROVE  /\ c[q[i]] = a[i] /\ d[q[i]] = b[i]
             /\ \A x \in ToSet(a[i]) : x.file = file[i]
             /\ \A x \in ToSet(b[i]) : x.file = file[i]
  <2>1. o[i] \in Keys(r) /\ u[q[i]] = o[i] /\ file[i] = FirstOf(r, o[i]) /\ q[i] \in 1 .. n
    BY <1>3, <1>6
  <2>2. a[i] = SaysLeft(r, o[i]) /\ b[i] = SaysVain(r, o[i]) /\ c[q[i]] = SaysLeft(r, o[i]) /\ d[q[i]] = SaysVain(r, o[i])
    BY <1>2, <2>1
  <2> QED BY <2>1, <2>2, NameSays
<1>9. PICK s, t, v, w : s = FlattenSeq(a) /\ t = FlattenSeq(b) /\ v = FlattenSeq(c) /\ w = FlattenSeq(d)
  OBVIOUS
<1>10. s \in Seq(Reported) /\ t \in Seq(Reported) /\ v \in Seq(Reported) /\ w \in Seq(Reported)
  BY <1>5, <1>9, FlattenSeqType
<1>11. Rearranged(s, v)
  <2>1. (\A i \in 1 .. n : c[q[i]] = a[i]) /\ \A i \in 1 .. n : \A x \in ToSet(a[i]) : x.file = file[i]
    BY <1>8
  <2> QED BY <1>5, <1>7, <1>9, <2>1, PartPermuted
<1>12. Rearranged(t, w)
  <2>1. (\A i \in 1 .. n : d[q[i]] = b[i]) /\ \A i \in 1 .. n : \A x \in ToSet(b[i]) : x.file = file[i]
    BY <1>8
  <2> QED BY <1>5, <1>7, <1>9, <2>1, PartPermuted
<1>13. Rearranged(s \o t, v \o w)
  BY <1>10, <1>11, <1>12, ConcatPermuted
<1>14. PICK x, y : x = s \o t /\ y = v \o w
  OBVIOUS
<1>15. x \in Seq(Reported) /\ y \in Seq(Reported)
  BY <1>10, <1>14, ConcatElements
<1>16. Sorted(y) = Sorted(x)
  BY <1>13, <1>14, <1>15, SortedTogether, ReportedArePlaced
<1> QED BY <1>1, <1>9, <1>14, <1>16 DEF SortedIn

\* The same check of the same files settles one report.
LEMMA SettledOnce ==
  ASSUME NEW r, NEW s, Rooted(r), SameCheck(r, s), NEW a, NEW b, Settled(r, a), Settled(s, b)
  PROVE  a = b
<1>1. /\ Keys(s) = Keys(r) /\ (\A k : FirstOf(s, k) = FirstOf(r, k)) /\ (\A f : TextOf(s, f) = TextOf(r, f))
      /\ Select(s) = Select(r) /\ Ignore(s) = Ignore(r)
  <2>1. Keys(s) = Keys(r) /\ (\A k : FirstOf(s, k) = FirstOf(r, k)) /\ (\A f : TextOf(s, f) = TextOf(r, f))
    BY SameNames
  <2> QED BY <2>1 DEF SameCheck, Select, Ignore
<1>2. \A k : SaysLeft(s, k) = SaysLeft(r, k) /\ SaysVain(s, k) = SaysVain(r, k) /\ (Stops(s, k) <=> Stops(r, k))
  BY <1>1 DEF SaysLeft, SaysVain, Stops
<1>3. \A n, order : SortedIn(s, n, order) = SortedIn(r, n, order)
  <2>1. \A n, order : LeftIn(s, n, order) = LeftIn(r, n, order) /\ VainIn(s, n, order) = VainIn(r, n, order)
    BY <1>2 DEF LeftIn, VainIn
  <2> QED BY <2>1 DEF SortedIn
<1>4. PICK m \in Nat : \E o \in Bijection(1 .. m, Keys(r)) :
        a = IF \E k \in Keys(r) : Stops(r, k) THEN <<>> ELSE SortedIn(r, m, o)
  BY DEF Settled
<1>5. PICK o \in Bijection(1 .. m, Keys(r)) :
        a = IF \E k \in Keys(r) : Stops(r, k) THEN <<>> ELSE SortedIn(r, m, o)
  BY <1>4
<1>6. PICK n \in Nat : \E u \in Bijection(1 .. n, Keys(s)) :
        b = IF \E k \in Keys(s) : Stops(s, k) THEN <<>> ELSE SortedIn(s, n, u)
  BY DEF Settled
<1>7. PICK u \in Bijection(1 .. n, Keys(r)) :
        b = IF \E k \in Keys(r) : Stops(r, k) THEN <<>> ELSE SortedIn(r, n, u)
  BY <1>1, <1>2, <1>3, <1>6
<1>8. m = n /\ \E q \in Bijection(1 .. n, 1 .. n) : \A i \in 1 .. n : u[q[i]] = o[i]
  BY OrdersPermute
<1>9. SortedIn(r, n, u) = SortedIn(r, n, o)
  BY <1>8, SortedInAnyOrder
<1> QED BY <1>5, <1>7, <1>8, <1>9

(***************************************************************************)
(* A check from its start to its report.                                   *)
(***************************************************************************)
\* What a check is refused for
Refused(r) ==
  \/ ~r.cmd.usage
  \/ \E i \in DOMAIN r.cmd.paths : r.cmd.paths[i] \in Files /\ r.before[r.cmd.paths[i]] = Absent
  \/ r.config = Bad

\* The files are those of the start, but for those the user has edited.
Undisturbed(r, files) == \A f \in Files \ r.touched : files[f] = r.before[f]

Going(r, files) ==
  /\ Rooted(r) /\ ~Refused(r)
  /\ Undisturbed(r, files)
  /\ (\E n : Indexing(r, n)) /\ Reading(r)

\* The report says what is wanted, and if nobody disturbed the check it is the only one.
CheckVerdict(r, code, report) ==
  /\ AllSettle => Wanted(r, code, report)
  /\ r.touched = {} => IF Refused(r) THEN report = <<>> ELSE Rooted(r) /\ Settled(r, report)

CheckUnderway == run.at = "index" => run.config = ResolveConfig(run.cmd) /\ Going(run, disk)

CheckJudgement(r) == r.cmd.kind = "check" => r.config = ResolveConfig(r.cmd) /\ CheckVerdict(r, r.code, r.report)

CheckJudgements == \A i \in 1 .. Len(history) : CheckJudgement(history[i])

CInv == IInv /\ CheckUnderway /\ CheckJudgements

\* A verdict depends on the command, its configuration, the files it started with and the edits.
LEMMA SameVerdict ==
  ASSUME NEW r, NEW s, SameCheck(r, s), s.touched = r.touched, NEW code, NEW report, CheckVerdict(r, code, report)
  PROVE  CheckVerdict(s, code, report)
<1>1. (Rooted(s) <=> Rooted(r)) /\ (Refused(s) <=> Refused(r)) /\ (DirectoriesOnly(s) <=> DirectoriesOnly(r))
  BY DEF SameCheck, Rooted, Refused, DirectoriesOnly
<1>2. /\ Keys(s) = Keys(r) /\ (\A k : FirstOf(s, k) = FirstOf(r, k)) /\ (\A f : TextOf(s, f) = TextOf(r, f))
      /\ Select(s) = Select(r) /\ Ignore(s) = Ignore(r)
  <2>1. Keys(s) = Keys(r) /\ (\A k : FirstOf(s, k) = FirstOf(r, k)) /\ (\A f : TextOf(s, f) = TextOf(r, f))
    BY SameNames
  <2> QED BY <2>1 DEF SameCheck, Select, Ignore
<1>3. Settled(r, report) => Settled(s, report)
  <2>1. \A k : SaysLeft(s, k) = SaysLeft(r, k) /\ SaysVain(s, k) = SaysVain(r, k) /\ (Stops(s, k) <=> Stops(r, k))
    BY <1>2 DEF SaysLeft, SaysVain, Stops
  <2>2. \A n, order : LeftIn(s, n, order) = LeftIn(r, n, order) /\ VainIn(s, n, order) = VainIn(r, n, order)
    BY <2>1 DEF LeftIn, VainIn
  <2>3. \A n, order : SortedIn(s, n, order) = SortedIn(r, n, order)
    BY <2>2 DEF SortedIn
  <2> QED BY <1>2, <2>1, <2>3 DEF Settled
<1>4. Discovered(s) = Discovered(r) /\ \A f : FirstBelow(s, f) = FirstBelow(r, f) /\ NameOf(s, f) = NameOf(r, f)
  <2>1. \A f : Below(s, f) = Below(r, f)
    BY DEF SameCheck, Below
  <2>2. \A f : FirstBelow(s, f) = FirstBelow(r, f)
    BY <2>1 DEF FirstBelow
  <2>3. Discovered(s) = Discovered(r)
    BY <2>1 DEF SameCheck, Discovered
  <2>4. \A f : NameOf(s, f) = NameOf(r, f)
    BY <2>2 DEF SameCheck, NameOf
  <2> QED BY <2>2, <2>3, <2>4
<1>5. Checked(s) = Checked(r)
  BY <1>4 DEF Checked
<1>6. \A f : Found(s, f) = Found(r, f)
  BY <1>2, <1>4 DEF Found
<1>7. \A f : Expected(s, f) = Expected(r, f)
  <2>1. s.config = r.config /\ s.cmd = r.cmd
    BY DEF SameCheck
  <2> SUFFICES ASSUME NEW f PROVE Expected(s, f) = Expected(r, f)
    OBVIOUS
  <2>2. Found(s, f) = Found(r, f) /\ TextOf(s, f) = TextOf(r, f)
    BY <1>2, <1>6
  <2> QED BY <2>1, <2>2, Zenon DEF Expected
<1>8. Wanted(r, code, report) => Wanted(s, code, report)
  <2>1. s.cmd = r.cmd
    BY DEF SameCheck
  <2> QED BY <1>1, <1>5, <1>7, <2>1 DEF Wanted
<1> QED BY <1>1, <1>3, <1>8 DEF CheckVerdict

\* A command that ends adds its judgement to those before it.
LEMMA ExitChecked ==
  ASSUME CInv, NEW r, NEW code, NEW report, NEW after, Exit(r, code, report, after), configs' = configs,
         r.cmd.kind = "check" => r.config = ResolveConfig(r.cmd) /\ CheckVerdict(r, code, report)
  PROVE  CheckUnderway' /\ CheckJudgements'
<1> DEFINE new == [cmd |-> r.cmd, config |-> r.config, before |-> r.before, touched |-> r.touched,
                   after |-> after, code |-> code, report |-> report]
<1>1. run'.at = "idle" /\ history' = Append(history, new)
  BY DEF Exit, Idle
<1>2. /\ new.cmd = r.cmd /\ new.config = r.config /\ new.before = r.before
      /\ new.touched = r.touched /\ new.code = code /\ new.report = report
  OBVIOUS
<1> HIDE DEF new
<1>3. CheckJudgement(new)
  <2>1. SameCheck(r, new)
    BY <1>2 DEF SameCheck
  <2>2. CheckVerdict(r, code, report) => CheckVerdict(new, code, report)
    BY <1>2, <2>1, SameVerdict
  <2> QED BY <1>2, <2>2 DEF CheckJudgement
<1>4. PICK S : history \in Seq(S)
  BY DEF CInv, IInv
<1>5. /\ Len(history) \in Nat /\ Len(history') = Len(history) + 1 /\ history'[Len(history) + 1] = new
      /\ \A i \in 1 .. Len(history) : history'[i] = history[i]
  BY <1>1, <1>4
<1>6. \A x : CheckJudgement(x) => CheckJudgement(x)'
  BY DEF CheckJudgement, ResolveConfig
<1>7. \A i \in 1 .. Len(history') : CheckJudgement(history'[i])
  BY <1>3, <1>5 DEF CInv, CheckJudgements
<1>8. CheckJudgements'
  BY <1>6, <1>7 DEF CheckJudgements
<1> QED BY <1>1, <1>8 DEF CheckUnderway

\* The roots of a check that is not refused are paths.
LEMMA CheckIsRooted ==
  ASSUME configs \in Layouts, NEW c \in Commands, NEW r, r.cmd = c, r.config = ResolveConfig(c), r.config # Bad
  PROVE  Rooted(r)
<1>1. CASE c.paths # <<>>
  BY <1>1, CheckAssumption DEF Rooted, Roots
<1>2. CASE c.paths = <<>>
  <2>1. DOMAIN c.paths = {}
    BY <1>2
  <2>2. ResolveConfig(c) = IF c.config # None THEN c.config ELSE IF configs[CWD] # None THEN configs[CWD] ELSE DefaultConfig
    BY <2>1 DEF ResolveConfig
  <2>3. r.config \in {DefaultConfig} \cup {d.config : d \in Commands} \cup {l[CWD] : l \in Layouts}
    BY <2>2
  <2>4. r.config # None
    BY <2>2, FormatAssumption
  <2>5. r.config.templates \in Seq(Files \cup Dirs)
    BY <2>3, <2>4, FormatAssumption
  <2> QED BY <1>2, <2>5 DEF Rooted, Roots
<1> QED BY <1>1, <1>2

\* A check that starts has indexed nothing, and one that is refused reports nothing.
LEMMA StartCheckChecked ==
  ASSUME CInv, run = Idle, NEW c \in Commands, StartCheck(c), UNCHANGED <<disk, configs, edits>>
  PROVE  CheckUnderway' /\ CheckJudgements'
<1>1. PICK config : config = ResolveConfig(c)
  OBVIOUS
<1>2. PICK missing : missing = \E i \in DOMAIN c.paths : c.paths[i] \in Files /\ disk[c.paths[i]] = Absent
  OBVIOUS
<1>3. CASE (~c.usage \/ missing \/ config = Bad) /\ Exit(Started(c, config), 2, <<>>, disk)
  <2>1. PICK r : r = Started(c, config)
    OBVIOUS
  <2>2. r.cmd = c /\ r.config = config /\ r.before = disk
    BY <2>1 DEF Started
  <2>3. Refused(r)
    BY <1>2, <1>3, <2>2 DEF Refused
  <2>4. CheckVerdict(r, 2, <<>>)
    BY <2>3 DEF CheckVerdict, Wanted
  <2> QED BY <1>1, <1>3, <2>1, <2>2, <2>4, ExitChecked
<1>4. CASE /\ ~(~c.usage \/ missing \/ config = Bad)
           /\ run' = [cmd |-> c, config |-> config, before |-> disk, touched |-> {},
                      at |-> "index", todo |-> DiscoverTemplates(Present(disk), Roots(c, config), config),
                      index |-> <<>>, read |-> <<>>]
           /\ UNCHANGED history
  <2>1. PICK r : r = run'
    OBVIOUS
  <2>2. /\ r.cmd = c /\ r.config = config /\ r.before = disk /\ r.index = <<>> /\ r.read = <<>>
        /\ r.todo = DiscoverTemplates(Present(disk), Roots(c, config), config)
    BY <1>4, <2>1
  <2>3. ~Refused(r)
    BY <1>2, <1>4, <2>2 DEF Refused
  <2>4. Rooted(r)
    BY <1>1, <1>4, <2>2, CheckIsRooted DEF CInv, IInv
  <2>5. Undisturbed(r, disk)
    BY <2>2 DEF Undisturbed
  <2>6. Indexing(r, 0)
    <3>1. PICK list : list = List(r) /\ list \in Seq(Files)
      BY <2>4, ListFollowsRoots
    <3>2. PICK m \in Nat : m = Len(list)
      BY <3>1, LenProperties
    <3>3. r.todo = list
      BY <2>2, <3>1 DEF List
    <3>4. 0 \in 0 .. m /\ m - 0 = m /\ (\A i \in 1 .. m : 0 + i = i) /\ 1 .. 0 = {} /\ DOMAIN r.index = {}
      BY <2>2
    <3> QED BY <3>1, <3>2, <3>3, <3>4 DEF Indexing
  <2>7. Reading(r)
    <3>1. r.read \in Seq({}) /\ 1 .. Len(r.read) = {}
      BY <2>2
    <3> QED BY <2>2, <3>1 DEF Reading
  <2>8. Going(run', disk')
    BY <2>1, <2>3, <2>4, <2>5, <2>6, <2>7 DEF Going
  <2>9. (run.config = ResolveConfig(run.cmd))'
    <3>1. run'.cmd = c /\ run'.config = ResolveConfig(c)
      BY <1>1, <2>1, <2>2
    <3> QED BY <3>1 DEF ResolveConfig
  <2>10. \A x : CheckJudgement(x) => CheckJudgement(x)'
    BY DEF CheckJudgement, ResolveConfig
  <2>11. history' = history
    BY <1>4
  <2> QED BY <2>8, <2>9, <2>10, <2>11 DEF CInv, CheckUnderway, CheckJudgements
<1> QED BY <1>1, <1>2, <1>3, <1>4 DEF StartCheck

\* What a check reads of a file that is as it was is its text of the start.
LEMMA ReadNow ==
  ASSUME NEW r, Undisturbed(r, disk), NEW f \in Files
  PROVE  ReadAs(r, f, ReadOrEmpty(f))
<1>1. ReadOrEmpty(f) \in Texts
  BY FindingAssumption DEF ReadOrEmpty
<1>2. f \notin r.touched => disk[f] = r.before[f]
  BY DEF Undisturbed
<1> QED BY <1>1, <1>2 DEF ReadAs, ReadOrEmpty, TextOf

\* The check is the same a step later.
LEMMA GoesOn ==
  ASSUME NEW r, NEW s, SameCheck(r, s), s.touched = r.touched, NEW files, Going(r, files)
  PROVE  Rooted(s) /\ ~Refused(s) /\ Undisturbed(s, files)
<1>1. Rooted(s) /\ ~Refused(s)
  BY DEF Going, SameCheck, Rooted, Refused
<1>2. Undisturbed(s, files)
  BY DEF Going, SameCheck, Undisturbed
<1> QED BY <1>1, <1>2

\* What a step of a check that indexes a file leaves.
LEMMA IndexMoves ==
  ASSUME IInv, IndexFile
  PROVE  /\ SameCheck(run, run') /\ run'.touched = run.touched /\ run'.at = run.at
         /\ run'.read = run.read /\ run'.todo = Tail(run.todo)
         /\ run'.index = Indexed(run.index, KeyOf(run, Head(run.todo)),
                                 [file |-> Head(run.todo), text |-> ReadOrEmpty(Head(run.todo))])
<1>1. PICK V : run \in [CheckFields -> V]
  BY DEF IndexFile, IInv, Checking
<1> DEFINE todo == Tail(run.todo)
           index == Indexed(run.index, KeyOf(run, Head(run.todo)),
                            [file |-> Head(run.todo), text |-> ReadOrEmpty(Head(run.todo))])
           next == [run EXCEPT !.todo = todo]
<1>2. run' = [next EXCEPT !.index = index]
  BY DEF IndexFile, KeyOf
<1> HIDE DEF todo, index
<1>3. next \in [CheckFields -> V \cup {todo}] /\ next.todo = todo
      /\ \A j \in CheckFields \ {"todo"} : next[j] = run[j]
  BY <1>1, FieldSet DEF CheckFields, Common
<1> HIDE DEF next
<1>4. run'.index = index /\ \A j \in CheckFields \ {"index"} : run'[j] = next[j]
  BY <1>2, <1>3, FieldSet DEF CheckFields, Common
<1>5. /\ run'.cmd = run.cmd /\ run'.config = run.config /\ run'.before = run.before
      /\ run'.touched = run.touched /\ run'.at = run.at /\ run'.read = run.read /\ run'.todo = todo
  BY <1>3, <1>4 DEF CheckFields, Common
<1> QED BY <1>4, <1>5 DEF SameCheck, todo, index

\* The next file is indexed.
LEMMA IndexChecked ==
  ASSUME CInv, IndexFile
  PROVE  CheckUnderway' /\ CheckJudgements'
<1>1. run.at = "index" /\ run.todo # <<>> /\ UNCHANGED <<disk, configs, history>>
  BY DEF IndexFile
<1>2. PICK r, s : r = run /\ s = run'
  OBVIOUS
<1>3. r.config = ResolveConfig(r.cmd) /\ Going(r, disk)
  BY <1>1, <1>2 DEF CInv, CheckUnderway
<1>4. PICK f : f = Head(r.todo)
  OBVIOUS
<1>5. /\ SameCheck(r, s) /\ s.touched = r.touched /\ s.at = "index"
      /\ s.read = r.read /\ s.todo = Tail(r.todo)
      /\ s.index = Indexed(r.index, KeyOf(r, f), [file |-> f, text |-> ReadOrEmpty(f)])
  BY <1>1, <1>2, <1>4, IndexMoves DEF CInv
<1>6. PICK n : Indexing(r, n)
  BY <1>3 DEF Going
<1>7. f \in Files
  <2>1. PICK todo : todo = r.todo /\ todo \in Seq(Files) /\ todo # <<>>
    BY <1>1, <1>2, <1>6 DEF Indexing
  <2> QED BY <1>4, <2>1, HeadAndTail
<1>8. ReadAs(r, f, ReadOrEmpty(f))
  BY <1>3, <1>7, ReadNow DEF Going
<1>9. PICK text : text = ReadOrEmpty(f)
  OBVIOUS
<1>10. Indexing(s, n + 1)
  <2>1. Rooted(r) /\ r.todo # <<>> /\ ReadAs(r, Head(r.todo), text)
        /\ s.index = Indexed(r.index, KeyOf(r, Head(r.todo)), [file |-> Head(r.todo), text |-> text])
    BY <1>1, <1>2, <1>3, <1>4, <1>5, <1>8, <1>9 DEF Going
  <2> QED BY <1>5, <1>6, <2>1, IndexGoesOn
<1>11. Reading(s)
  <2>1. r.read = <<>>
    BY <1>1, <1>2, <1>3 DEF Going, Reading
  <2>2. s.read \in Seq({}) /\ 1 .. Len(s.read) = {}
    BY <1>5, <2>1
  <2> QED BY <1>5, <2>1, <2>2 DEF Reading
<1>12. Going(s, disk')
  BY <1>1, <1>3, <1>5, <1>10, <1>11, GoesOn DEF Going
<1>13. (run.config = ResolveConfig(run.cmd))'
  <2>1. run'.cmd = r.cmd /\ run'.config = ResolveConfig(r.cmd)
    BY <1>2, <1>3, <1>5 DEF SameCheck
  <2> QED BY <1>1, <2>1 DEF ResolveConfig
<1>14. \A x : CheckJudgement(x) => CheckJudgement(x)'
  BY <1>1 DEF CheckJudgement, ResolveConfig
<1> QED BY <1>1, <1>2, <1>12, <1>13, <1>14 DEF CInv, CheckUnderway, CheckJudgements

\* What a step of a check that reads an entry leaves.
LEMMA CollectMoves ==
  ASSUME IInv, NEW read, run.at = "index", run' = [run EXCEPT !.read = read]
  PROVE  /\ SameCheck(run, run') /\ run'.touched = run.touched /\ run'.at = run.at
         /\ run'.todo = run.todo /\ run'.index = run.index /\ run'.read = read
<1>1. PICK V : run \in [CheckFields -> V]
  BY DEF IInv, Checking
<1>2. run'.read = read /\ \A j \in CheckFields \ {"read"} : run'[j] = run[j]
  BY <1>1, FieldSet DEF CheckFields, Common
<1> QED BY <1>2 DEF CheckFields, Common, SameCheck

\* Another name is read.
LEMMA CollectChecked ==
  ASSUME CInv, CollectFile
  PROVE  CheckUnderway' /\ CheckJudgements'
<1>1. run.at = "index" /\ run.todo = <<>> /\ UNCHANGED <<disk, configs, history>>
  BY DEF CollectFile
<1>2. PICK r, s : r = run /\ s = run'
  OBVIOUS
<1>3. r.config = ResolveConfig(r.cmd) /\ Going(r, disk)
  BY <1>1, <1>2 DEF CInv, CheckUnderway
<1>4. PICK key \in DOMAIN run.index \ {run.read[i].key : i \in DOMAIN run.read} :
        run' = [run EXCEPT !.read = Append(@, [key |-> key, file |-> run.index[key].file,
                                               text |-> ReadOrEmpty(run.index[key].file)])]
  BY Zenon DEF CollectFile
<1>5. key \in DOMAIN r.index /\ \A i \in DOMAIN r.read : r.read[i].key # key
  <2>1. key \in DOMAIN run.index /\ \A i \in DOMAIN run.read : run.read[i].key # key
    BY Zenon
  <2> QED BY <1>2, <2>1
<1>6. PICK read : read = Append(r.read, [key |-> key, file |-> r.index[key].file,
                                         text |-> ReadOrEmpty(r.index[key].file)])
  OBVIOUS
<1>7. run' = [run EXCEPT !.read = read]
  BY <1>2, <1>4, <1>6
<1>8. /\ SameCheck(r, s) /\ s.touched = r.touched /\ s.at = "index"
      /\ s.todo = r.todo /\ s.index = r.index /\ s.read = read
  BY <1>1, <1>2, <1>7, CollectMoves DEF CInv
<1>9. PICK n : Indexing(r, n)
  BY <1>3 DEF Going
<1>10. PICK f : f = r.index[key].file
  OBVIOUS
<1>11. f \in Files
  <2>1. DOMAIN r.index = Keys(r) /\ f = FirstOf(r, key)
    <3>1. DOMAIN r.index = Keys(r)
      BY <1>1, <1>2, <1>3, <1>9, AllIndexed DEF Going
    <3> QED BY <1>5, <1>9, <1>10, <3>1 DEF Indexing
  <2> QED BY <1>3, <1>5, <2>1, FirstIsNamed DEF Going
<1>12. PICK text : text = ReadOrEmpty(f)
  OBVIOUS
<1>13. ReadAs(r, f, text)
  BY <1>3, <1>11, <1>12, ReadNow DEF Going
<1>14. \A i \in 1 .. Len(r.read) : r.read[i].key # key
  <2>1. PICK old : old = r.read
    OBVIOUS
  <2>2. DOMAIN old = 1 .. Len(old)
    BY <1>3, <2>1, LenProperties DEF Going, Reading
  <2> QED BY <1>5, <2>1, <2>2
<1>15. Indexing(s, n) /\ Reading(s)
  <2>1. /\ Rooted(r) /\ Reading(r) /\ r.todo = <<>> /\ key \in DOMAIN r.index /\ ReadAs(r, r.index[key].file, text)
        /\ s.read = Append(r.read, [key |-> key, file |-> r.index[key].file, text |-> text])
    BY <1>1, <1>2, <1>3, <1>5, <1>6, <1>8, <1>10, <1>12, <1>13 DEF Going
  <2> QED BY <1>8, <1>9, <1>14, <2>1, ReadGoesOn
<1>16. Going(s, disk')
  BY <1>1, <1>3, <1>8, <1>15, GoesOn DEF Going
<1>17. (run.config = ResolveConfig(run.cmd))'
  <2>1. run'.cmd = r.cmd /\ run'.config = ResolveConfig(r.cmd)
    BY <1>2, <1>3, <1>8 DEF SameCheck
  <2> QED BY <1>1, <2>1 DEF ResolveConfig
<1>18. \A x : CheckJudgement(x) => CheckJudgement(x)'
  BY <1>1 DEF CheckJudgement, ResolveConfig
<1> QED BY <1>1, <1>2, <1>16, <1>17, <1>18 DEF CInv, CheckUnderway, CheckJudgements

\* What has been read is reported, sorted, unless a finding is on a line that is not there.
LEMMA ReportChecked ==
  ASSUME CInv, ReportFindings
  PROVE  CheckUnderway' /\ CheckJudgements'
<1>1. /\ run.at = "index" /\ run.todo = <<>> /\ Len(run.read) = Cardinality(DOMAIN run.index)
      /\ UNCHANGED <<disk, configs>>
  BY DEF ReportFindings
<1>2. PICK r : r = run
  OBVIOUS
<1>3. r.config = ResolveConfig(r.cmd) /\ Going(r, disk)
  BY <1>1, <1>2 DEF CInv, CheckUnderway
<1>4. PICK n : Indexing(r, n)
  BY <1>3 DEF Going
<1>5. Rooted(r) /\ Reading(r) /\ ~Refused(r) /\ r.todo = <<>> /\ Len(r.read) = Cardinality(DOMAIN r.index)
  BY <1>1, <1>2, <1>3 DEF Going
<1>6. DOMAIN r.read = 1 .. Len(r.read)
  BY <1>4, <1>5, UnsortedType
<1>7. Panics <=> \E i \in 1 .. Len(r.read) : StopsAt(r, r.read[i])
  BY <1>2, <1>6 DEF Panics, StopsAt, FilteredOf, Select, Ignore
<1>8. Report = Sorted(Unsorted(r))
  <2>1. \A e : SuppressByNoqa(FilteredOf(e), Lines[e.text]) = LeftOf(r, e)
    BY <1>2 DEF FilteredOf, LeftOf, Left, Select, Ignore
  <2>2. \A e : InvalidOf(e) = VainOf(r, e)
    BY <1>2 DEF InvalidOf, VainOf, Vain, Select, Ignore
  <2>3. /\ AllLeft(r) = [i \in DOMAIN run.read |-> SuppressByNoqa(FilteredOf(run.read[i]), Lines[run.read[i].text])]
        /\ AllVain(r) = [i \in DOMAIN run.read |-> InvalidOf(run.read[i])]
    BY <1>2, <2>1, <2>2 DEF AllLeft, AllVain
  <2> QED BY <2>3 DEF Report, Unsorted
<1>9. r.touched = {} =>
        Settled(r, IF \E i \in 1 .. Len(r.read) : StopsAt(r, r.read[i]) THEN <<>> ELSE Sorted(Unsorted(r)))
  BY <1>4, <1>5, CheckSettles
<1>10. CASE Panics /\ Exit(run, PanicCode, <<>>, disk)
  <2>1. Wanted(r, PanicCode, <<>>)
    BY DEF Wanted, PanicCode
  <2>2. CheckVerdict(r, PanicCode, <<>>)
    BY <1>5, <1>7, <1>9, <1>10, <2>1 DEF CheckVerdict
  <2> QED BY <1>1, <1>2, <1>3, <1>10, <2>2, ExitChecked
<1>11. CASE ~Panics /\ Exit(run, IF Report = <<>> THEN 0 ELSE 1, Report, disk)
  <2>1. PICK code, report : code = (IF Report = <<>> THEN 0 ELSE 1) /\ report = Report
    OBVIOUS
  <2>2. ASSUME AllSettle PROVE Wanted(r, code, report)
    <3>1. \A i \in 1 .. Len(r.read) : ~StopsAt(r, r.read[i])
      BY <1>7, <1>11
    <3>2. Wanted(r, IF Sorted(Unsorted(r)) = <<>> THEN 0 ELSE 1, Sorted(Unsorted(r)))
      BY <1>4, <1>5, <2>2, <3>1, ReportWanted
    <3> QED BY <1>8, <2>1, <3>2
  <2>3. CheckVerdict(r, code, report)
    BY <1>5, <1>7, <1>8, <1>9, <1>11, <2>1, <2>2 DEF CheckVerdict
  <2>4. Exit(r, code, report, disk)
    BY <1>2, <1>11, <2>1
  <2> QED BY <1>1, <1>3, <2>3, <2>4, ExitChecked
<1> QED BY <1>10, <1>11 DEF ReportFindings

\* The steps of a format say nothing of a check.
LEMMA FormatChecked ==
  ASSUME CInv, IInv', FormatRead \/ FormatWrite \/ FormatDone
  PROVE  CheckUnderway' /\ CheckJudgements'
<1>1. run.at \in {"read", "write"} /\ run.cmd.kind = "format" /\ configs' = configs
  BY DEF FormatRead, FormatWrite, FormatDone, CInv, IInv, Formatting
<1>2. CASE \E code, report, after : Exit(run, code, report, after)
  BY <1>1, <1>2, ExitChecked
<1>3. CASE run'.at \in {"read", "write"} /\ history' = history
  <2>1. \A x : CheckJudgement(x) => CheckJudgement(x)'
    BY <1>1 DEF CheckJudgement, ResolveConfig
  <2> QED BY <1>3, <2>1 DEF CInv, CheckUnderway, CheckJudgements
<1>4. CASE FormatRead
  <2>1. CASE disk[Head(run.todo)] \in Texts
    <3>1. run'.at = "write"
      BY <1>4, <2>1, ReadMoves DEF CInv
    <3>2. history' = history
      BY <1>4, <2>1 DEF FormatRead
    <3> QED BY <1>3, <3>1, <3>2
  <2>2. CASE disk[Head(run.todo)] \notin Texts
    BY <1>2, <1>4, <2>2 DEF FormatRead
  <2> QED BY <2>1, <2>2
<1>5. CASE FormatWrite
  <2>1. CASE Fails(HeadTarget)
    BY <1>2, <1>5, <2>1 DEF FormatWrite, HeadTarget, HeadChanges
  <2>2. CASE ~Fails(HeadTarget)
    <3>1. run'.at = "read"
      BY <1>5, <2>2, WriteMoves DEF CInv
    <3>2. history' = history
      BY <1>5, <2>2 DEF FormatWrite, HeadTarget, HeadChanges
    <3> QED BY <1>3, <3>1, <3>2
  <2> QED BY <2>1, <2>2
<1>6. CASE FormatDone
  BY <1>2, <1>6 DEF FormatDone
<1> QED BY <1>4, <1>5, <1>6

\* A format that starts, or does not, is no check.
LEMMA StartFormatChecked ==
  ASSUME CInv, run = Idle, NEW c \in Commands, StartFormat(c), UNCHANGED <<disk, configs, edits>>
  PROVE  CheckUnderway' /\ CheckJudgements'
<1>1. c.kind = "format" /\ Started(c, FormatConfig(c)).cmd = c
  BY DEF StartFormat, Started
<1>2. CASE Exit(Started(c, FormatConfig(c)), 2, <<>>, disk)
  BY <1>1, <1>2, ExitChecked
<1>3. CASE run'.at = "read" /\ UNCHANGED history
  <2>1. \A x : CheckJudgement(x) => CheckJudgement(x)'
    BY DEF CheckJudgement, ResolveConfig
  <2> QED BY <1>3, <2>1 DEF CInv, CheckUnderway, CheckJudgements
<1> QED BY <1>2, <1>3 DEF StartFormat

\* What has been indexed and read is so after the user's edit, which only adds a file not to speak of.
LEMMA EditGoesOn ==
  ASSUME NEW r, NEW s, NEW f, NEW files, NEW later, SameCheck(r, s), s.touched = r.touched \cup {f},
         s.todo = r.todo, s.index = r.index, s.read = r.read,
         \A g \in Files \ {f} : later[g] = files[g], Going(r, files)
  PROVE  Going(s, later)
<1>1. /\ List(s) = List(r) /\ (\A g : KeyOf(s, g) = KeyOf(r, g)) /\ (\A k : FirstOf(s, k) = FirstOf(r, k))
      /\ \A g : TextOf(s, g) = TextOf(r, g)
  BY SameNames
<1>2. \A g, text : ReadAs(r, g, text) => ReadAs(s, g, text)
  BY <1>1 DEF ReadAs
<1>3. PICK n : Indexing(r, n)
  BY DEF Going
<1>4. Indexing(s, n)
  BY <1>1, <1>2, <1>3 DEF Indexing
<1>5. Reading(s)
  <2>1. Reading(r)
    BY DEF Going
  <2> QED BY <1>1, <1>2, <2>1 DEF Reading
<1>6. Rooted(s) /\ ~Refused(s)
  BY DEF Going, SameCheck, Rooted, Refused
<1>7. Undisturbed(s, later)
  <2>1. Undisturbed(r, files) /\ s.before = r.before
    BY DEF Going, SameCheck
  <2> QED BY <2>1 DEF Undisturbed
<1> QED BY <1>4, <1>5, <1>6, <1>7 DEF Going

\* The user's edit during a check
LEMMA EditChecked ==
  ASSUME CInv, UserEdits
  PROVE  CheckUnderway' /\ CheckJudgements'
<1>1. PICK f \in Files : \E t : disk' = [disk EXCEPT ![f] = t] /\ run' = [run EXCEPT !.touched = @ \cup {f}]
  BY DEF UserEdits
<1>2. history' = history /\ configs' = configs /\ DOMAIN disk = Files
  BY DEF UserEdits, CInv, IInv
<1>3. \A x : CheckJudgement(x) => CheckJudgement(x)'
  BY <1>2 DEF CheckJudgement, ResolveConfig
<1>4. CheckJudgements'
  BY <1>2, <1>3 DEF CInv, CheckJudgements
<1>5. CASE run.at = "index"
  <2> DEFINE touched == run.touched \cup {f}
  <2>1. PICK V : run \in [CheckFields -> V]
    BY <1>5 DEF CInv, IInv, Checking
  <2>2. run' = [run EXCEPT !.touched = touched]
    BY <1>1
  <2> HIDE DEF touched
  <2>3. run'.touched = touched /\ \A j \in CheckFields \ {"touched"} : run'[j] = run[j]
    BY <2>1, <2>2, FieldSet DEF CheckFields, Common
  <2>4. /\ SameCheck(run, run') /\ run'.todo = run.todo /\ run'.index = run.index /\ run'.read = run.read
        /\ run'.touched = run.touched \cup {f}
    BY <2>3 DEF CheckFields, Common, SameCheck, touched
  <2>5. \A g \in Files \ {f} : disk'[g] = disk[g]
    BY <1>1, <1>2
  <2>6. run.config = ResolveConfig(run.cmd) /\ Going(run, disk)
    BY <1>5 DEF CInv, CheckUnderway
  <2>7. Going(run', disk')
    BY <2>4, <2>5, <2>6, EditGoesOn
  <2>8. PICK c : c = run.cmd
    OBVIOUS
  <2>9. (run.config = ResolveConfig(run.cmd))'
    <3>1. run'.cmd = c /\ run'.config = ResolveConfig(c)
      BY <2>4, <2>6, <2>8 DEF SameCheck
    <3> QED BY <1>2, <3>1 DEF ResolveConfig
  <2> QED BY <1>4, <2>7, <2>9 DEF CheckUnderway
<1>6. CASE run.at # "index"
  <2>1. run.at \in {"read", "write"} /\ \E V : run \in [FormatFields -> V]
    BY <1>6 DEF CInv, IInv, Formatting, UserEdits
  <2>2. run'.at # "index"
    BY <1>1, <1>6, <2>1 DEF FormatFields, Common
  <2> QED BY <1>4, <2>2 DEF CheckUnderway
<1> QED BY <1>5, <1>6

\* Each step has its lemma.
LEMMA CheckStepHolds == CInv /\ [Next]_vars => CInv'
<1> SUFFICES ASSUME CInv, [Next]_vars PROVE CInv'
  OBVIOUS
<1>1. IInv'
  BY StepHolds DEF CInv
<1>2. CASE Start
  BY <1>1, <1>2, StartCheckChecked, StartFormatChecked DEF Start, CInv
<1>3. CASE IndexFile
  BY <1>1, <1>3, IndexChecked DEF CInv
<1>4. CASE CollectFile
  BY <1>1, <1>4, CollectChecked DEF CInv
<1>5. CASE ReportFindings
  BY <1>1, <1>5, ReportChecked DEF CInv
<1>6. CASE FormatRead \/ FormatWrite \/ FormatDone
  BY <1>1, <1>6, FormatChecked DEF CInv
<1>7. CASE UserEdits
  BY <1>1, <1>7, EditChecked DEF CInv
<1>8. CASE UNCHANGED vars
  <2>1. UNCHANGED <<disk, configs, run, history>>
    BY <1>8 DEF vars
  <2>2. \A x : CheckJudgement(x) => CheckJudgement(x)'
    BY <2>1 DEF CheckJudgement, ResolveConfig
  <2>3. (run.config = ResolveConfig(run.cmd)) => (run.config = ResolveConfig(run.cmd))'
    BY <2>1 DEF ResolveConfig
  <2> QED BY <1>1, <2>1, <2>2, <2>3 DEF CInv, CheckUnderway, CheckJudgements
<1> QED BY <1>2, <1>3, <1>4, <1>5, <1>6, <1>7, <1>8 DEF Next

\* Nothing has been checked yet.
LEMMA InitChecked == Init => CInv
<1> SUFFICES ASSUME Init PROVE CInv
  OBVIOUS
<1>1. run.at = "idle" /\ history = <<>>
  BY DEF Init, Idle
<1> QED BY <1>1, InitHolds DEF CInv, CheckUnderway, CheckJudgements

\* The judgement of each command of the history
LEMMA RunsAreJudged ==
  ASSUME CInv, NEW r \in Runs, r.cmd.kind = "check"
  PROVE  r.config = ResolveConfig(r.cmd) /\ CheckVerdict(r, r.code, r.report)
<1>1. PICK S : history \in Seq(S)
  BY DEF CInv, IInv
<1>2. PICK i \in 1 .. Len(history) : r = history[i]
  BY <1>1 DEF Runs, ToSet
<1> QED BY <1>2 DEF CInv, CheckJudgements, CheckJudgement

\* If every text settles its tags, then a check of directories that ends, whose select and ignore lists
\* each come from one place, reports, of each file nobody edits that counts, what the filters and the
\* noqa comments leave of its findings, and nothing of a file it does not discover; its status tells
\* whether there are any (run_check in src/linter/mod.rs).
THEOREM ReportsAsWanted ==
  ASSUME AllSettle
  PROVE  Spec => []ReportIsWanted
<1>1. CInv => ReportIsWanted
  <2> SUFFICES ASSUME CInv, NEW r \in Runs, r.cmd.kind = "check", r.code \in 0 .. 1, DirectoriesOnly(r)
               PROVE  /\ \A f \in Checked(r) \ r.touched : ReportOf(r, f) = Expected(r, f)
                      /\ \A f \in Files \ (Discovered(r) \cup r.touched) : ReportOf(r, f) = {}
                      /\ r.touched = {} =>
                            /\ (\E f \in Checked(r) : Expected(r, f) # {}) => r.code = 1
                            /\ (\A f \in Discovered(r) : Expected(r, f) = {}) => r.code = 0
    BY DEF ReportIsWanted
  <2>1. Wanted(r, r.code, r.report)
    BY RunsAreJudged DEF CheckVerdict
  <2>2. /\ \A f \in Files \ r.touched :
             ReportOf(r, f) = IF f \in Checked(r) THEN Expected(r, f) ELSE {}
        /\ r.touched = {} => r.code = IF \E f \in Checked(r) : Expected(r, f) # {} THEN 1 ELSE 0
    BY <2>1 DEF Wanted, ReportOf
  <2>3. Checked(r) \subseteq Discovered(r) /\ Discovered(r) \subseteq Files
    BY DEF Checked, Discovered
  <2> QED BY ONLY <2>2, <2>3
<1> QED BY <1>1, InitChecked, CheckStepHolds, PTL DEF Spec

\* Two checks of the same command over the same files, with nobody editing, print the same report,
\* although each goes through its files in an order of its own (run_check in src/linter/mod.rs).
THEOREM ReportsAreGolden == Spec => []ReportIsGolden
<1>1. CInv => ReportIsGolden
  <2> SUFFICES ASSUME CInv, NEW r \in Runs, NEW s \in Runs, r.cmd = s.cmd, r.cmd.kind = "check",
                      r.before = s.before, r.touched = {}, s.touched = {}
               PROVE  r.report = s.report
    BY DEF ReportIsGolden
  <2>1. r.config = ResolveConfig(r.cmd) /\ CheckVerdict(r, r.code, r.report)
    BY RunsAreJudged
  <2>2. s.config = ResolveConfig(s.cmd) /\ CheckVerdict(s, s.code, s.report)
    BY RunsAreJudged
  <2>3. SameCheck(r, s) /\ (Refused(s) <=> Refused(r))
    BY <2>1, <2>2 DEF SameCheck, Refused
  <2>4. CASE Refused(r)
    BY <2>1, <2>2, <2>3, <2>4 DEF CheckVerdict
  <2>5. CASE ~Refused(r)
    <3>1. Rooted(r) /\ Settled(r, r.report) /\ Settled(s, s.report)
      BY <2>1, <2>2, <2>3, <2>5 DEF CheckVerdict
    <3> QED BY <2>3, <3>1, SettledOnce
  <2> QED BY <2>4, <2>5
<1> QED BY <1>1, InitChecked, CheckStepHolds, PTL DEF Spec
=============================================================================
