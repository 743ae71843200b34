----------------------- MODULE DocumentDeliveryProofs -----------------------
(***************************************************************************)
(* What handlers deliver: the text the editor shows to the index, and the  *)
(* findings of now to the client.  A handler fits the message it was       *)
(* started for, and while nobody holds a guard over an await its sections  *)
(* run one after another without another handler's in between.             *)
(***************************************************************************)
EXTENDS DocumentSyncProofs

\* The file system did something that is reported as e.
Reported(e) ==
  /\ e.type = "changed" => "save" \in Kinds \/ "write" \in Kinds
  /\ e.type = "deleted" => "delete" \in Kinds
  /\ e.type = "hints" => "hints" \in Kinds
  /\ e.type = "config" => "config" \in Kinds
AllReported(q) == \A i \in Places(q) : Reported(q[i])

\* Handlers that publish every tracked file once more.
Republishers == {"scan", "reload", "settings"}

\* A handler is at a step of the message or the report it was started for.
Fits(t) ==
  /\ AllReported(t.batch)
  /\ t.op = "scan" => "scan" \in Kinds
  /\ t.op = "reload" => "config" \in Kinds
  /\ t.pc \in {"hold", "message"} => "rename" \in Kinds
  /\ t.pc = "forget" => "delete" \in Kinds
  /\ t.pc = "close" => "close" \in Kinds
  /\ t.pc \in {"fsread", "fetched"} => "save" \in Kinds \/ "write" \in Kinds
  /\ t.pc \in {"locate", "discover", "config"} => t.op = "reload"
  /\ t.pc \in {"greet", "progress", "create", "inputs"} => t.op = "scan"
  /\ t.pc \in {"walk", "walked", "commit"} => t.op \in {"scan", "reload"}
  /\ t.pc \in {"log", "keys"} => t.op \in Republishers
  /\ t.pc = "overlay" => t.op = "settings"
  /\ t.pc \in {"classify", "base", "sidecar"} => t.op = "watch"
  /\ t.pc = "clear" => t.op = "open"
  /\ t.pc \in {"record", "latest"} => t.op = "change"
  /\ t.pc = "index" => t.op \in {"open", "change"} \/ "save" \in Kinds \/ "write" \in Kinds

AllFit == AllReported(events) /\ \A s \in Slots : Fits(task[s])

LEMMA IdleFits == Fits(Idle)
<1>1. AllReported(<<>>)
  BY SMT DEF AllReported, Places
<1> QED BY <1>1, IdleType, IdleBatch DEF Fits

LEMMA TailReported ==
  ASSUME NEW S, NEW q \in Seq(S), q # <<>>, AllReported(q)
  PROVE  AllReported(Tail(q)) /\ Reported(Head(q))
<1>1. 1 \in Places(q)
  BY TailPlaces, SMT DEF Places
<1> QED BY <1>1, TailPlaces DEF AllReported

LEMMA OverFits ==
  ASSUME NEW t \in Handlers, Fits(t), NEW u, Over(t, u)
  PROVE  Fits(u)
<1>1. CASE u = Idle
  BY <1>1, IdleFits
<1>2. CASE u # Idle
  <2>1. t.batch \in Seq(Events)
    BY SMT DEF Handlers
  <2>2. t.batch # <<>>
    <3>1. Len(<<>>) <= 1
      BY SMT
    <3> QED BY <1>2, <3>1 DEF Over
  <2>3. AllReported(Tail(t.batch))
    BY <2>1, <2>2, TailReported DEF Fits
  <2> QED BY <1>2, <2>3 DEF Over, Fits
<1> QED BY <1>1, <1>2

LEMMA PublishedFits ==
  ASSUME NEW t \in Handlers, Fits(t), NEW u, Published(t, u)
  PROVE  Fits(u)
<1>1. CASE u = Idle \/ Over(t, u)
  BY <1>1, IdleFits, OverFits
<1>2. CASE u.op = t.op /\ u.batch = t.batch /\ u.pc \in {"flags", "register", "compute"}
  BY <1>2 DEF Fits
<1> QED BY <1>1, <1>2 DEF Published, Again, Same

\* A handler fits its message for as long as it runs.
LEMMA FollowsFits ==
  ASSUME NEW t \in Handlers, Carries(t), Fits(t), t.pc # "idle", NEW u, Follows(t, u)
  PROVE  Fits(u)
<1>1. CASE u = Idle \/ Over(t, u) \/ Published(t, u)
  BY <1>1, IdleFits, OverFits, PublishedFits
<1>2. CASE t.pc = "classify"
  <2>1. t.batch \in Seq(Events) /\ t.batch # <<>>
    <3>1. t.batch \in Seq(Events)
      BY SMT DEF Handlers
    <3> QED BY <1>2, <3>1 DEF Carries
  <2>2. Reported(Head(t.batch))
    BY <2>1, TailReported DEF Fits
  <2>3. u.batch = t.batch /\ u.pc \in {"locate", "base", "fsread", "forget"}
    BY <1>2 DEF Follows
  <2>4. CASE Head(t.batch).type = "config"
    BY <1>2, <2>2, <2>3, <2>4 DEF Follows, Fits, Reported
  <2>5. CASE Head(t.batch).type # "config"
    BY <1>2, <2>2, <2>3, <2>5 DEF Follows, Fits, Reported
  <2> QED BY <2>4, <2>5
<1>3. CASE t.pc \in {"discover", "keys", "overlay", "config", "commit", "flags", "refresh"}
           /\ ~(u = Idle \/ Over(t, u))
  BY <1>3 DEF Follows, Fits, Same, Again, Refreshes, Republishers
<1>4. CASE t.pc \in {"clear", "record", "index", "latest", "compute", "store", "fetched"}
           /\ ~(u = Idle \/ Over(t, u) \/ Published(t, u))
  BY <1>4 DEF Follows, Fits, Same
<1>5. CASE t.pc \in {"hold", "fsread", "forget", "base", "sidecar", "locate", "greet",
                     "progress", "create", "inputs", "walk", "walked", "log"}
           /\ u # Idle
  BY <1>5 DEF Follows, Fits, Same, Republishers
<1> QED BY <1>1, <1>2, <1>3, <1>4, <1>5 DEF Follows

\* A report is appended when the file system has done what it says, and delivered in
\* batches.
LEMMA AppendReported ==
  ASSUME NEW S, NEW q \in Seq(S), NEW e \in S, AllReported(q), Reported(e)
  PROVE  AllReported(Append(q, e))
BY AppendProperties, LenProperties, SMT DEF AllReported, Places

LEMMA BatchReported ==
  ASSUME NEW S, NEW q \in Seq(S), AllReported(q), NEW n \in 1..Len(q)
  PROVE  AllReported(SubSeq(q, 1, n)) /\ AllReported(SubSeq(q, n + 1, Len(q)))
<1>1. Len(q) \in Nat
  BY LenProperties
<1>2. AllReported(SubSeq(q, 1, n))
  BY <1>1, SubSeqProperties, SMT DEF AllReported, Places
<1>3. AllReported(SubSeq(q, n + 1, Len(q)))
  BY <1>1, SubSeqProperties, SMT DEF AllReported, Places
<1> QED BY <1>2, <1>3

LEMMA MovesFit ==
  ASSUME SchedOK, \A r \in Slots : Fits(task[r]), NEW s \in Slots, Moves(s), Fits(task'[s])
  PROVE  \A r \in Slots : Fits(task'[r])
BY DEF SchedOK, Moves

LEMMA ClientFits ==
  ASSUME TypeOK, AllFit, Client
  PROVE  AllFit'
<1>0. SchedOK /\ ClientOK /\ events \in Seq(Events) /\ AllReported(events)
      /\ \A r \in Slots : Fits(task[r])
  BY DEF TypeOK, ClientOK, AllFit
<1>1. AllReported(<<>>)
  BY SMT DEF AllReported, Places
<1>2. ASSUME NEW k \in Keys, \/ EditorOpen(k) \/ EditorChange(k) \/ EditorClose(k)
                             \/ RenameRefused(k)
      PROVE  AllFit'
  <2>1. AllReported(events)'
    BY <1>0, <1>2 DEF EditorOpen, EditorChange, EditorClose, RenameRefused
  <2>2. (RenameRefused(k) => "rename" \in Kinds) /\ (EditorClose(k) => "close" \in Kinds)
    BY DEF RenameRefused, EditorClose, Act
  <2>3. PICK s \in Slots, t \in Handlers : Begins(s, t) /\ Fits(t)
    <3>1. CASE EditorOpen(k)
      BY <1>1, <3>1, OpenBegins, IdleFits DEF Fits
    <3>2. CASE EditorChange(k)
      BY <1>1, <3>2, ChangeBegins DEF Fits
    <3>3. CASE EditorClose(k)
      BY <1>1, <2>2, <3>3, CloseBegins DEF Fits
    <3>4. CASE RenameRefused(k)
      BY <1>1, <2>2, <3>4, RenameBegins DEF Fits
    <3> QED BY <1>2, <3>1, <3>2, <3>3, <3>4
  <2> QED BY <1>0, <2>1, <2>3, MovesFit DEF AllFit, Begins
<1>3. ASSUME NEW k \in Keys, EditorSave(k) PROVE AllFit'
  <2>1. Event("changed", k) \in Events /\ Reported(Event("changed", k))
    BY <1>3, SMT DEF Event, Events, Reported, EditorSave, Act
  <2>2. AllReported(events)'
    BY <1>0, <1>3, <2>1, AppendReported DEF EditorSave
  <2>3. PICK s \in Slots : Begins(s, Idle)
    BY <1>3, SaveBegins
  <2> QED BY <1>0, <2>2, <2>3, IdleFits, MovesFit DEF AllFit, Begins
<1>4. ASSUME \/ \E k \in Keys : FileWritten(k) \/ FileDeleted(k) \/ HintsWritten(k)
             \/ \E f \in Folders : ConfigWritten(f)
      PROVE  AllFit'
  <2>1. PICK e \in Events : Reported(e) /\ events' = Append(events, e)
    <3>1. CASE \E k \in Keys : FileWritten(k)
      <4>1. PICK k \in Keys : FileWritten(k)
        BY <3>1
      <4>2. Event("changed", k) \in Events /\ Reported(Event("changed", k))
        BY <4>1, SMT DEF Event, Events, Reported, FileWritten, Act
      <4> QED BY <4>1, <4>2 DEF FileWritten
    <3>2. CASE \E k \in Keys : FileDeleted(k)
      <4>1. PICK k \in Keys : FileDeleted(k)
        BY <3>2
      <4>2. Event("deleted", k) \in Events /\ Reported(Event("deleted", k))
        BY <4>1, SMT DEF Event, Events, Reported, FileDeleted, Act
      <4> QED BY <4>1, <4>2 DEF FileDeleted
    <3>3. CASE \E k \in Keys : HintsWritten(k)
      <4>1. PICK k \in Keys : HintsWritten(k)
        BY <3>3
      <4>2. Event("hints", k) \in Events /\ Reported(Event("hints", k))
        BY <4>1, SMT DEF Event, Events, Reported, HintsWritten, Act
      <4> QED BY <4>1, <4>2 DEF HintsWritten
    <3>4. CASE \E f \in Folders : ConfigWritten(f)
      <4>1. PICK f \in Folders : ConfigWritten(f)
        BY <3>4
      <4>2. Event("config", f) \in Events /\ Reported(Event("config", f))
        BY <4>1, SMT DEF Event, Events, Reported, ConfigWritten, Act
      <4> QED BY <4>1, <4>2 DEF ConfigWritten
    <3> QED BY <1>4, <3>1, <3>2, <3>3, <3>4
  <2>2. AllReported(events)'
    BY <1>0, <2>1, AppendReported
  <2>3. UNCHANGED task
    BY <1>4 DEF FileWritten, FileDeleted, HintsWritten, ConfigWritten, sched
  <2> QED BY <1>0, <2>2, <2>3 DEF AllFit
<1>5. CASE DeliverEvents
  <2>1. PICK n \in 1..Len(events) :
          /\ events' = SubSeq(events, n + 1, Len(events))
          /\ \E s \in Slots : \E t \in Handlers :
                /\ Begins(s, t)
                /\ t.pc = "classify" /\ t.op = "watch" /\ t.batch = SubSeq(events, 1, n)
    BY <1>5, DeliverBegins
  <2>2. PICK s \in Slots, t \in Handlers :
           Begins(s, t) /\ t.pc = "classify" /\ t.op = "watch" /\ t.batch = SubSeq(events, 1, n)
    BY <2>1
  <2>3. AllReported(SubSeq(events, 1, n)) /\ AllReported(events)'
    BY <1>0, <2>1, BatchReported
  <2>4. Fits(t)
    BY <2>2, <2>3 DEF Fits
  <2> QED BY <1>0, <2>2, <2>3, <2>4, MovesFit DEF AllFit, Begins
<1>6. CASE SettingsChanged
  <2>1. PICK s \in Slots, t \in Handlers :
          Begins(s, t) /\ t.batch = <<>> /\ (t = Idle \/ (t.pc = "overlay" /\ t.op = "settings"))
    BY <1>6, SettingsBegins
  <2>2. Fits(t)
    BY <1>1, <2>1, IdleFits DEF Fits
  <2>3. AllReported(events)'
    BY <1>0, <1>6 DEF SettingsChanged
  <2> QED BY <1>0, <2>1, <2>2, <2>3, MovesFit DEF AllFit, Begins
<1> QED BY <1>2, <1>3, <1>4, <1>5, <1>6 DEF Client

LEMMA FitsStep == TypeOK /\ AllFit /\ [Next]_vars => AllFit'
<1> SUFFICES ASSUME TypeOK, AllFit, [Next]_vars PROVE AllFit'
  OBVIOUS
<1>0. SchedOK /\ \A s \in Slots : task[s] \in Handlers /\ Carries(task[s]) /\ Fits(task[s])
  BY DEF TypeOK, SchedOK, AllFit
<1>1. ASSUME NEW s \in Slots, Moves(s), task[s].pc # "idle", UNCHANGED events
      PROVE  AllFit'
  <2>1. Fits(task'[s])
    BY <1>0, <1>1, FollowsFits DEF Moves
  <2> QED BY <1>0, <1>1, <2>1, MovesFit DEF AllFit
<1>2. ASSUME NEW s \in Slots, Section(s) \/ Wake(s) PROVE AllFit'
  <2>1. Moves(s) /\ task[s].pc # "idle"
    BY <1>2, SectionMoves, WakeMoves DEF Sections, ReadSections, WriteSections, Waits
  <2>2. UNCHANGED events
    BY <1>2, StepsKeepClient DEF client
  <2> QED BY <1>1, <2>1, <2>2
<1>3. CASE UNCHANGED vars
  BY <1>3 DEF vars, client, sched, AllFit
<1> QED BY <1>2, <1>3, ClientFits DEF Next, Rest

LEMMA InitFits == Init => AllFit
<1> SUFFICES ASSUME Init PROVE AllFit
  OBVIOUS
<1> DEFINE h == Handler("scan", "greet", None)
<1>1. AllReported(<<>>)
  BY SMT DEF AllReported, Places
<1>2. h.pc = "greet" /\ h.op = "scan" /\ h.batch = <<>>
  <2>1. h.op = "scan" /\ h.batch = <<>>
    BY SMT DEF Handler, Idle
  <2> QED BY <2>1, HandlerType DEF Ops, Pcs, Waits
<1> HIDE DEF h
<1>3. "scan" \in Kinds => Fits(h)
  BY <1>1, <1>2 DEF Fits
<1> QED BY <1>1, <1>3, IdleFits DEF Init, AllFit, h

\* Every handler is where a message or a report brought it: no rescan without a changed
\* configuration, no deletion that the file system did not report, in any interleaving.
THEOREM HandlersFit == Spec => []AllFit
BY InitFits, FitsStep, TypeCorrect, PTL DEF Spec

-----------------------------------------------------------------------------
(* As long as no rename is refused, no guard is held over an await, and a handler     *)
(* runs its sections without another's in between.                                    *)

NoRenames == "rename" \notin Kinds
Serial == guards = {} /\ Len(lockq) <= 1

\* Outside of the handler that runs, no handler is queued.
LEMMA SerialQueue ==
  ASSUME SchedOK, QueueFits, Serial
  PROVE  /\ \A r, s \in Slots : task[r].pc \in Sections /\ task[s].pc \in Sections => r = s
         /\ ~Runnable => lockq = <<>> /\ \A r \in Slots : task[r].pc \notin Sections
<1>1. lockq \in Seq(Slots) /\ Len(lockq) \in Nat
  BY LenProperties DEF SchedOK
<1>2. \A i, j \in Places(lockq) : i = j
  BY <1>1, SMT DEF Serial, Places
<1>3. \A r, s \in Slots : task[r].pc \in Sections /\ task[s].pc \in Sections => r = s
  BY <1>2 DEF QueueFits, Queued
<1>4. ASSUME ~Runnable
      PROVE  lockq = <<>> /\ \A r \in Slots : task[r].pc \notin Sections
  <2>1. lockq = <<>>
    BY <1>4 DEF Runnable, Serial
  <2>2. Places(lockq) = {}
    BY <2>1, SMT DEF Places
  <2> QED BY <2>1, <2>2 DEF QueueFits, Queued
<1> QED BY <1>3, <1>4

LEMMA GuardsFree ==
  ASSUME NoRenames, TypeOK, AllFit, Serial, [Next]_vars
  PROVE  guards' = {}
<1>1. ASSUME NEW s \in Slots, Section(s) PROVE guards' = {}
  <2>1. ~HoldGuard(s)
    BY DEF HoldGuard, At, AllFit, Fits, NoRenames
  <2>2. UNCHANGED guards
    BY <1>1, <2>1 DEF Section, DidOpenClear, Pass1, DidChangeRecord, DidChangeIsLatest, DidClose,
       ComputeDiagnostics, StoreAndPush, RepublishKeys, RefreshFlags, ClassifyEvent,
       ForgetDeleted, SidecarBase, RefreshSidecar, LocateFolder, DiscoverConfig, ApplyConfig,
       ApplyOverlay, ProgressFlag, ScanInputs, CommitScan
  <2> QED BY <2>2 DEF Serial
<1>2. ASSUME NEW s \in Slots, Wake(s) PROVE guards' = {}
  BY <1>2 DEF Wake, Flushed, Refreshed, ReadFile, FileRead, WalkFolder, Walked, Logged,
     Greeted, ProgressCreated, Registered, MessageShown, Serial
<1>3. CASE Client
  BY <1>3 DEF Client, EditorOpen, EditorChange, EditorClose, EditorSave, FileWritten,
     FileDeleted, HintsWritten, RenameRefused, ConfigWritten, DeliverEvents, SettingsChanged,
     Dispatch, sched, Serial
<1>4. CASE UNCHANGED vars
  BY <1>4 DEF vars, sched, Serial
<1> QED BY <1>1, <1>2, <1>3, <1>4 DEF Next, Rest

LEMMA SerialStep ==
  ASSUME NoRenames, TypeOK, AllFit, QueueFits, Serial, [Next]_vars
  PROVE  Serial'
<1>1. guards' = {}
  BY GuardsFree
<1>2. lockq \in Seq(Slots) /\ Len(lockq) \in Nat
  BY LenProperties DEF TypeOK, SchedOK
<1>3. ASSUME NEW s \in Slots, Moves(s) PROVE Len(lockq') <= 1
  <2>1. Len(<<>>) = 0 /\ <<>> \in Seq(Slots)
    BY SMT
  <2>2. CASE task[s].pc \in Sections
    <3>1. lockq # <<>>
      BY <1>3, <2>2 DEF Moves, Runnable
    <3>2. Tail(lockq) \in Seq(Slots) /\ Len(Tail(lockq)) = Len(lockq) - 1 /\ Len(lockq) # 0
      BY <1>2, <3>1, TailPlaces
    <3>3. Len(Tail(lockq)) = 0
      BY <1>2, <3>2, SMT DEF Serial
    <3>4. Len(Append(Tail(lockq), s)) = 1
      BY <3>2, <3>3, AppendPlaces
    <3>5. lockq' = Append(Tail(lockq), s) \/ lockq' = Tail(lockq)
      BY <1>3, <2>2 DEF Moves
    <3>6. 0 <= 1 /\ 1 <= 1
      BY SMT
    <3> QED BY <3>3, <3>4, <3>5, <3>6, Zenon
  <2>3. CASE task[s].pc \notin Sections
    <3>1. CASE task'[s].pc \in Sections
      <4>1. task'[s].pc \notin Waits
        BY <3>1 DEF Sections, ReadSections, WriteSections, Waits
      <4>2. lockq = <<>>
        BY <1>3, <2>3, <4>1, SerialQueue DEF Moves, TypeOK
      <4>3. Len(Append(lockq, s)) = 1
        BY <2>1, <4>2, AppendPlaces
      <4> QED BY <1>3, <2>3, <3>1, <4>3 DEF Moves
    <3>2. CASE task'[s].pc \notin Sections
      BY <1>3, <2>3, <3>2 DEF Moves, Serial
    <3> QED BY <3>1, <3>2
  <2> QED BY <2>2, <2>3
<1>4. CASE UNCHANGED <<task, lockq>>
  BY <1>1, <1>4 DEF Serial
<1>5. Len(lockq') <= 1
  BY <1>3, <1>4, StepShape DEF Serial
<1> QED BY <1>1, <1>5 DEF Serial

LEMMA SerialAlways == NoRenames /\ Spec => []Serial
<1> SUFFICES ASSUME NoRenames PROVE Spec => []Serial
  OBVIOUS
<1>1. Init => Serial
  BY SMT DEF Init, Serial
<1>2. TypeOK /\ AllFit /\ QueueFits /\ Serial /\ [Next]_vars => Serial'
  <2> SUFFICES ASSUME TypeOK, AllFit, QueueFits, Serial, [Next]_vars PROVE Serial'
    OBVIOUS
  <2> QED BY SerialStep
<1> QED BY <1>1, <1>2, TypeCorrect, HandlersFit, HandlersQueueOnce, PTL DEF Spec

\* A message finds no handler queued.
LEMMA BeginsAlone ==
  ASSUME SchedOK, QueueFits, Serial, NEW s \in Slots, NEW t, Begins(s, t)
  PROVE  /\ \A r \in Slots : task[r].pc \notin Sections
         /\ \A r \in Slots : r # s => task'[r] = task[r]
         /\ task'[s] = t
<1>1. Starts(t)
  BY DEF Begins, Moves, Follows
<1>2. task'[s].pc \notin Waits /\ task[s].pc \notin Sections
  BY <1>1, IdleType DEF Begins, Starts, Waits, Sections, ReadSections, WriteSections
<1>3. ~Runnable
  BY <1>2 DEF Begins, Moves
<1> QED BY <1>3, SerialQueue DEF Begins, Moves, SchedOK

-----------------------------------------------------------------------------
(* What a step leaves alone *)

LEMMA ClientKeepsServer ==
  ASSUME Client
  PROVE  UNCHANGED server
BY DEF Client, EditorOpen, EditorChange, EditorClose, EditorSave, FileWritten, FileDeleted,
   HintsWritten, RenameRefused, ConfigWritten, DeliverEvents, SettingsChanged

LEMMA WakeKeepsServer ==
  ASSUME NEW s \in Slots, Wake(s)
  PROVE  UNCHANGED server
BY DEF Wake, Flushed, Refreshed, ReadFile, FileRead, WalkFolder, Walked, Logged, Greeted,
   ProgressCreated, Registered, MessageShown

LEMMA SourceWriters ==
  ASSUME NEW s \in Slots, Section(s)
  PROVE  sources' = sources \/ Pass1(s) \/ ForgetDeleted(s)
<1>1. \/ Pass1(s) \/ ForgetDeleted(s) \/ UNCHANGED index \/ UNCHANGED server
      \/ sources' = sources
  BY DEF Section, DidOpenClear, DidChangeRecord, DidChangeIsLatest, DidClose,
     ComputeDiagnostics, StoreAndPush, RepublishKeys, RefreshFlags, ClassifyEvent,
     SidecarBase, RefreshSidecar, LocateFolder, DiscoverConfig, ApplyConfig, ApplyOverlay,
     ProgressFlag, ScanInputs, CommitScan, HoldGuard
<1> QED BY <1>1 DEF server, index

-----------------------------------------------------------------------------
(* The newest content wins.  While all there is to hear of is typing, the text of an *)
(* open document is indexed or on its way, as the editor shows it.                   *)

TypingOnly == Kinds \cap {"rename", "save", "write", "delete"} = {}

Bringing == {"clear", "record", "index"}
Brought(k) == \E s \in Slots : task[s].pc \in Bringing /\ task[s].key = k

ShownTexts ==
  /\ \A s \in Slots : task[s].pc \in Bringing
                      => task[s].text = bufText[task[s].key] /\ task[s].text # None
  /\ \A s \in Slots : task[s].pc = "record" /\ task[s].key \in Jinja
                      => sources[task[s].key] # None
  /\ \A k \in Jinja : bufText[k] # None => sources[k] = bufText[k] \/ Brought(k)

LEMMA SectionKeepsShown ==
  ASSUME TypingOnly, TypeOK, AllFit, QueueFits, Serial, ShownTexts, NEW s \in Slots, Section(s)
  PROVE  ShownTexts'
<1> DEFINE t == task[s]
           u == task'[s]
<1>0. /\ SchedOK /\ Moves(s) /\ t.pc \in Sections /\ t \in Handlers /\ Carries(t) /\ Fits(t)
      /\ Follows(t, u) /\ UNCHANGED bufText
  BY SectionMoves, StepsKeepClient DEF TypeOK, SchedOK, AllFit, Moves, client, editor
<1>1. \A r \in Slots : r # s => task[r].pc \notin Sections /\ task'[r] = task[r]
  BY <1>0, SerialQueue DEF Moves, SchedOK
<1>2. Bringing \subseteq Sections
  BY DEF Bringing, Sections, WriteSections
<1>3. u.pc \in Bringing => /\ u.pc = "index" /\ u.key = t.key /\ u.text = t.text
                           /\ t.pc \in {"clear", "record"}
  <2>1. t.pc # "fetched" /\ t.pc # "idle"
    BY <1>0 DEF Sections, ReadSections, WriteSections
  <2> QED BY <1>0, <2>1, IdleType
          DEF Follows, Bringing, Over, Again, Published, Refreshes, Same
<1>4. \A r \in Slots : task'[r].pc \in Bringing
         => task'[r].text = bufText'[task'[r].key] /\ task'[r].text # None
  <2>1. u.pc \in Bringing => u.text = bufText'[u.key] /\ u.text # None
    BY <1>0, <1>3 DEF ShownTexts, Bringing
  <2> QED BY <1>1, <1>2, <2>1
<1>5. \A r \in Slots : task'[r].pc # "record"
  BY <1>1, <1>2, <1>3 DEF Bringing
<1>6. ASSUME NEW k \in Jinja, bufText'[k] # None
      PROVE  sources'[k] = bufText'[k] \/ Brought(k)'
  <2>0. k \in Keys /\ sources \in [Keys -> Texts \cup {None}] /\ bufText'[k] = bufText[k]
    BY <1>0, DepsAssumption DEF TypeOK, ServerOK
  <2>1. ~ForgetDeleted(s)
    BY <1>0 DEF Fits, TypingOnly, ForgetDeleted, At
  <2>2. sources' = sources \/ Pass1(s)
    BY <2>1, SourceWriters
  <2>3. CASE sources[k] = bufText[k]
    <3>1. CASE Pass1(s) /\ t.key = k
      BY <1>0, <2>0, <3>1 DEF Pass1, At, UpdateFile, ShownTexts, Bringing
    <3>2. CASE ~(Pass1(s) /\ t.key = k)
      BY <2>0, <2>2, <2>3, <3>2 DEF Pass1, UpdateFile
    <3> QED BY <3>1, <3>2
  <2>4. CASE Brought(k)
    <3>1. t.pc \in Bringing /\ t.key = k
      BY <1>1, <1>2, <2>4 DEF Brought
    <3>2. CASE t.pc = "clear"
      <4>1. u.pc = "index" /\ u.key = k
        BY <1>0, <3>1, <3>2 DEF Follows, Same
      <4> QED BY <4>1 DEF Brought, Bringing
    <3>3. CASE t.pc = "record"
      <4>1. u.pc = "index" /\ u.key = k
        BY <1>0, <3>1, <3>3 DEF Follows, Same, ShownTexts
      <4> QED BY <4>1 DEF Brought, Bringing
    <3>4. CASE t.pc = "index"
      <4>1. Pass1(s)
        BY <3>4, SectionAt
      <4>2. t.text = bufText[k] /\ sources'[k] = t.text
        BY <2>0, <3>1, <4>1 DEF Pass1, UpdateFile, ShownTexts
      <4> QED BY <2>0, <4>2
    <3> QED BY <3>1, <3>2, <3>3, <3>4 DEF Bringing
  <2> QED BY <1>6, <2>0, <2>3, <2>4 DEF ShownTexts
<1> QED BY <1>4, <1>5, <1>6 DEF ShownTexts

LEMMA WakeKeepsShown ==
  ASSUME TypingOnly, TypeOK, AllFit, ShownTexts, NEW s \in Slots, Wake(s)
  PROVE  ShownTexts'
<1> DEFINE t == task[s]
           u == task'[s]
<1>0. /\ Moves(s) /\ t.pc \in Waits /\ Fits(t) /\ Follows(t, u) /\ UNCHANGED <<bufText, sources>>
      /\ \A r \in Slots : r # s => task'[r] = task[r]
  <2>1. UNCHANGED bufText
    BY StepsKeepClient DEF client, editor
  <2>2. UNCHANGED sources
    BY WakeKeepsServer DEF server, index
  <2> QED BY <2>1, <2>2, WakeMoves DEF TypeOK, SchedOK, AllFit, Moves
<1>1. u.pc \notin Bringing
  <2>1. t.pc # "fetched" /\ t.pc # "idle"
    BY <1>0 DEF Fits, TypingOnly, Waits
  <2> QED BY <1>0, <2>1, IdleType
          DEF Follows, Bringing, Over, Again, Published, Refreshes, Same, Waits
<1>2. t.pc \notin Bringing
  BY <1>0 DEF Waits, Bringing
<1>3. \A k : Brought(k) => Brought(k)'
  BY <1>0, <1>2 DEF Brought
<1>4. "record" \in Bringing
  BY DEF Bringing
<1> QED BY <1>0, <1>1, <1>3, <1>4 DEF ShownTexts

LEMMA ClientKeepsShown ==
  ASSUME TypingOnly, TypeOK, QueueFits, Serial, ShownTexts, Client
  PROVE  ShownTexts'
<1>0. /\ SchedOK /\ UNCHANGED sources /\ Jinja \subseteq Keys
      /\ bufText \in [Keys -> Texts \cup {None}] /\ bufText' \in [Keys -> Texts \cup {None}]
  <2>1. UNCHANGED sources
    BY ClientKeepsServer DEF server, index
  <2>2. TypeOK'
    BY NextType DEF Next
  <2> QED BY <2>1, <2>2, DepsAssumption DEF TypeOK, ClientOK
<1>1. Bringing \subseteq Sections /\ "record" \in Bringing /\ "idle" \notin Sections
  BY DEF Bringing, Sections, WriteSections, ReadSections
<1>2. ASSUME NEW s \in Slots, NEW t, Begins(s, t), UNCHANGED bufText, t.pc \notin Bringing
      PROVE  ShownTexts'
  <2>1. /\ \A r \in Slots : task'[r].pc \notin Bringing
        /\ \A r \in Slots : task[r].pc \notin Bringing
    BY <1>0, <1>1, <1>2, BeginsAlone
  <2> QED BY <1>0, <1>1, <1>2, <2>1 DEF ShownTexts, Brought
<1>3. ASSUME NEW k \in Keys, NEW s \in Slots, NEW t, Begins(s, t),
             \A j \in Keys : j # k => bufText'[j] = bufText[j],
             t.pc \in Bringing => /\ t.key = k /\ t.text = bufText'[k] /\ bufText'[k] # None
                                  /\ t.pc = "record" => bufText[k] # None,
             k \in Jinja /\ bufText'[k] # None => t.pc \in Bringing
      PROVE  ShownTexts'
  <2>1. /\ \A r \in Slots : task[r].pc \notin Bringing
        /\ \A r \in Slots : r # s => task'[r] = task[r]
        /\ task'[s] = t
    BY <1>0, <1>1, <1>3, BeginsAlone
  <2>2. \A j \in Jinja : bufText[j] # None => sources[j] = bufText[j]
    BY <2>1 DEF ShownTexts, Brought
  <2>3. \A r \in Slots : task'[r].pc \in Bringing
           => task'[r].text = bufText'[task'[r].key] /\ task'[r].text # None
    BY <1>3, <2>1
  <2>4. \A r \in Slots : task'[r].pc = "record" /\ task'[r].key \in Jinja
           => sources'[task'[r].key] # None
    BY <1>0, <1>1, <1>3, <2>1, <2>2
  <2>5. \A j \in Jinja : bufText'[j] # None => sources'[j] = bufText'[j] \/ Brought(j)'
    BY <1>0, <1>3, <2>1, <2>2 DEF Brought
  <2> QED BY <2>3, <2>4, <2>5 DEF ShownTexts
<1>4. ASSUME NEW k \in Keys, EditorOpen(k) PROVE ShownTexts'
  <2>1. PICK s \in Slots, t \in Handlers :
          /\ Begins(s, t)
          /\ IF k \in Jinja
             THEN t.pc = "clear" /\ t.op = "open" /\ t.key = k /\ t.text = bufText'[k]
             ELSE t = Idle
    BY <1>4, OpenBegins
  <2>2. bufText'[k] # None
    <3>1. NewText \in Nat
      BY <1>4, ActRoom DEF EditorOpen, TypeOK
    <3> QED BY <1>0, <1>4, <3>1, NoneAssumption DEF EditorOpen
  <2>3. \A j \in Keys : j # k => bufText'[j] = bufText[j]
    BY <1>0, <1>4 DEF EditorOpen
  <2>4. t.pc \in Bringing => t.key = k /\ t.text = bufText'[k] /\ t.pc # "record"
    BY <2>1, IdleType DEF Bringing
  <2>5. k \in Jinja => t.pc \in Bringing
    BY <2>1 DEF Bringing
  <2> QED BY <1>3, <2>1, <2>2, <2>3, <2>4, <2>5
<1>5. ASSUME NEW k \in Keys, EditorChange(k) PROVE ShownTexts'
  <2>1. PICK s \in Slots, t \in Handlers :
          Begins(s, t) /\ t.pc = "record" /\ t.key = k /\ t.text = bufText'[k]
    BY <1>5, ChangeBegins
  <2>2. bufText'[k] # None /\ bufText[k] # None
    <3>1. NewText \in Nat
      BY <1>5, ActRoom DEF EditorChange, TypeOK
    <3> QED BY <1>0, <1>5, <3>1, NoneAssumption DEF EditorChange
  <2>3. \A j \in Keys : j # k => bufText'[j] = bufText[j]
    BY <1>0, <1>5 DEF EditorChange
  <2> QED BY <1>1, <1>3, <2>1, <2>2, <2>3
<1>6. ASSUME NEW k \in Keys, EditorClose(k) PROVE ShownTexts'
  <2>1. PICK s \in Slots, t \in Handlers : Begins(s, t) /\ t.pc = "close"
    BY <1>6, CloseBegins
  <2>2. bufText'[k] = None /\ \A j \in Keys : j # k => bufText'[j] = bufText[j]
    BY <1>0, <1>6 DEF EditorClose
  <2>3. t.pc \notin Bringing
    BY <2>1 DEF Bringing
  <2> QED BY <1>3, <2>1, <2>2, <2>3
<1>7. ASSUME \/ \E k \in Keys : EditorSave(k) \/ RenameRefused(k)
             \/ DeliverEvents \/ SettingsChanged
      PROVE  ShownTexts'
  <2>1. PICK s \in Slots, t \in Handlers :
          Begins(s, t) /\ t.pc \in {"idle", "hold", "classify", "overlay"}
    BY <1>7, SaveBegins, RenameBegins, DeliverBegins, SettingsBegins, IdleType
  <2>2. UNCHANGED bufText /\ t.pc \notin Bringing
    BY <1>7, <2>1 DEF EditorSave, RenameRefused, DeliverEvents, SettingsChanged, editor, Bringing
  <2> QED BY <1>2, <2>1, <2>2
<1>8. ASSUME \/ \E k \in Keys : FileWritten(k) \/ FileDeleted(k) \/ HintsWritten(k)
             \/ \E f \in Folders : ConfigWritten(f)
      PROVE  ShownTexts'
  <2>1. UNCHANGED <<bufText, task>>
    BY <1>8 DEF FileWritten, FileDeleted, HintsWritten, ConfigWritten, editor, sched
  <2> QED BY <1>0, <2>1 DEF ShownTexts, Brought
<1> QED BY <1>4, <1>5, <1>6, <1>7, <1>8 DEF Client

\* "Newest content wins": with nothing but typing to hear of, whenever the server has
\* handled everything it holds, for every open document it accepted, what the editor shows.
THEOREM NewestWins == TypingOnly /\ Spec => []NewestContentWins
<1> SUFFICES ASSUME TypingOnly PROVE Spec => []NewestContentWins
  OBVIOUS
<1>0. NoRenames
  BY DEF TypingOnly, NoRenames
<1>1. Init => ShownTexts
  <2> SUFFICES ASSUME Init PROVE ShownTexts
    OBVIOUS
  <2>1. \A s \in Slots : task[s].pc \notin Bringing /\ task[s].pc # "record"
    <3>1. Handler("scan", "greet", None).pc = "greet"
      BY HandlerType DEF Ops, Pcs, Waits
    <3> QED BY <3>1, IdleType DEF Init, Bringing
  <2> QED BY <2>1, DepsAssumption DEF Init, ShownTexts
<1>2. TypeOK /\ AllFit /\ QueueFits /\ Serial /\ ShownTexts /\ [Next]_vars => ShownTexts'
  <2> SUFFICES ASSUME TypeOK, AllFit, QueueFits, Serial, ShownTexts, [Next]_vars
               PROVE  ShownTexts'
    OBVIOUS
  <2>1. CASE UNCHANGED vars
    BY <2>1 DEF vars, client, editor, server, index, sched, ShownTexts, Brought
  <2> QED BY <2>1, SectionKeepsShown, WakeKeepsShown, ClientKeepsShown DEF Next, Rest
<1>3. ShownTexts => NewestContentWins
  BY DEF ShownTexts, NewestContentWins, Settled, AllIdle, Brought, Bringing
<1> QED BY <1>0, <1>1, <1>2, <1>3, TypeCorrect, HandlersFit, HandlersQueueOnce, SerialAlways,
           PTL DEF Spec

-----------------------------------------------------------------------------
(* The newest list wins.  While a key's findings depend on nothing but its own file,  *)
(* its folder's configuration and the overlay, a list that is no longer what the      *)
(* server would compute is owed by a handler that has not published yet.              *)

OwnFindings == \A k \in Keys : Deps[k] \subseteq {k}
LocalEdits == Kinds \cap {"rename", "save", "write"} = {} /\ OwnFindings

Tracking == {"index", "latest"}

\* A version mark is not ahead of the editor, and the edit on its way is the newest.
Versions ==
  /\ \A s \in Slots : task[s].pc \in Tracking /\ task[s].op = "change"
                      => doc_versions[task[s].key] = task[s].ver
  /\ \A s \in Slots : task[s].pc = "record"
                      => task[s].ver = bufVer[task[s].key] /\ bufText[task[s].key] # None
  /\ \A k \in Keys : doc_versions[k] # None =>
        \/ bufText[k] # None /\ doc_versions[k] <= bufVer[k]
        \/ \E s \in Slots : task[s].pc = "close" /\ task[s].key = k

LEMMA SectionKeepsVersions ==
  ASSUME LocalEdits, TypeOK, AllFit, QueueFits, Serial, Versions, NEW s \in Slots, Section(s)
  PROVE  Versions'
<1> DEFINE t == task[s]
           u == task'[s]
<1>0. /\ SchedOK /\ Moves(s) /\ t.pc \in Sections /\ t \in Handlers /\ Carries(t) /\ Fits(t)
      /\ Follows(t, u) /\ UNCHANGED <<bufText, bufVer>>
      /\ doc_versions \in [Keys -> Nat \cup {None}] /\ bufVer \in [Keys -> Nat]
  BY SectionMoves, StepsKeepClient
     DEF TypeOK, SchedOK, ServerOK, ClientOK, AllFit, Moves, client, editor
<1>1. \A r \in Slots : r # s => task[r].pc \notin Sections /\ task'[r] = task[r]
  BY <1>0, SerialQueue DEF Moves, SchedOK
<1>2. Tracking \cup {"record", "close"} \subseteq Sections
  BY DEF Tracking, Sections, ReadSections, WriteSections
<1>3. \A k \in Keys : doc_versions[k] # None /\ ~(t.pc = "close" /\ t.key = k)
                      => bufText[k] # None /\ doc_versions[k] <= bufVer[k]
  BY <1>1, <1>2 DEF Versions
<1>4. u.pc \notin {"record", "close"}
  <2>1. t.pc # "fetched" /\ t.pc # "idle"
    BY <1>0 DEF Sections, ReadSections, WriteSections
  <2> QED BY <1>0, <2>1, IdleType
          DEF Follows, Over, Again, Published, Refreshes, Same
<1>5. t.pc = "record" /\ sources[t.key] # None => doc_versions'[t.key] = t.ver
  <2> SUFFICES ASSUME t.pc = "record", sources[t.key] # None PROVE doc_versions'[t.key] = t.ver
    OBVIOUS
  <2>1. t.key \in Keys /\ t.ver = bufVer[t.key] /\ t.ver \in Nat
    BY <1>0 DEF Carries, Versions
  <2>2. DidChangeRecord(s)
    BY SectionAt
  <2>3. ~(doc_versions[t.key] # None /\ doc_versions[t.key] > t.ver)
    BY <1>0, <1>3, <2>1
  <2> QED BY <1>0, <2>1, <2>2, <2>3 DEF DidChangeRecord
<1>6. u.pc \in Tracking /\ u.op = "change" => doc_versions'[u.key] = u.ver
  <2> SUFFICES ASSUME u.pc \in Tracking, u.op = "change" PROVE doc_versions'[u.key] = u.ver
    OBVIOUS
  <2>1. \/ t.pc = "record" /\ sources[t.key] # None
        \/ t.pc = "index" /\ t.op = "change"
    <3>1. t.pc # "fetched" /\ t.pc # "idle"
      BY <1>0 DEF Sections, ReadSections, WriteSections
    <3>2. t.pc = "clear" => t.op = "open"
      BY <1>0 DEF Fits
    <3> QED BY <1>0, <3>1, <3>2, IdleType
            DEF Follows, Tracking, Over, Again, Published, Refreshes, Same
  <2>2. u.key = t.key /\ u.ver = t.ver
    <3>1. u # Idle
      BY IdleType DEF Tracking
    <3> QED BY <1>0, <2>1, <3>1 DEF Follows, Same
  <2>3. CASE t.pc = "index" /\ t.op = "change"
    <3>1. doc_versions' = doc_versions
      BY <2>3, SectionAt DEF Pass1, session
    <3> QED BY <2>2, <2>3, <3>1 DEF Versions, Tracking
  <2> QED BY <1>5, <2>1, <2>2, <2>3
<1>7. ASSUME NEW k \in Keys, doc_versions'[k] # None
      PROVE  bufText'[k] # None /\ doc_versions'[k] <= bufVer'[k]
  <2>1. CASE UNCHANGED session
    <3>1. ~(t.pc = "close" /\ t.key = k)
      BY <1>0, <1>7, <2>1, SectionAt DEF DidClose, session
    <3> QED BY <1>0, <1>3, <1>7, <2>1, <3>1 DEF session
  <2>2. CASE DidOpenClear(s) \/ DidClose(s) \/ ForgetDeleted(s)
    <3>1. t.key # k /\ doc_versions'[k] = doc_versions[k]
      BY <1>0, <1>7, <2>2 DEF DidOpenClear, DidClose, ForgetDeleted
    <3> QED BY <1>0, <1>3, <1>7, <3>1
  <2>3. CASE DidChangeRecord(s)
    <3>1. t.pc = "record"
      BY <2>3 DEF DidChangeRecord, At
    <3>2. CASE t.key = k /\ sources[k] # None
      <4>1. doc_versions'[k] = bufVer[k] /\ bufText[k] # None
        BY <1>5, <3>1, <3>2 DEF Versions
      <4> QED BY <1>0, <4>1
    <3>3. CASE ~(t.key = k /\ sources[k] # None)
      <4>1. doc_versions'[k] = doc_versions[k]
        BY <1>0, <2>3, <3>3 DEF DidChangeRecord
      <4> QED BY <1>0, <1>3, <1>7, <3>1, <4>1
    <3> QED BY <3>2, <3>3
  <2> QED BY <2>1, <2>2, <2>3, SessionWriters
<1> QED BY <1>1, <1>2, <1>4, <1>6, <1>7 DEF Versions

LEMMA WakeKeepsVersions ==
  ASSUME LocalEdits, TypeOK, AllFit, Versions, NEW s \in Slots, Wake(s)
  PROVE  Versions'
<1> DEFINE t == task[s]
           u == task'[s]
<1>0. /\ t.pc \in Waits /\ Fits(t) /\ Follows(t, u) /\ UNCHANGED <<bufText, bufVer, doc_versions>>
      /\ \A r \in Slots : r # s => task'[r] = task[r]
  <2>1. UNCHANGED <<bufText, bufVer>>
    BY StepsKeepClient DEF client, editor
  <2>2. UNCHANGED doc_versions
    BY WakeKeepsServer DEF server, session
  <2> QED BY <2>1, <2>2, WakeMoves DEF TypeOK, SchedOK, AllFit, Moves
<1>1. u.pc \notin Tracking \cup {"record"}
  <2>1. t.pc # "fetched" /\ t.pc # "idle"
    BY <1>0 DEF Fits, LocalEdits, Waits
  <2> QED BY <1>0, <2>1, IdleType
          DEF Follows, Tracking, Over, Again, Published, Refreshes, Same, Waits
<1>2. t.pc # "close"
  BY <1>0 DEF Waits
<1> QED BY <1>0, <1>1, <1>2 DEF Versions

LEMMA ClientKeepsVersions ==
  ASSUME TypeOK, QueueFits, Serial, Versions, Client
  PROVE  Versions'
<1>0. /\ SchedOK /\ UNCHANGED doc_versions
      /\ bufText \in [Keys -> Texts \cup {None}] /\ bufText' \in [Keys -> Texts \cup {None}]
      /\ bufVer \in [Keys -> Nat] /\ doc_versions \in [Keys -> Nat \cup {None}]
  <2>1. UNCHANGED doc_versions
    BY ClientKeepsServer DEF server, session
  <2>2. TypeOK'
    BY NextType DEF Next
  <2> QED BY <2>1, <2>2 DEF TypeOK, ClientOK, ServerOK
<1>1. Tracking \cup {"record", "close"} \subseteq Sections
  BY DEF Tracking, Sections, ReadSections, WriteSections
<1>2. ASSUME NEW s \in Slots, NEW t, Begins(s, t), t.pc \notin Tracking,
             t.pc = "record" => t.ver = bufVer'[t.key] /\ bufText'[t.key] # None,
             \A k \in Keys : \/ bufText[k] = None
                             \/ bufText'[k] # None /\ bufVer[k] <= bufVer'[k]
                             \/ t.pc = "close" /\ t.key = k,
             bufVer' \in [Keys -> Nat]
      PROVE  Versions'
  <2>1. /\ \A r \in Slots : task[r].pc \notin Sections
        /\ \A r \in Slots : r # s => task'[r] = task[r]
        /\ task'[s] = t
    BY <1>0, <1>2, BeginsAlone
  <2>2. \A k \in Keys : doc_versions[k] # None => bufText[k] # None /\ doc_versions[k] <= bufVer[k]
    BY <1>1, <2>1 DEF Versions
  <2>3. ASSUME NEW k \in Keys, doc_versions'[k] # None
        PROVE  \/ bufText'[k] # None /\ doc_versions'[k] <= bufVer'[k]
               \/ \E r \in Slots : task'[r].pc = "close" /\ task'[r].key = k
    <3>1. doc_versions[k] \in Nat /\ bufVer[k] \in Nat /\ bufVer'[k] \in Nat
      BY <1>0, <1>2, <2>3
    <3>2. doc_versions[k] <= bufVer[k] /\ bufText[k] # None
      BY <1>0, <2>2, <2>3
    <3>3. CASE bufText'[k] # None /\ bufVer[k] <= bufVer'[k]
      BY <1>0, <3>1, <3>2, <3>3
    <3> QED BY <1>2, <2>1, <3>2, <3>3
  <2> QED BY <1>1, <1>2, <2>1, <2>3 DEF Versions
<1>3. bufVer' \in [Keys -> Nat]
  BY NextType DEF Next, TypeOK, ClientOK
<1>4. ASSUME NEW k \in Keys, EditorOpen(k) PROVE Versions'
  <2>1. PICK s \in Slots, t \in Handlers : Begins(s, t) /\ t.pc \in {"clear", "idle"}
    BY <1>4, OpenBegins, IdleType
  <2>2. \A j \in Keys : bufText[j] = None \/ (bufText'[j] # None /\ bufVer[j] <= bufVer'[j])
    BY <1>0, <1>4 DEF EditorOpen
  <2> QED BY <1>2, <1>3, <2>1, <2>2 DEF Tracking
<1>5. ASSUME NEW k \in Keys, EditorChange(k) PROVE Versions'
  <2>1. PICK s \in Slots, t \in Handlers :
          Begins(s, t) /\ t.pc = "record" /\ t.key = k /\ t.ver = bufVer'[k]
    BY <1>5, ChangeBegins
  <2>2. bufText'[k] # None
    <3>1. NewText \in Nat
      BY <1>5, ActRoom DEF EditorChange, TypeOK
    <3> QED BY <1>0, <1>5, <3>1, NoneAssumption DEF EditorChange
  <2>3. \A j \in Keys : bufText[j] = None \/ (bufText'[j] # None /\ bufVer[j] <= bufVer'[j])
    <3>1. ASSUME NEW j \in Keys, bufText[j] # None
          PROVE  bufText'[j] # None /\ bufVer[j] <= bufVer'[j]
      BY <1>0, <1>5, <2>2, <3>1 DEF EditorChange
    <3> QED BY <3>1
  <2> QED BY <1>2, <1>3, <2>1, <2>2, <2>3 DEF Tracking
<1>6. ASSUME NEW k \in Keys, EditorClose(k) PROVE Versions'
  <2>1. PICK s \in Slots, t \in Handlers : Begins(s, t) /\ t.pc = "close" /\ t.key = k
    BY <1>6, CloseBegins
  <2>2. \A j \in Keys : j # k => bufText'[j] = bufText[j] /\ bufVer'[j] = bufVer[j]
    BY <1>0, <1>6 DEF EditorClose
  <2>3. \A j \in Keys : j # k => bufVer[j] <= bufVer'[j]
    BY <1>0, <2>2
  <2>4. \A j \in Keys : \/ bufText[j] = None
                        \/ bufText'[j] # None /\ bufVer[j] <= bufVer'[j]
                        \/ t.pc = "close" /\ t.key = j
    BY <2>1, <2>2, <2>3
  <2> QED BY <1>2, <1>3, <2>1, <2>4 DEF Tracking
<1>7. ASSUME \/ \E k \in Keys : EditorSave(k) \/ RenameRefused(k)
             \/ DeliverEvents \/ SettingsChanged
      PROVE  Versions'
  <2>1. PICK s \in Slots, t \in Handlers :
          Begins(s, t) /\ t.pc \in {"idle", "hold", "classify", "overlay"}
    BY <1>7, SaveBegins, RenameBegins, DeliverBegins, SettingsBegins, IdleType
  <2>2. UNCHANGED <<bufText, bufVer>>
    BY <1>7 DEF EditorSave, RenameRefused, DeliverEvents, SettingsChanged, editor
  <2>3. \A j \in Keys : bufVer[j] <= bufVer'[j]
    BY <1>0, <2>2
  <2> QED BY <1>2, <1>3, <2>1, <2>2, <2>3 DEF Tracking
<1>8. ASSUME \/ \E k \in Keys : FileWritten(k) \/ FileDeleted(k) \/ HintsWritten(k)
             \/ \E f \in Folders : ConfigWritten(f)
      PROVE  Versions'
  <2>1. UNCHANGED <<bufText, bufVer, task>>
    BY <1>8 DEF FileWritten, FileDeleted, HintsWritten, ConfigWritten, editor, sched
  <2> QED BY <1>0, <2>1 DEF Versions
<1> QED BY <1>4, <1>5, <1>6, <1>7, <1>8 DEF Client

LEMMA VersionsAlways == LocalEdits /\ Spec => []Versions
<1> SUFFICES ASSUME LocalEdits PROVE Spec => []Versions
  OBVIOUS
<1>0. NoRenames
  BY DEF LocalEdits, NoRenames
<1>1. Init => Versions
  <2> SUFFICES ASSUME Init PROVE Versions
    OBVIOUS
  <2>1. \A s \in Slots : task[s].pc \notin Tracking \cup {"record"}
    <3>1. Handler("scan", "greet", None).pc = "greet"
      BY HandlerType DEF Ops, Pcs, Waits
    <3> QED BY <3>1, IdleType DEF Init, Tracking
  <2> QED BY <2>1 DEF Init, Versions
<1>2. TypeOK /\ AllFit /\ QueueFits /\ Serial /\ Versions /\ [Next]_vars => Versions'
  <2> SUFFICES ASSUME TypeOK, AllFit, QueueFits, Serial, Versions, [Next]_vars
               PROVE  Versions'
    OBVIOUS
  <2>1. CASE UNCHANGED vars
    BY <2>1 DEF vars, client, editor, server, session, sched, Versions
  <2> QED BY <2>1, SectionKeepsVersions, WakeKeepsVersions, ClientKeepsVersions DEF Next, Rest
<1> QED BY <1>0, <1>1, <1>2, TypeCorrect, HandlersFit, HandlersQueueOnce, SerialAlways,
           PTL DEF Spec

\* The handler still has k to publish.
Owes(t, k) ==
  \/ t.key = k /\ t.pc \in {"compute", "store", "latest"}
  \/ t.pc \in {"walk", "walked", "commit", "log", "keys"}
  \/ k \in t.todo /\ t.pc \in {"compute", "store", "flush"} /\ t.op \in Republishers

Delivered ==
  /\ \A s \in Slots : \A k \in Keys :
        task[s].pc = "store" /\ task[s].key = k => task[s].diag = Compute(k)
  /\ \A k \in Keys : \/ Compute(k) = None
                     \/ published[k] = Compute(k)
                     \/ \E s \in Slots : Owes(task[s], k)

\* A handler that republishes goes on to owe what is left of its list.
LEMMA AgainOwes ==
  ASSUME NEW t, NEW todo, NEW k \in todo, NEW u, Again(t, todo, u), t.op \in Republishers
  PROVE  Owes(u, k)
BY DEF Again, Owes

\* A debt is passed on until it is paid, or there is nothing to publish any more.
LEMMA OwesFollows ==
  ASSUME NEW t \in Handlers, Fits(t), NEW k \in Keys, Owes(t, k), NEW u, Follows(t, u),
         t.pc = "latest" => doc_versions[t.key] = t.ver
  PROVE  Owes(u, k) \/ Compute(k) = None \/ (t.pc = "store" /\ t.key = k)
<1>1. CASE t.pc = "latest" /\ t.key = k
  BY <1>1 DEF Follows, Same, Owes
<1>2. CASE t.pc = "compute" /\ t.key = k /\ Compute(k) # None
  BY <1>2 DEF Follows, Same, Owes
<1>3. CASE t.pc \in {"compute", "store", "flush"} /\ k \in t.todo /\ t.op \in Republishers
  <2>1. CASE Published(t, u)
    <3>1. Again(t, t.todo, u)
      BY <1>3, <2>1 DEF Published, Republishers
    <3> QED BY <1>3, <3>1, AgainOwes
  <2>2. CASE u.pc \in {"store", "flush"} /\ Same(t, u)
    BY <1>3, <2>2 DEF Same, Owes
  <2>3. Published(t, u) \/ (u.pc \in {"store", "flush"} /\ Same(t, u))
    BY <1>3 DEF Follows
  <2> QED BY <2>1, <2>2, <2>3
<1>4. CASE t.pc = "keys"
  <2> DEFINE tracked == {j \in Keys : sources[j] # None}
  <2>1. Again(t, tracked, u) /\ t.op \in Republishers
    BY <1>4 DEF Follows, Fits
  <2>2. CASE k \in tracked
    <3> HIDE DEF tracked
    <3> QED BY <2>1, <2>2, AgainOwes
  <2>3. CASE k \notin tracked
    BY <2>3 DEF Compute
  <2> QED BY <2>2, <2>3
<1>5. CASE t.pc \in {"walk", "walked", "commit", "log"}
  BY <1>5 DEF Follows, Owes
<1>6. \/ t.pc = "store" /\ t.key = k
      \/ t.pc = "latest" /\ t.key = k
      \/ t.pc = "compute" /\ t.key = k
      \/ t.pc \in {"walk", "walked", "commit", "log", "keys"}
      \/ t.pc \in {"compute", "store", "flush"} /\ k \in t.todo /\ t.op \in Republishers
  BY DEF Owes
<1> QED BY <1>1, <1>2, <1>3, <1>4, <1>5, <1>6

\* What a key's findings are computed from.
LEMMA ComputeSame ==
  ASSUME OwnFindings, NEW k \in Keys, sources'[k] = sources[k], templates'[k] = templates[k],
         sidecar_registries'[k] = sidecar_registries[k],
         config'[Owner[k]] = config[Owner[k]], overlay' = overlay
  PROVE  Compute(k)' = Compute(k)
<1>1. Facts(k)' = Facts(k)
  <2>1. \A j \in Deps[k] \cup {k} : templates'[j] = templates[j]
    BY DEF OwnFindings
  <2>2. \A j \in Keys : (IF j \in Deps[k] \cup {k} THEN templates'[j] ELSE None)
                        = (IF j \in Deps[k] \cup {k} THEN templates[j] ELSE None)
    BY <2>1
  <2> QED BY <2>2, SMT DEF Facts
<1>2. RegistryFor(k)' = RegistryFor(k)
  BY Zenon DEF RegistryFor, BaseRegistry
<1> QED BY <1>1, <1>2, Zenon DEF Compute

LEMMA FindingsInputs ==
  ASSUME NEW s \in Slots, Section(s)
  PROVE  \/ UNCHANGED <<index, settings>>
         \/ Pass1(s) \/ ForgetDeleted(s) \/ RefreshSidecar(s)
         \/ task[s].pc \in {"config", "overlay", "commit"}
<1>1. \/ Pass1(s) \/ ForgetDeleted(s) \/ RefreshSidecar(s)
      \/ task[s].pc \in {"config", "overlay", "commit"}
      \/ UNCHANGED <<index, settings>> \/ UNCHANGED server
  BY DEF Section, DidOpenClear, DidChangeRecord, DidChangeIsLatest, DidClose,
     ComputeDiagnostics, StoreAndPush, RepublishKeys, RefreshFlags, ClassifyEvent,
     SidecarBase, LocateFolder, DiscoverConfig, ApplyConfig, ApplyOverlay,
     ProgressFlag, ScanInputs, CommitScan, HoldGuard, At
<1> QED BY <1>1 DEF server

\* The sections that change what a key's findings are computed from.
LEMMA ComputeWriters ==
  ASSUME OwnFindings, TypeOK, AllFit, NEW s \in Slots, Section(s), NEW k \in Keys
  PROVE  \/ Compute(k)' = Compute(k) \/ Compute(k)' = None
         \/ task[s].pc = "index" /\ task[s].key = k
         \/ task'[s].pc = "compute" /\ task'[s].key = k
         \/ task'[s].pc \in {"log", "walk", "keys"}
<1> DEFINE t == task[s]
           u == task'[s]
<1>0. t.pc \in Sections /\ Fits(t) /\ Follows(t, u) /\ t \in Handlers /\ Carries(t)
  BY SectionMoves DEF TypeOK, SchedOK, AllFit, Moves
<1>1. CASE UNCHANGED <<index, settings>>
  BY <1>1, ComputeSame DEF index, settings
<1>2. CASE Pass1(s)
  <2>1. t.pc = "index" /\ t.key \in Keys /\ UNCHANGED settings
    BY <1>0, <1>2 DEF Pass1, At, Carries
  <2>2. CASE t.key = k
    BY <2>1, <2>2
  <2>3. CASE t.key # k
    <3>1. /\ sources'[k] = sources[k] /\ templates'[k] = templates[k]
          /\ sidecar_registries'[k] = sidecar_registries[k]
      BY <1>2, <2>1, <2>3 DEF Pass1, UpdateFile, TypeOK, ServerOK
    <3> QED BY <2>1, <3>1, ComputeSame DEF settings
  <2> QED BY <2>2, <2>3
<1>3. CASE ForgetDeleted(s)
  <2>1. t.key \in Keys /\ UNCHANGED settings
    BY <1>0, <1>3 DEF ForgetDeleted, At, Carries
  <2>2. CASE t.key = k
    <3>1. sources'[k] = None
      BY <1>3, <2>2 DEF ForgetDeleted, TypeOK, ServerOK
    <3> QED BY <3>1 DEF Compute
  <2>3. CASE t.key # k
    <3>1. /\ sources'[k] = sources[k] /\ templates'[k] = templates[k]
          /\ sidecar_registries'[k] = sidecar_registries[k]
      BY <1>3, <2>1, <2>3 DEF ForgetDeleted, TypeOK, ServerOK
    <3> QED BY <2>1, <3>1, ComputeSame DEF settings
  <2> QED BY <2>2, <2>3
<1>4. CASE RefreshSidecar(s)
  <2>1. t.pc = "sidecar" /\ t.key \in Keys /\ UNCHANGED <<sources, templates, settings>>
    BY <1>0, <1>4 DEF RefreshSidecar, At, Carries
  <2>2. CASE t.key = k
    <3>1. u.pc = "compute" /\ u.key = k
      BY <1>0, <2>1, <2>2 DEF Follows, Same
    <3> QED BY <3>1
  <2>3. CASE t.key # k
    <3>1. sidecar_registries'[k] = sidecar_registries[k]
      BY <1>4, <2>1, <2>3 DEF RefreshSidecar, TypeOK, ServerOK
    <3> QED BY <2>1, <3>1, ComputeSame DEF settings
  <2> QED BY <2>2, <2>3
<1>5. CASE t.pc \in {"config", "overlay", "commit"}
  <2>1. u.pc \in {"log", "walk", "keys"}
    BY <1>0, <1>5 DEF Follows
  <2> QED BY <2>1
<1> QED BY <1>1, <1>2, <1>3, <1>4, <1>5, FindingsInputs

\* A section that changes what a key's findings are computed from owes the key.
LEMMA ChangesOwe ==
  ASSUME LocalEdits, TypeOK, AllFit, NEW s \in Slots, Section(s), NEW k \in Keys
  PROVE  Compute(k)' = Compute(k) \/ Compute(k)' = None \/ Owes(task'[s], k)
<1>1. CASE task[s].pc = "index" /\ task[s].key = k
  <2>1. Fits(task[s]) /\ Follows(task[s], task'[s])
    BY SectionMoves DEF AllFit, Moves
  <2>2. task[s].op \in {"open", "change"}
    BY <1>1, <2>1 DEF Fits, LocalEdits
  <2>3. task'[s].pc \in {"compute", "latest"} /\ task'[s].key = k
    BY <1>1, <2>1, <2>2 DEF Follows, Same
  <2> QED BY <2>3 DEF Owes
<1>2. CASE \/ task'[s].pc = "compute" /\ task'[s].key = k
           \/ task'[s].pc \in {"log", "walk", "keys"}
  BY <1>2 DEF Owes
<1>3. OwnFindings
  BY DEF LocalEdits
<1> QED BY <1>1, <1>2, <1>3, ComputeWriters

LEMMA PushWriters ==
  ASSUME TypeOK, NEW s \in Slots, Section(s), NEW k \in Keys, Compute(k)' # None
  PROVE  \/ published'[k] = published[k]
         \/ /\ task[s].pc = "store" /\ task[s].key = k
            /\ published'[k] = task[s].diag /\ diagnostics'[k] = task[s].diag
<1>1. CASE StoreAndPush(s)
  BY <1>1 DEF StoreAndPush, At, TypeOK, ServerOK
<1>2. CASE ForgetDeleted(s)
  <2>1. CASE task[s].key = k
    <3>1. sources'[k] = None
      BY <1>2, <2>1 DEF ForgetDeleted, TypeOK, ServerOK
    <3> QED BY <3>1 DEF Compute
  <2>2. CASE task[s].key # k
    BY <1>2, <2>2 DEF ForgetDeleted, TypeOK, ServerOK
  <2> QED BY <2>1, <2>2
<1>3. StoreAndPush(s) \/ ForgetDeleted(s) \/ UNCHANGED findings \/ UNCHANGED server
  BY DEF Section, DidOpenClear, Pass1, DidChangeRecord, DidChangeIsLatest, DidClose,
     ComputeDiagnostics, RepublishKeys, RefreshFlags, ClassifyEvent, SidecarBase,
     RefreshSidecar, LocateFolder, DiscoverConfig, ApplyConfig, ApplyOverlay,
     ProgressFlag, ScanInputs, CommitScan, HoldGuard
<1> QED BY <1>1, <1>2, <1>3 DEF server, findings

LEMMA SectionKeepsDelivered ==
  ASSUME LocalEdits, TypeOK, AllFit, QueueFits, Serial, Versions, Delivered,
         NEW s \in Slots, Section(s)
  PROVE  Delivered'
<1> DEFINE t == task[s]
           u == task'[s]
<1>0. /\ SchedOK /\ Moves(s) /\ t.pc \in Sections /\ t \in Handlers /\ Carries(t) /\ Fits(t)
      /\ Follows(t, u)
  BY SectionMoves DEF TypeOK, SchedOK, AllFit, Moves
<1>1. \A r \in Slots : r # s => task[r].pc \notin Sections /\ task'[r] = task[r]
  BY <1>0, SerialQueue DEF Moves, SchedOK
<1>2. "store" \in Sections
  BY DEF Sections, WriteSections
<1>3. ASSUME NEW k \in Keys, u.pc = "store", u.key = k
      PROVE  u.diag = Compute(k)'
  <2>1. t.pc = "compute" /\ t.key = k /\ u.diag = Compute(k)
    <3>1. t.pc # "idle"
      BY <1>0 DEF Sections, ReadSections, WriteSections
    <3> QED BY <1>0, <1>3, <3>1, IdleType DEF Follows, Over, Again, Published, Refreshes, Same
  <2>2. UNCHANGED <<index, settings>>
    BY <2>1, SectionAt DEF ComputeDiagnostics, server
  <2>3. Compute(k)' = Compute(k)
    BY <2>2, ComputeSame DEF index, settings, LocalEdits
  <2> QED BY <2>1, <2>3
<1>4. ASSUME NEW k \in Keys, Compute(k)' # None, published'[k] # Compute(k)'
      PROVE  \E r \in Slots : Owes(task'[r], k)
  <2>1. CASE Owes(u, k)
    BY <2>1
  <2>2. CASE ~Owes(u, k)
    <3>1. Compute(k)' = Compute(k)
      BY <1>4, <2>2, ChangesOwe
    <3>2. ~(t.pc = "store" /\ t.key = k)
      <4> SUFFICES ASSUME t.pc = "store", t.key = k PROVE FALSE
        OBVIOUS
      <4>1. published'[k] = t.diag
        BY SectionAt DEF StoreAndPush, TypeOK, ServerOK
      <4>2. t.diag = Compute(k)
        BY DEF Delivered
      <4> QED BY <1>4, <3>1, <4>1, <4>2
    <3>3. published[k] # Compute(k)
      BY <1>4, <3>1, <3>2, PushWriters
    <3>4. PICK r \in Slots : Owes(task[r], k)
      BY <1>4, <3>1, <3>3 DEF Delivered
    <3>5. r # s
      <4> SUFFICES ASSUME r = s PROVE FALSE
        OBVIOUS
      <4>1. t.pc = "latest" => doc_versions[t.key] = t.ver
        BY <1>0 DEF Versions, Tracking, Fits
      <4> QED BY <1>0, <1>4, <2>2, <3>1, <3>2, <3>4, <4>1, OwesFollows
    <3> QED BY <1>1, <3>4, <3>5
  <2> QED BY <2>1, <2>2
<1> QED BY <1>1, <1>2, <1>3, <1>4 DEF Delivered

LEMMA RestKeepsFindings ==
  ASSUME OwnFindings, UNCHANGED server, NEW k \in Keys
  PROVE  Compute(k)' = Compute(k) /\ published' = published /\ diagnostics' = diagnostics
BY ComputeSame DEF server, index, settings, findings

LEMMA WakeKeepsDelivered ==
  ASSUME LocalEdits, TypeOK, AllFit, Delivered, NEW s \in Slots, Wake(s)
  PROVE  Delivered'
<1> DEFINE t == task[s]
           u == task'[s]
<1>0. /\ t.pc \in Waits /\ Fits(t) /\ Follows(t, u) /\ t \in Handlers
      /\ \A r \in Slots : r # s => task'[r] = task[r]
  BY WakeMoves DEF TypeOK, SchedOK, AllFit, Moves
<1>1. \A k \in Keys : Compute(k)' = Compute(k) /\ published' = published
  BY WakeKeepsServer, RestKeepsFindings DEF LocalEdits
<1>2. u.pc # "store" /\ t.pc # "store" /\ t.pc # "latest"
  <2>1. t.pc # "compute" /\ t.pc # "idle" /\ t.pc # "store" /\ t.pc # "latest"
    BY <1>0 DEF Waits
  <2> QED BY <1>0, <2>1, IdleType DEF Follows, Over, Again, Published, Refreshes, Same
<1>3. ASSUME NEW r \in Slots, NEW k \in Keys, task'[r].pc = "store", task'[r].key = k
      PROVE  task'[r].diag = Compute(k)'
  <2>1. r # s /\ task'[r] = task[r]
    BY <1>0, <1>2, <1>3
  <2> QED BY <1>1, <1>3, <2>1 DEF Delivered
<1>4. ASSUME NEW k \in Keys, Compute(k)' # None, published'[k] # Compute(k)'
      PROVE  \E r \in Slots : Owes(task'[r], k)
  <2>1. PICK r \in Slots : Owes(task[r], k)
    BY <1>1, <1>4 DEF Delivered
  <2>2. r = s => Owes(u, k)
    BY <1>0, <1>1, <1>2, <1>4, <2>1, OwesFollows
  <2> QED BY <1>0, <2>1, <2>2
<1> QED BY <1>3, <1>4 DEF Delivered

LEMMA ClientKeepsDelivered ==
  ASSUME LocalEdits, TypeOK, Delivered, Client
  PROVE  Delivered'
<1>1. \A k \in Keys : Compute(k)' = Compute(k) /\ published' = published
  BY ClientKeepsServer, RestKeepsFindings DEF LocalEdits
<1>2. \/ UNCHANGED task
      \/ \E s \in Slots : /\ task[s].pc = "idle" /\ task'[s].pc # "store"
                          /\ \A r \in Slots : r # s => task'[r] = task[r]
  <2>1. ASSUME NEW s \in Slots, Moves(s), task[s].pc = "idle"
        PROVE  /\ task'[s].pc # "store"
               /\ \A r \in Slots : r # s => task'[r] = task[r]
    <3>1. Starts(task'[s])
      BY <2>1 DEF Moves, Follows
    <3> QED BY <2>1, <3>1, IdleType DEF Starts, Moves, TypeOK, SchedOK
  <2> QED BY <2>1, ClientMoves
<1>3. CASE UNCHANGED task
  BY <1>1, <1>3 DEF Delivered
<1>4. ASSUME NEW s \in Slots, task[s].pc = "idle", task'[s].pc # "store",
             \A r \in Slots : r # s => task'[r] = task[r]
      PROVE  Delivered'
  <2>1. \A k : ~Owes(task[s], k)
    BY <1>4 DEF Owes
  <2> QED BY <1>1, <1>4, <2>1 DEF Delivered
<1> QED BY <1>2, <1>3, <1>4

\* Whenever the server has handled everything it holds, the list the client was pushed
\* for a file is the one its text, facts, registry, configuration and overlay of now give.
THEOREM NewestListWins == LocalEdits /\ Spec => []PublishedIsCurrent
<1> SUFFICES ASSUME LocalEdits PROVE Spec => []PublishedIsCurrent
  OBVIOUS
<1>0. NoRenames
  BY DEF LocalEdits, NoRenames
<1>1. Init => Delivered
  <2> SUFFICES ASSUME Init PROVE Delivered
    OBVIOUS
  <2>1. \A s \in Slots : task[s].pc # "store"
    <3>1. Handler("scan", "greet", None).pc = "greet"
      BY HandlerType DEF Ops, Pcs, Waits
    <3> QED BY <3>1, IdleType DEF Init
  <2>2. \A k \in Keys : Compute(k) = None
    BY DEF Init, Compute
  <2> QED BY <2>1, <2>2 DEF Delivered
<1>2. TypeOK /\ AllFit /\ QueueFits /\ Serial /\ Versions /\ Delivered /\ [Next]_vars
      => Delivered'
  <2> SUFFICES ASSUME TypeOK, AllFit, QueueFits, Serial, Versions, Delivered, [Next]_vars
               PROVE  Delivered'
    OBVIOUS
  <2>1. CASE UNCHANGED vars
    <3>1. UNCHANGED <<server, task>>
      BY <2>1 DEF vars, sched
    <3>2. \A k \in Keys : Compute(k)' = Compute(k) /\ published' = published
      BY <3>1, RestKeepsFindings DEF LocalEdits
    <3> QED BY <3>1, <3>2 DEF Delivered
  <2> QED BY <2>1, SectionKeepsDelivered, WakeKeepsDelivered, ClientKeepsDelivered
          DEF Next, Rest
<1>3. Delivered => PublishedIsCurrent
  BY DEF Delivered, PublishedIsCurrent, Settled, AllIdle, Owes
<1> QED BY <1>0, <1>1, <1>2, <1>3, TypeCorrect, HandlersFit, HandlersQueueOnce, SerialAlways,
           VersionsAlways, PTL DEF Spec

-----------------------------------------------------------------------------
(* Push and pull.  Without deletions the list kept for pulls is the one last pushed,   *)
(* and an open document has one or is about to.                                        *)

NothingForgotten == Kinds \cap {"rename", "delete"} = {}

\* The open handler that has not pushed its first list yet.
Opens(t, k) ==
  t.op = "open" /\ t.key = k /\ t.pc \in {"clear", "index", "compute", "store"}

Answered ==
  /\ diagnostics = published
  /\ \A s \in Slots : task[s].pc = "store" => task[s].diag # None
  /\ \A s \in Slots : task[s].pc = "compute" /\ task[s].op = "open"
                      => sources[task[s].key] # None /\ templates[task[s].key] # None
  /\ \A k \in Jinja : bufText[k] # None
                      => diagnostics[k] # None \/ \E s \in Slots : Opens(task[s], k)

LEMMA StoresFindings ==
  ASSUME NEW t, NEW u, Follows(t, u), u.pc = "store"
  PROVE  t.pc = "compute" /\ u.diag # None
BY IdleType DEF Follows, Over, Again, Published, Refreshes, Same, Starts

LEMMA OpenComputes ==
  ASSUME NEW t, Fits(t), NEW u, Follows(t, u), u.pc = "compute", u.op = "open"
  PROVE  t.pc = "index" /\ t.op = "open" /\ u.key = t.key
<1>1. ~Over(t, u) /\ u # Idle /\ ~Starts(u) /\ ~Refreshes(t, u)
  BY IdleType DEF Over, Starts, Refreshes
<1>2. ~Published(t, u)
  BY <1>1 DEF Published, Again
<1>3. t.pc # "keys" /\ t.pc # "sidecar" /\ t.pc # "latest"
  BY <1>1 DEF Follows, Fits, Again, Same, Republishers
<1> QED BY <1>1, <1>2, <1>3 DEF Follows, Same

LEMMA PushAndStore ==
  ASSUME TypeOK, AllFit, NothingForgotten, diagnostics = published, NEW s \in Slots, Section(s)
  PROVE  /\ diagnostics' = published'
         /\ \/ diagnostics' = diagnostics
            \/ /\ task[s].pc = "store"
               /\ diagnostics' = [diagnostics EXCEPT ![task[s].key] = task[s].diag]
<1>1. ~ForgetDeleted(s)
  BY DEF ForgetDeleted, At, AllFit, Fits, NothingForgotten
<1>2. StoreAndPush(s) \/ UNCHANGED findings \/ UNCHANGED server
  BY <1>1 DEF Section, DidOpenClear, Pass1, DidChangeRecord, DidChangeIsLatest, DidClose,
     ComputeDiagnostics, RepublishKeys, RefreshFlags, ClassifyEvent, SidecarBase,
     RefreshSidecar, LocateFolder, DiscoverConfig, ApplyConfig, ApplyOverlay,
     ProgressFlag, ScanInputs, CommitScan, HoldGuard
<1> QED BY <1>2 DEF server, findings, StoreAndPush, At

LEMMA SectionKeepsAnswered ==
  ASSUME NothingForgotten, TypeOK, AllFit, QueueFits, Serial, Answered,
         NEW s \in Slots, Section(s)
  PROVE  Answered'
<1> DEFINE t == task[s]
           u == task'[s]
<1>0. /\ SchedOK /\ t.pc \in Sections /\ t \in Handlers /\ Carries(t) /\ Fits(t)
      /\ Follows(t, u) /\ UNCHANGED bufText /\ Moves(s)
      /\ diagnostics \in [Keys -> Findings \cup {None}]
  BY SectionMoves, StepsKeepClient
     DEF TypeOK, SchedOK, ServerOK, AllFit, Moves, client, editor
<1>1. \A r \in Slots : r # s => task[r].pc \notin Sections /\ task'[r] = task[r]
  BY <1>0, SerialQueue DEF Moves, SchedOK
<1>2. "store" \in Sections /\ "compute" \in Sections
  BY DEF Sections, ReadSections, WriteSections
<1>3. t.pc = "store" => t.key \in Keys /\ t.diag # None
  BY <1>0 DEF Carries, Answered
<1>4. diagnostics' = published'
  BY PushAndStore DEF Answered
<1>5. \A k \in Keys : diagnostics[k] # None => diagnostics'[k] # None
  BY <1>0, <1>3, PushAndStore DEF Answered
<1>6. u.pc = "store" => u.diag # None
  BY <1>0, StoresFindings
<1>7. u.pc = "compute" /\ u.op = "open" => sources'[u.key] # None /\ templates'[u.key] # None
  <2> SUFFICES ASSUME u.pc = "compute", u.op = "open"
               PROVE  sources'[u.key] # None /\ templates'[u.key] # None
    OBVIOUS
  <2>1. t.pc = "index" /\ u.key = t.key
    BY <1>0, OpenComputes
  <2>2. t.key \in Keys /\ t.text # None
    BY <1>0, <2>1, NoneAssumption DEF Carries, Texts
  <2>3. sources'[t.key] = t.text /\ templates'[t.key] = t.text
    BY <2>1, <2>2, SectionAt DEF Pass1, UpdateFile, TypeOK, ServerOK
  <2> QED BY <2>1, <2>2, <2>3
<1>8. ASSUME NEW k \in Jinja, bufText'[k] # None
      PROVE  diagnostics'[k] # None \/ \E r \in Slots : Opens(task'[r], k)
  <2>0. k \in Keys /\ (diagnostics[k] # None \/ \E r \in Slots : Opens(task[r], k))
    BY <1>0, <1>8, DepsAssumption DEF Answered
  <2>1. CASE diagnostics[k] # None
    BY <1>5, <2>0, <2>1
  <2>2. ASSUME NEW r \in Slots, r # s, Opens(task[r], k)
        PROVE  Opens(task'[r], k)
    BY <1>1, <2>2
  <2>3. CASE Opens(t, k)
    <3>1. CASE t.pc \in {"clear", "index"}
      BY <1>0, <2>3, <3>1 DEF Opens, Follows, Same
    <3>2. CASE t.pc = "compute"
      <4>1. Compute(k) # None
        <5>1. sources[k] # None /\ templates[k] # None
          BY <2>3, <3>2 DEF Opens, Answered
        <5> QED BY <2>0, <5>1, ComputeDefined DEF TypeOK
      <4> QED BY <1>0, <2>3, <3>2, <4>1 DEF Opens, Follows, Same
    <3>3. CASE t.pc = "store"
      <4>1. diagnostics'[k] = t.diag
        BY <1>0, <1>3, <2>3, <3>3, SectionAt DEF Opens, StoreAndPush
      <4> QED BY <1>3, <3>3, <4>1
    <3> QED BY <2>3, <3>1, <3>2, <3>3 DEF Opens
  <2> QED BY <2>0, <2>1, <2>2, <2>3
<1> QED BY <1>1, <1>2, <1>4, <1>6, <1>7, <1>8 DEF Answered

LEMMA WakeKeepsAnswered ==
  ASSUME TypeOK, AllFit, Answered, NEW s \in Slots, Wake(s)
  PROVE  Answered'
<1> DEFINE t == task[s]
           u == task'[s]
<1>0. /\ t.pc \in Waits /\ Fits(t) /\ Follows(t, u)
      /\ \A r \in Slots : r # s => task'[r] = task[r]
      /\ UNCHANGED <<bufText, sources, templates, diagnostics, published>>
  <2>1. UNCHANGED bufText
    BY StepsKeepClient DEF client, editor
  <2>2. UNCHANGED <<sources, templates, diagnostics, published>>
    BY WakeKeepsServer DEF server, index, findings
  <2> QED BY <2>1, <2>2, WakeMoves DEF TypeOK, SchedOK, AllFit, Moves
<1>1. t.pc \notin {"clear", "index", "compute", "store"}
  BY <1>0 DEF Waits
<1>2. u.pc # "store"
  BY <1>0, <1>1, StoresFindings
<1>3. ~(u.pc = "compute" /\ u.op = "open")
  BY <1>0, <1>1, OpenComputes
<1>4. \A k : ~Opens(t, k)
  BY <1>1 DEF Opens
<1> QED BY <1>0, <1>2, <1>3, <1>4 DEF Answered

LEMMA ClientKeepsAnswered ==
  ASSUME TypeOK, Answered, Client
  PROVE  Answered'
<1>0. /\ UNCHANGED <<sources, templates, diagnostics, published>>
      /\ SchedOK /\ Jinja \subseteq Keys /\ bufText \in [Keys -> Texts \cup {None}]
  BY ClientKeepsServer, DepsAssumption DEF server, index, findings, TypeOK, ClientOK
<1>1. ASSUME NEW s \in Slots, Moves(s), task[s].pc = "idle",
             \A k \in Jinja : bufText'[k] # None => bufText[k] # None \/ Opens(task'[s], k)
      PROVE  Answered'
  <2>1. Starts(task'[s]) /\ \A r \in Slots : r # s => task'[r] = task[r]
    BY <1>0, <1>1 DEF Moves, Follows, SchedOK
  <2>2. task'[s].pc # "store" /\ task'[s].pc # "compute"
    BY <2>1, IdleType DEF Starts
  <2>3. \A k : ~Opens(task[s], k)
    BY <1>1 DEF Opens
  <2>4. \A k \in Jinja : bufText'[k] # None
           => diagnostics'[k] # None \/ \E r \in Slots : Opens(task'[r], k)
    BY <1>0, <1>1, <2>1, <2>3 DEF Answered
  <2> QED BY <1>0, <2>1, <2>2, <2>4 DEF Answered
<1>2. ASSUME UNCHANGED task, \A k \in Jinja : bufText'[k] # None => bufText[k] # None
      PROVE  Answered'
  BY <1>0, <1>2 DEF Answered
<1>3. ASSUME NEW k \in Keys, EditorOpen(k) PROVE Answered'
  <2>1. PICK s \in Slots, t \in Handlers :
          /\ Begins(s, t)
          /\ IF k \in Jinja
             THEN t.pc = "clear" /\ t.op = "open" /\ t.key = k /\ t.text = bufText'[k]
             ELSE t = Idle
    BY <1>3, OpenBegins
  <2>2. k \in Jinja => Opens(task'[s], k)
    BY <2>1 DEF Begins, Opens
  <2>3. \A j \in Keys : j # k => bufText'[j] = bufText[j]
    BY <1>0, <1>3 DEF EditorOpen
  <2> QED BY <1>0, <1>1, <2>1, <2>2, <2>3 DEF Begins
<1>4. ASSUME ~\E k \in Keys : EditorOpen(k)
      PROVE  \A k \in Jinja : bufText'[k] # None => bufText[k] # None
  BY <1>0, <1>4 DEF Client, EditorChange, EditorClose, EditorSave, FileWritten,
     FileDeleted, HintsWritten, RenameRefused, ConfigWritten, DeliverEvents,
     SettingsChanged, editor
<1> QED BY <1>1, <1>2, <1>3, <1>4, ClientMoves

\* Push and pull cannot disagree: without deletions, whenever the server has handled
\* everything it holds, a pull for an open document answers with the list last pushed.
THEOREM PullsMatchPushes == NothingForgotten /\ Spec => []PullAgreesWithPush
<1> SUFFICES ASSUME NothingForgotten PROVE Spec => []PullAgreesWithPush
  OBVIOUS
<1>0. NoRenames
  BY DEF NothingForgotten, NoRenames
<1>1. Init => Answered
  <2> SUFFICES ASSUME Init PROVE Answered
    OBVIOUS
  <2>1. \A s \in Slots : task[s].pc \notin {"store", "compute"}
    <3>1. Handler("scan", "greet", None).pc = "greet"
      BY HandlerType DEF Ops, Pcs, Waits
    <3> QED BY <3>1, IdleType DEF Init
  <2> QED BY <2>1, DepsAssumption DEF Init, Answered
<1>2. TypeOK /\ AllFit /\ QueueFits /\ Serial /\ Answered /\ [Next]_vars => Answered'
  <2> SUFFICES ASSUME TypeOK, AllFit, QueueFits, Serial, Answered, [Next]_vars
               PROVE  Answered'
    OBVIOUS
  <2>1. CASE UNCHANGED vars
    BY <2>1 DEF vars, client, editor, server, index, findings, sched, Answered
  <2> QED BY <2>1, SectionKeepsAnswered, WakeKeepsAnswered, ClientKeepsAnswered DEF Next, Rest
<1>3. Answered => PullAgreesWithPush
  BY DepsAssumption DEF Answered, PullAgreesWithPush, Settled, AllIdle, Opens, Pull
<1> QED BY <1>0, <1>1, <1>2, <1>3, TypeCorrect, HandlersFit, HandlersQueueOnce, SerialAlways,
           PTL DEF Spec

-----------------------------------------------------------------------------
(* The scan.  While the files and their configuration stay as they are, a discovered   *)
(* file is in the index or a scan is still to bring it.                                *)

FilesStay == Kinds \cap {"save", "write", "delete", "config"} = {}

Wanted(k) == disk[k] # None /\ k \in Layout[config[Owner[k]]]
BeforeWalk == {"greet", "progress", "create", "inputs"}
Walking == {"walk", "walked", "commit"}

\* The scan will still commit the folder of k.
Scans(t, k) == t.pc \in BeforeWalk \/ (t.pc \in Walking /\ Owner[k] \in t.folders)

\* The walk is over every wanted file, and found each.
WalksAll(t) ==
  /\ t.pc \in Walking => \A k \in Keys : Wanted(k) => k \in t.layout
  /\ t.pc \in {"walked", "commit"} => \A k \in Keys : Wanted(k) => t.found[k] # None

Scanned ==
  /\ \A s \in Slots : WalksAll(task[s])
  /\ \A k \in Keys : Wanted(k) => templates[k] # None \/ \E s \in Slots : Scans(task[s], k)

LEMMA WantedStays ==
  ASSUME FilesStay, TypeOK, AllFit, [Next]_vars
  PROVE  UNCHANGED <<disk, config>>
<1>1. UNCHANGED config
  <2>1. \A s \in Slots : ~ApplyConfig(s)
    BY DEF ApplyConfig, At, AllFit, Fits, FilesStay
  <2> QED BY <2>1, ConfigWriters
<1>2. CASE Client
  BY <1>1, <1>2 DEF FilesStay, Client, EditorOpen, EditorChange, EditorClose, EditorSave,
     FileWritten, FileDeleted, HintsWritten, RenameRefused, ConfigWritten, DeliverEvents,
     SettingsChanged, Act, files
<1>3. ASSUME NEW s \in Slots, Section(s) \/ Wake(s) PROVE UNCHANGED disk
  BY <1>3, StepsKeepClient DEF client, files
<1>4. CASE UNCHANGED vars
  BY <1>1, <1>4 DEF vars, client, files
<1> QED BY <1>1, <1>2, <1>3, <1>4 DEF Next, Rest

\* The wanted files that are indexed stay indexed.
LEMMA IndexedStays ==
  ASSUME FilesStay, TypeOK, AllFit, Scanned, [Next]_vars, NEW k \in Keys, Wanted(k),
         templates[k] # None
  PROVE  templates'[k] # None
<1>0. templates \in [Keys -> Texts \cup {None}]
  BY DEF TypeOK, ServerOK
<1>1. \A s \in Slots : ~ForgetDeleted(s)
  BY DEF ForgetDeleted, At, AllFit, Fits, FilesStay
<1>2. ASSUME NEW s \in Slots, Pass1(s) PROVE templates'[k] # None
  <2>1. task[s].text # None
    BY <1>2, NoneAssumption DEF Pass1, At, TypeOK, SchedOK, Carries, Texts
  <2> QED BY <1>0, <1>2, <2>1 DEF Pass1, UpdateFile
<1>3. ASSUME NEW s \in Slots, CommitScan(s) PROVE templates'[k] # None
  <2>1. task[s].found[k] # None
    BY <1>3 DEF CommitScan, At, Scanned, WalksAll
  <2> QED BY <1>0, <1>3, <2>1 DEF CommitScan
<1> QED BY <1>0, <1>1, <1>2, <1>3, IndexWriters

\* The step a scan is at decides what it does next.
LEMMA ScanAt ==
  ASSUME NEW s \in Slots, Section(s) \/ Wake(s)
  PROVE  LET pc == task[s].pc IN
         /\ pc = "inputs" => ScanInputs(s)
         /\ pc = "walk" => WalkFolder(s)
         /\ pc = "walked" => Walked(s)
         /\ pc = "commit" => CommitScan(s)
BY Zenon DEF Section, DidOpenClear, Pass1, DidChangeRecord, DidChangeIsLatest, DidClose,
   ComputeDiagnostics, StoreAndPush, RepublishKeys, RefreshFlags, ClassifyEvent, ForgetDeleted,
   SidecarBase, RefreshSidecar, LocateFolder, DiscoverConfig, ApplyConfig, ApplyOverlay,
   ProgressFlag, ScanInputs, CommitScan, HoldGuard, At,
   Wake, Flushed, Refreshed, ReadFile, FileRead, WalkFolder, Walked, Logged, Greeted,
   ProgressCreated, Registered, MessageShown, Waiting

LEMMA StepKeepsWalk ==
  ASSUME FilesStay, TypeOK, AllFit, Scanned, NEW s \in Slots, Section(s) \/ Wake(s)
  PROVE  /\ WalksAll(task[s])'
         /\ \A k \in Keys : Wanted(k) /\ Scans(task[s], k)
                            => Scans(task[s], k)' \/ templates'[k] # None
<1> DEFINE t == task[s]
           u == task'[s]
<1>0. /\ SchedOK /\ t \in Handlers /\ Fits(t) /\ Follows(t, u) /\ t.pc # "idle"
      /\ \A k \in Keys : Wanted(k)' <=> Wanted(k)
  <2>1. UNCHANGED <<disk, config>>
    BY WantedStays DEF Next
  <2> QED BY <2>1, SectionMoves, WakeMoves
          DEF TypeOK, SchedOK, AllFit, Moves, Wanted, Sections, ReadSections, WriteSections, Waits
<1>1. CASE t.pc \in {"greet", "progress", "create"}
  <2>1. u.pc \in BeforeWalk
    BY <1>0, <1>1 DEF Follows, BeforeWalk
  <2> QED BY <2>1 DEF WalksAll, Scans, BeforeWalk, Walking
<1>2. CASE t.pc = "inputs"
  <2> DEFINE l == {k \in Keys : k \in Layout[config[Owner[k]]]}
             v == Goto([t EXCEPT !.folders = Folders, !.layout = l], "walk")
  <2>1. ScanInputs(s)
    BY <1>2, ScanAt
  <2>2. u = v
    BY <1>0, <2>1 DEF ScanInputs, Then, SchedOK
  <2> HIDE DEF l
  <2>3. v.pc = "walk" /\ v.folders = Folders /\ v.layout = l
    BY <1>0, SMT DEF Goto, Handlers
  <2> HIDE DEF v
  <2>4. \A k \in Keys : Wanted(k) => k \in l /\ Owner[k] \in Folders
    BY OwnerAssumption DEF l, Wanted
  <2> QED BY <1>0, <2>2, <2>3, <2>4 DEF WalksAll, Scans, Walking
<1>3. CASE t.pc = "walk"
  <2> DEFINE f == [k \in Keys |-> IF k \in t.layout THEN disk[k] ELSE None]
             v == Goto([t EXCEPT !.found = f], "walked")
  <2>1. WalkFolder(s)
    BY <1>3, ScanAt
  <2>2. u = v
    BY <1>0, <2>1 DEF WalkFolder, SchedOK
  <2>3. \A k \in Keys : Wanted(k) => f[k] # None
    BY <1>3 DEF Scanned, WalksAll, Walking, Wanted
  <2> HIDE DEF f
  <2>4. v.pc = "walked" /\ v.folders = t.folders /\ v.layout = t.layout /\ v.found = f
    BY <1>0, SMT DEF Goto, Handlers
  <2> HIDE DEF v
  <2> QED BY <1>0, <1>3, <2>2, <2>3, <2>4 DEF Scanned, WalksAll, Scans, Walking, BeforeWalk
<1>4. CASE t.pc = "walked"
  <2> DEFINE v == Goto(t, "commit")
  <2>1. Walked(s)
    BY <1>4, ScanAt
  <2>2. u = v
    BY <1>0, <2>1 DEF Walked, Resume, SchedOK
  <2>3. v.pc = "commit" /\ v.folders = t.folders /\ v.layout = t.layout /\ v.found = t.found
    BY <1>0, SMT DEF Goto, Handlers
  <2> HIDE DEF v
  <2> QED BY <1>0, <1>4, <2>2, <2>3 DEF Scanned, WalksAll, Scans, Walking, BeforeWalk
<1>5. CASE t.pc = "commit"
  <2>0. CommitScan(s)
    BY <1>5, ScanAt
  <2>1. PICK f \in t.folders :
          /\ templates' = [k \in Keys |-> IF Owner[k] = f THEN t.found[k] ELSE templates[k]]
          /\ Then(s, IF t.folders = {f}
                     THEN Goto([t EXCEPT !.found = None, !.folders = {}, !.layout = {}], "log")
                     ELSE Goto([t EXCEPT !.found = None, !.folders = t.folders \ {f}], "walk"))
    BY <2>0 DEF CommitScan
  <2> DEFINE fs == t.folders \ {f}
             a == Goto([t EXCEPT !.found = None, !.folders = {}, !.layout = {}], "log")
             b == Goto([t EXCEPT !.found = None, !.folders = fs], "walk")
  <2>2. u = IF t.folders = {f} THEN a ELSE b
    BY <1>0, <2>1 DEF Then, SchedOK
  <2> HIDE DEF fs
  <2>3. a.pc = "log" /\ b.pc = "walk" /\ b.folders = fs /\ b.layout = t.layout
    BY <1>0, SMT DEF Goto, Handlers
  <2> HIDE DEF a, b
  <2>4. \A k \in Keys : Wanted(k) => k \in t.layout /\ t.found[k] # None
    BY <1>5 DEF Scanned, WalksAll, Walking
  <2>5. \A k \in Keys : Wanted(k) /\ Owner[k] = f => templates'[k] # None
    BY <2>1, <2>4
  <2>6. WalksAll(task[s])'
    BY <1>0, <2>2, <2>3, <2>4 DEF WalksAll, Walking
  <2>7. ASSUME NEW k \in Keys, Wanted(k), Scans(t, k), Owner[k] # f
        PROVE  Scans(task[s], k)'
    <3>1. Owner[k] \in fs /\ t.folders # {f}
      BY <1>5, <2>7 DEF Scans, BeforeWalk, fs
    <3> QED BY <2>2, <2>3, <3>1 DEF Scans, Walking
  <2> QED BY <2>5, <2>6, <2>7
<1>6. CASE t.pc \notin BeforeWalk \cup Walking
  <2>1. t.pc # "config"
    BY <1>0 DEF Fits, FilesStay
  <2>2. u.pc \notin Walking
    BY <1>0, <1>6, <2>1, IdleType
       DEF Follows, BeforeWalk, Walking, Over, Again, Published, Refreshes
  <2> QED BY <1>6, <2>2 DEF WalksAll, Scans, Walking
<1> QED BY <1>1, <1>2, <1>3, <1>4, <1>5, <1>6 DEF BeforeWalk, Walking

LEMMA ScannedStep ==
  ASSUME FilesStay, TypeOK, AllFit, Scanned, [Next]_vars
  PROVE  Scanned'
<1>0. \A k \in Keys : Wanted(k)' <=> Wanted(k)
  BY WantedStays DEF Wanted
<1>1. ASSUME NEW s \in Slots, \A r \in Slots : r # s => task'[r] = task[r],
             WalksAll(task[s])',
             \A k \in Keys : Wanted(k) /\ Scans(task[s], k)
                             => Scans(task[s], k)' \/ templates'[k] # None
      PROVE  Scanned'
  <2>1. ASSUME NEW r \in Slots PROVE WalksAll(task[r])'
    <3>1. CASE r = s
      BY <1>1, <3>1
    <3>2. CASE r # s
      BY <1>0, <1>1, <3>2 DEF Scanned, WalksAll
    <3> QED BY <3>1, <3>2
  <2>2. ASSUME NEW k \in Keys, Wanted(k)
        PROVE  templates'[k] # None \/ \E r \in Slots : Scans(task[r], k)'
    <3>1. CASE templates[k] # None
      BY <2>2, <3>1, IndexedStays
    <3>2. ASSUME NEW r \in Slots, r # s, Scans(task[r], k) PROVE Scans(task[r], k)'
      BY <1>1, <3>2 DEF Scans
    <3> QED BY <1>1, <2>2, <3>1, <3>2 DEF Scanned
  <2> QED BY <1>0, <2>1, <2>2 DEF Scanned
<1>2. ASSUME NEW s \in Slots, Section(s) \/ Wake(s) PROVE Scanned'
  <2>1. \A r \in Slots : r # s => task'[r] = task[r]
    BY <1>2, SectionMoves, WakeMoves DEF Moves, TypeOK, SchedOK
  <2> QED BY <1>1, <1>2, <2>1, StepKeepsWalk
<1>3. CASE UNCHANGED task
  <2>1. \A k \in Keys : Wanted(k) /\ templates[k] # None => templates'[k] # None
    BY IndexedStays
  <2> QED BY <1>0, <1>3, <2>1 DEF Scanned, WalksAll, Scans
<1>4. ASSUME NEW s \in Slots, Moves(s), task[s].pc = "idle" PROVE Scanned'
  <2>1. Starts(task'[s]) /\ \A r \in Slots : r # s => task'[r] = task[r]
    BY <1>4 DEF Moves, Follows, TypeOK, SchedOK
  <2>2. task'[s].pc \notin Walking
    BY <2>1, IdleType DEF Starts, Walking
  <2>3. WalksAll(task[s])'
    BY <2>2 DEF WalksAll, Walking
  <2>4. \A k : ~Scans(task[s], k)
    BY <1>4 DEF Scans, BeforeWalk, Walking
  <2> QED BY <1>1, <2>1, <2>3, <2>4
<1> QED BY <1>2, <1>3, <1>4, ClientMoves DEF Next, Rest, vars, sched

\* No discovered file is missing once the scans are over, whichever folder it belongs to
\* and whatever was opened, edited, closed or refused meanwhile.
THEOREM ScansComplete == FilesStay /\ Spec => []ScanIndexesWorkspace
<1> SUFFICES ASSUME FilesStay PROVE Spec => []ScanIndexesWorkspace
  OBVIOUS
<1>1. Init => Scanned
  <2> SUFFICES ASSUME Init PROVE Scanned
    OBVIOUS
  <2> DEFINE h == Handler("scan", "greet", None)
  <2>1. h.pc = "greet"
    BY HandlerType DEF Ops, Pcs, Waits
  <2> HIDE DEF h
  <2>2. \A s \in Slots : task[s] = IF s = 1 /\ "scan" \in Kinds THEN h ELSE Idle
    BY DEF Init, h
  <2>3. \A s \in Slots : WalksAll(task[s])
    BY <2>1, <2>2, IdleType DEF WalksAll, Walking
  <2>4. ASSUME NEW k \in Keys, Wanted(k)
        PROVE  templates[k] # None \/ \E s \in Slots : Scans(task[s], k)
    <3>1. CASE "scan" \in Kinds
      BY <2>1, <2>2, <3>1, SlotsAssumption DEF Scans, BeforeWalk
    <3>2. CASE "scan" \notin Kinds
      <4>1. config[Owner[k]] = 0
        BY OwnerAssumption DEF Init
      <4> QED BY <2>4, <3>2, <4>1 DEF Init, Wanted
    <3> QED BY <3>1, <3>2
  <2> QED BY <2>3, <2>4 DEF Scanned
<1>2. TypeOK /\ AllFit /\ Scanned /\ [Next]_vars => Scanned'
  BY ScannedStep
<1>3. Scanned => ScanIndexesWorkspace
  BY DEF Scanned, ScanIndexesWorkspace, Wanted, Scans, BeforeWalk, Walking, Settled, AllIdle
<1> QED BY <1>1, <1>2, <1>3, TypeCorrect, HandlersFit, PTL DEF Spec

(***************************************************************************)
(* Edits that overtake each other.  A refused rename holds a guard over an *)
(* await, and every handler that writes then queues behind it.  The queue  *)
(* is fair, so the edits of a document keep their order from section to    *)
(* section, and the last list stored for a key is a current one.           *)
(***************************************************************************)
\* a is ahead of b in the queue.
Before(q, a, b) == \E i, j \in Places(q) : i < j /\ q[i] = a /\ q[j] = b

LEMMA HeadBefore ==
  ASSUME NEW S, NEW q \in Seq(S), q # <<>>, Once(q)
  PROVE  /\ \A a : Queued(q, a) /\ a # Head(q) => Before(q, Head(q), a)
         /\ \A a : ~Before(q, a, Head(q))
<1>1. 1 \in Places(q) /\ Head(q) = q[1]
  BY TailPlaces, SMT DEF Places
<1>2. ASSUME NEW a, Queued(q, a), a # Head(q) PROVE Before(q, Head(q), a)
  <2>1. PICK j \in Places(q) : q[j] = a
    BY <1>2 DEF Queued
  <2>2. j # 1
    BY <1>1, <1>2, <2>1
  <2>3. 1 < j
    BY <2>1, <2>2, SMT DEF Places
  <2> QED BY <1>1, <2>1, <2>3 DEF Before
<1>3. ASSUME NEW a, Before(q, a, Head(q)) PROVE FALSE
  <2>1. PICK i, j \in Places(q) : i < j /\ q[j] = q[1]
    BY <1>1, <1>3 DEF Before
  <2>2. j = 1
    BY <1>1, <2>1 DEF Once
  <2> QED BY <2>1, <2>2, SMT DEF Places
<1> QED BY <1>2, <1>3

LEMMA TailBefore ==
  ASSUME NEW S, NEW q \in Seq(S), q # <<>>, NEW a, NEW b, a # Head(q), Before(q, a, b)
  PROVE  Before(Tail(q), a, b)
<1>1. PICK i, j \in Places(q) : i < j /\ q[i] = a /\ q[j] = b
  BY DEF Before
<1>2. i # 1 /\ j # 1
  <2>1. Head(q) = q[1]
    BY TailPlaces
  <2>2. i # 1
    BY <1>1, <2>1
  <2> QED BY <1>1, <2>2, SMT DEF Places
<1>3. i - 1 \in Places(Tail(q)) /\ j - 1 \in Places(Tail(q)) /\ Tail(q)[i - 1] = a /\ Tail(q)[j - 1] = b
  BY <1>1, <1>2, TailPlaces
<1>4. i - 1 < j - 1
  BY <1>1, SMT DEF Places
<1> QED BY <1>3, <1>4 DEF Before

LEMMA AppendBefore ==
  ASSUME NEW S, NEW q \in Seq(S), NEW x \in S
  PROVE  /\ \A a, b : Before(q, a, b) => Before(Append(q, x), a, b)
         /\ \A a : Queued(q, a) => Before(Append(q, x), a, x)
<1> DEFINE p == Append(q, x)
<1>1. Len(q) \in Nat /\ Len(p) = Len(q) + 1 /\ p[Len(q) + 1] = x
  BY AppendPlaces
<1>2. \A n \in Places(q) : n \in Places(p) /\ p[n] = q[n] /\ n < Len(q) + 1
  BY <1>1, AppendProperties, SMT DEF Places
<1>3. Len(q) + 1 \in Places(p)
  BY <1>1, SMT DEF Places
<1> HIDE DEF p
<1>4. \A a, b : Before(q, a, b) => Before(p, a, b)
  BY <1>2 DEF Before
<1>5. \A a : Queued(q, a) => Before(p, a, x)
  BY <1>1, <1>2, <1>3 DEF Before, Queued
<1> QED BY <1>4, <1>5 DEF p

\* A step keeps the order of the others and queues its slot behind them; what runs a
\* section was ahead of everything queued.
LEMMA MovesBefore ==
  ASSUME SchedOK, QueueFits, NEW s \in Slots, Moves(s)
  PROVE  /\ \A a, b : a # s /\ Before(lockq, a, b) => Before(lockq', a, b)
         /\ \A a : a # s /\ Queued(lockq, a) /\ task'[s].pc \in Sections => Before(lockq', a, s)
         /\ task[s].pc \in Sections => \A a : ~Before(lockq, a, s)
<1>0. lockq \in Seq(Slots) /\ Once(lockq)
  BY DEF SchedOK, QueueFits
<1>1. CASE task[s].pc \in Sections
  <2>1. /\ lockq # <<>> /\ Head(lockq) = s
        /\ lockq' = IF task'[s].pc \in Sections THEN Append(Tail(lockq), s) ELSE Tail(lockq)
    BY <1>1 DEF Moves, Runnable
  <2>2. Tail(lockq) \in Seq(Slots)
    BY <1>0, <2>1, TailPlaces
  <2>3. \A a : a # s /\ Queued(lockq, a) => Queued(Tail(lockq), a)
    BY <1>0, <2>1, TailQueued
  <2>4. \A a, b : a # s /\ Before(lockq, a, b) => Before(Tail(lockq), a, b)
    BY <1>0, <2>1, TailBefore
  <2>5. /\ \A a, b : Before(Tail(lockq), a, b) => Before(Append(Tail(lockq), s), a, b)
        /\ \A a : Queued(Tail(lockq), a) => Before(Append(Tail(lockq), s), a, s)
    BY <2>2, AppendBefore
  <2>6. \A a : ~Before(lockq, a, s)
    BY <1>0, <2>1, HeadBefore
  <2> QED BY <2>1, <2>3, <2>4, <2>5, <2>6
<1>2. CASE task[s].pc \notin Sections
  <2>1. lockq' = IF task'[s].pc \in Sections THEN Append(lockq, s) ELSE lockq
    BY <1>2 DEF Moves
  <2>2. /\ \A a, b : Before(lockq, a, b) => Before(Append(lockq, s), a, b)
        /\ \A a : Queued(lockq, a) => Before(Append(lockq, s), a, s)
    BY <1>0, AppendBefore
  <2> QED BY <1>2, <2>1, <2>2
<1> QED BY <1>1, <1>2

-----------------------------------------------------------------------------
(* The edits of a document *)

\* Documents are not closed, and nothing is written behind the editor's back.
SessionsStay == Kinds \cap {"close", "save", "write", "delete"} = {} /\ OwnFindings

Editing == {"record", "index", "latest"}
Edits(k) == {s \in Slots : task[s].op = "change" /\ task[s].key = k /\ task[s].pc \in Editing}
Openers(k) == {s \in Slots : task[s].op = "open" /\ task[s].key = k
                             /\ task[s].pc \in {"clear", "index"}}
Stage(s) == IF task[s].pc = "record" THEN 1 ELSE IF task[s].pc = "index" THEN 2 ELSE 3

\* A document that was never open has nothing under way.
Untouched(k) ==
  bufText[k] = None => /\ sources[k] = None /\ doc_versions[k] = None
                       /\ Openers(k) = {} /\ Edits(k) = {}

\* Until it has been indexed no edit is recorded.
OpensFirst(k) ==
  \A s \in Openers(k) : /\ sources[k] = None /\ doc_versions[k] = None
                        /\ \A r \in Openers(k) : r = s

Newer(k) ==
  \A s \in Edits(k) :
     /\ task[s].ver <= bufVer[k]
     /\ task[s].ver = bufVer[k] /\ task[s].pc \in {"record", "index"}
        => task[s].text = bufText[k]

\* An older edit is further on, or ahead in the queue.
Ordered(k) ==
  \A a, b \in Edits(k) : a # b =>
     /\ task[a].ver # task[b].ver
     /\ task[a].ver < task[b].ver
        => Stage(a) > Stage(b) \/ (Stage(a) = Stage(b) /\ Before(lockq, a, b))

\* An edit is recorded in its turn, and the newest recorded one is still on its way while
\* an older one is.
Marked(k) ==
  \A s \in Edits(k) :
     /\ task[s].pc # "record" => doc_versions[k] # None /\ task[s].ver <= doc_versions[k]
     /\ doc_versions[k] # None /\ task[s].ver < doc_versions[k]
        => \E b \in Edits(k) : task[b].pc # "record" /\ task[b].ver = doc_versions[k]
     /\ task[s].pc = "record" /\ task[s].ver < bufVer[k]
        => \E b \in Edits(k) : task[b].pc = "record" /\ task[b].ver = bufVer[k]

\* The newest edit is indexed, or on its way.
Newest(k) ==
  doc_versions[k] # None =>
    \/ /\ doc_versions[k] = bufVer[k]
       /\ \/ sources[k] = bufText[k]
          \/ \E b \in Edits(k) : task[b].pc = "index" /\ task[b].ver = bufVer[k]
    \/ /\ doc_versions[k] < bufVer[k]
       /\ \E b \in Edits(k) : task[b].pc = "record" /\ task[b].ver = bufVer[k]

Edited(k) == /\ Untouched(k) /\ OpensFirst(k) /\ Newer(k)
             /\ Ordered(k) /\ Marked(k) /\ Newest(k)
EditsFit == \A k \in Keys : Edited(k)

\* A step takes an edit one stage on, and makes no edit of anything else.
LEMMA EditMoves ==
  ASSUME SessionsStay, TypeOK, AllFit, NEW s \in Slots, Moves(s), task[s].pc # "idle",
         NEW k \in Keys
  PROVE  /\ \A r \in Slots : r # s => task'[r] = task[r]
         /\ s \in Edits(k)' =>
              /\ s \in Edits(k) /\ task'[s].ver = task[s].ver /\ Stage(s)' = Stage(s) + 1
              /\ \/ /\ task[s].pc = "record" /\ task'[s].pc = "index" /\ sources[k] # None
                    /\ task'[s].text = task[s].text
                 \/ task[s].pc = "index" /\ task'[s].pc = "latest"
         /\ s \in Openers(k)' =>
              s \in Openers(k) /\ task[s].pc = "clear" /\ task'[s].pc = "index"
<1> DEFINE t == task[s]
           u == task'[s]
<1>0. Fits(t) /\ Follows(t, u) /\ t.pc # "idle" /\ \A r \in Slots : r # s => task'[r] = task[r]
  BY DEF TypeOK, SchedOK, AllFit, Moves
<1>1. t.pc # "fetched"
  BY <1>0 DEF Fits, SessionsStay
<1>2. \/ u.pc \notin {"clear", "record", "index", "latest"}
      \/ t.pc = "clear" /\ u.pc = "index" /\ Same(t, u)
      \/ /\ t.pc = "record" /\ u.pc = "index" /\ Same(t, u) /\ u.text = t.text
         /\ sources[t.key] # None
      \/ t.pc = "index" /\ u.pc = "latest" /\ t.op = "change" /\ Same(t, u)
  BY <1>0, <1>1, IdleType DEF Follows, Over, Again, Published, Refreshes
<1>3. t.pc = "clear" => t.op = "open"
  BY <1>0 DEF Fits
<1>4. (t.pc = "record" => t.op = "change") /\ "open" # "change"
  BY <1>0 DEF Fits
<1>5. ASSUME s \in Edits(k)'
      PROVE  /\ s \in Edits(k) /\ u.ver = t.ver /\ Stage(s)' = Stage(s) + 1
             /\ \/ t.pc = "record" /\ u.pc = "index" /\ sources[k] # None /\ u.text = t.text
                \/ t.pc = "index" /\ u.pc = "latest"
  <2>1. u.op = "change" /\ u.key = k /\ u.pc \in Editing
    BY <1>5 DEF Edits
  <2>2. \/ t.pc = "record" /\ u.pc = "index" /\ Same(t, u) /\ u.text = t.text /\ sources[k] # None
        \/ t.pc = "index" /\ u.pc = "latest" /\ Same(t, u)
    BY <1>2, <1>3, <2>1 DEF Editing, Same
  <2>3. s \in Edits(k) /\ u.ver = t.ver
    BY <2>1, <2>2 DEF Edits, Editing, Same
  <2>4. Stage(s)' = Stage(s) + 1
    BY <2>2, SMT DEF Stage
  <2> QED BY <2>2, <2>3, <2>4
<1>6. ASSUME s \in Openers(k)'
      PROVE  s \in Openers(k) /\ t.pc = "clear" /\ u.pc = "index"
  <2>1. u.op = "open" /\ u.key = k /\ u.pc \in {"clear", "index"}
    BY <1>6 DEF Openers
  <2>2. t.pc = "clear" /\ u.pc = "index" /\ Same(t, u)
    BY <1>2, <1>4, <2>1 DEF Same
  <2> QED BY <2>1, <2>2 DEF Openers, Same
<1> QED BY <1>0, <1>5, <1>6

\* What the other handlers may rely on when s moves: they stay, in their order, and s
\* queues behind them.
LEMMA OthersStay ==
  ASSUME SessionsStay, TypeOK, AllFit, QueueFits, NEW s \in Slots, Moves(s), NEW k \in Keys
  PROVE  /\ \A r \in Slots : r # s => /\ task'[r] = task[r] /\ Stage(r)' = Stage(r)
                                    /\ (r \in Edits(k)' <=> r \in Edits(k))
                                    /\ (r \in Openers(k)' <=> r \in Openers(k))
         /\ \A a, b : a # s /\ Before(lockq, a, b) => Before(lockq', a, b)
         /\ \A a \in Edits(k) : a # s /\ s \in Edits(k)' => Before(lockq', a, s)
         /\ task[s].pc \in Sections => \A a : ~Before(lockq, a, s)
<1>0. SchedOK /\ \A r \in Slots : r # s => task'[r] = task[r]
  BY DEF TypeOK, SchedOK, Moves
<1>1. ASSUME NEW r \in Slots, r # s
      PROVE  /\ Stage(r)' = Stage(r) /\ (r \in Edits(k)' <=> r \in Edits(k))
             /\ (r \in Openers(k)' <=> r \in Openers(k))
  BY <1>0, <1>1 DEF Stage, Edits, Openers
<1>2. Editing \subseteq Sections
  BY DEF Editing, Sections, ReadSections, WriteSections
<1>3. ASSUME NEW a \in Edits(k), a # s, s \in Edits(k)'
      PROVE  Before(lockq', a, s)
  <2>1. Queued(lockq, a)
    BY <1>2 DEF Edits, QueueFits
  <2>2. task'[s].pc \in Sections
    BY <1>2, <1>3 DEF Edits
  <2> QED BY <1>0, <1>3, <2>1, <2>2, MovesBefore
<1> QED BY <1>0, <1>1, <1>3, MovesBefore
\* What does not touch a document's edits, text or mark keeps all that is said of them.
LEMMA EditedStays ==
  ASSUME NEW k \in Keys, Edited(k), Edits(k)' = Edits(k), Openers(k)' \subseteq Openers(k),
         \A r \in Edits(k) : task'[r] = task[r] /\ Stage(r)' = Stage(r),
         \A a, b \in Edits(k) : Before(lockq, a, b) => Before(lockq', a, b),
         sources'[k] = sources[k], doc_versions'[k] = doc_versions[k],
         bufText'[k] = bufText[k], bufVer'[k] = bufVer[k]
  PROVE  Edited(k)'
<1>1. Untouched(k)'
  BY DEF Edited, Untouched
<1>2. OpensFirst(k)'
  BY DEF Edited, OpensFirst
<1>3. Newer(k)'
  BY DEF Edited, Newer
<1>4. Ordered(k)'
  BY DEF Edited, Ordered
<1>5. Marked(k)'
  BY DEF Edited, Marked
<1>6. Newest(k)'
  BY DEF Edited, Newest
<1> QED BY <1>1, <1>2, <1>3, <1>4, <1>5, <1>6 DEF Edited

\* Only the edits and the first opening of a document write its text or its mark.
LEMMA OnlyEditsWrite ==
  ASSUME SessionsStay, TypeOK, AllFit, NEW s \in Slots, Section(s), NEW k \in Keys,
         s \notin Edits(k), s \notin Openers(k)
  PROVE  sources'[k] = sources[k] /\ doc_versions'[k] = doc_versions[k]
<1>0. Fits(task[s])
  BY DEF AllFit
<1>1. ~ForgetDeleted(s) /\ ~DidClose(s)
  BY <1>0 DEF Fits, SessionsStay, ForgetDeleted, DidClose, At
<1>2. Pass1(s) => task[s].key # k
  BY <1>0 DEF Fits, SessionsStay, Pass1, At, Edits, Openers, Editing
<1>3. DidOpenClear(s) => task[s].key # k
  BY <1>0 DEF Fits, DidOpenClear, At, Openers
<1>4. DidChangeRecord(s) => task[s].key # k
  BY <1>0 DEF Fits, DidChangeRecord, At, Edits, Editing
<1>5. sources \in [Keys -> Texts \cup {None}] /\ doc_versions \in [Keys -> Nat \cup {None}]
  BY DEF TypeOK, ServerOK
<1>6. sources'[k] = sources[k]
  BY <1>1, <1>2, <1>5, SourceWriters DEF Pass1, UpdateFile
<1>7. doc_versions'[k] = doc_versions[k]
  BY <1>1, <1>3, <1>4, <1>5, SessionWriters DEF DidOpenClear, DidChangeRecord, session
<1> QED BY <1>6, <1>7

\* An edit that runs leaves the older ones a stage ahead, and is itself not behind a newer.
LEMMA OldestRuns ==
  ASSUME TypeOK, QueueFits, NEW s \in Slots, Section(s), NEW k \in Keys, Ordered(k),
         s \in Edits(k), NEW b \in Edits(k), b # s
  PROVE  /\ task[b].ver \in Nat /\ task[s].ver \in Nat /\ task[b].ver # task[s].ver
         /\ Stage(b) \in 1..3 /\ Stage(s) \in 1..3
         /\ task[b].ver < task[s].ver => Stage(b) > Stage(s)
         /\ task[s].ver < task[b].ver => Stage(s) >= Stage(b)
<1>1. SchedOK /\ b \in Slots /\ task[b] \in Handlers /\ task[s] \in Handlers
  BY DEF TypeOK, SchedOK, Edits
<1>2. task[b].ver \in Nat /\ task[s].ver \in Nat
  BY <1>1, SMT DEF Handlers
<1>3. Stage(b) \in 1..3 /\ Stage(s) \in 1..3
  BY SMT DEF Stage
<1>4. ~Before(lockq, b, s)
  BY <1>1, SectionMoves, MovesBefore
<1>5. task[b].ver < task[s].ver => Stage(b) > Stage(s)
  BY <1>4 DEF Ordered
<1>6. task[s].ver < task[b].ver => Stage(s) >= Stage(b)
  BY <1>3 DEF Ordered
<1> QED BY <1>2, <1>3, <1>5, <1>6 DEF Ordered

LEMMA OrderStays ==
  ASSUME SessionsStay, TypeOK, AllFit, QueueFits, NEW s \in Slots, Section(s),
         NEW k \in Keys, Edited(k)
  PROVE  Ordered(k)'
<1>0. Moves(s) /\ task[s].pc \in Sections /\ task[s].pc # "idle"
  BY SectionMoves DEF Sections, ReadSections, WriteSections
<1> SUFFICES ASSUME NEW a \in Edits(k)', NEW b \in Edits(k)', a # b
             PROVE  /\ task'[a].ver # task'[b].ver
                    /\ task'[a].ver < task'[b].ver
                       => \/ Stage(a)' > Stage(b)'
                          \/ Stage(a)' = Stage(b)' /\ Before(lockq', a, b)
  BY DEF Ordered
<1>1. a \in Slots /\ b \in Slots /\ Ordered(k)
  BY DEF Edits, Edited
<1>2. CASE a # s /\ b # s
  <2>1. /\ a \in Edits(k) /\ task'[a] = task[a] /\ Stage(a)' = Stage(a)
        /\ b \in Edits(k) /\ task'[b] = task[b] /\ Stage(b)' = Stage(b)
    BY <1>0, <1>1, <1>2, OthersStay
  <2>2. Before(lockq, a, b) => Before(lockq', a, b)
    BY <1>0, <1>2, OthersStay
  <2> QED BY <1>1, <2>1, <2>2 DEF Ordered
<1>3. CASE a = s
  <2>1. /\ b \in Edits(k) /\ task'[b] = task[b] /\ Stage(b)' = Stage(b)
        /\ s \in Edits(k) /\ task'[s].ver = task[s].ver /\ Stage(s)' = Stage(s) + 1
    BY <1>0, <1>1, <1>3, OthersStay, EditMoves
  <2>2. /\ task[b].ver # task[s].ver /\ Stage(b) \in 1..3 /\ Stage(s) \in 1..3
        /\ task[s].ver < task[b].ver => Stage(s) >= Stage(b)
    BY <1>1, <1>3, <2>1, OldestRuns
  <2> QED BY <1>3, <2>1, <2>2
<1>4. CASE b = s
  <2>1. /\ a \in Edits(k) /\ task'[a] = task[a] /\ Stage(a)' = Stage(a)
        /\ s \in Edits(k) /\ task'[s].ver = task[s].ver /\ Stage(s)' = Stage(s) + 1
    BY <1>0, <1>1, <1>4, OthersStay, EditMoves
  <2>2. /\ task[a].ver # task[s].ver /\ Stage(a) \in 1..3 /\ Stage(s) \in 1..3
        /\ task[a].ver < task[s].ver => Stage(a) > Stage(s)
    BY <1>1, <1>4, <2>1, OldestRuns
  <2>3. Before(lockq', a, s)
    BY <1>0, <1>4, <2>1, OthersStay
  <2> QED BY <1>4, <2>1, <2>2, <2>3
<1> QED BY <1>2, <1>3, <1>4
\* The section of an edit: what it leaves alone whatever its stage.
LEMMA EditKeeps ==
  ASSUME SessionsStay, TypeOK, AllFit, QueueFits, NEW s \in Slots, Section(s),
         NEW k \in Keys, Edited(k), s \in Edits(k)
  PROVE  /\ bufText[k] # None /\ bufText'[k] = bufText[k] /\ bufVer'[k] = bufVer[k]
         /\ Untouched(k)' /\ Newer(k)' /\ Ordered(k)' /\ Openers(k)' = Openers(k)
         /\ \A r \in Edits(k)' : r \in Edits(k) /\ task'[r].ver = task[r].ver
         /\ \A r \in Edits(k) : r # s => r \in Edits(k)' /\ task'[r] = task[r]
<1>0. Moves(s) /\ task[s].pc # "idle" /\ UNCHANGED <<bufText, bufVer>>
  <2>1. Moves(s) /\ task[s].pc \in Sections
    BY SectionMoves
  <2> QED BY <2>1, StepsKeepClient DEF Sections, ReadSections, WriteSections, client, editor
<1>1. bufText[k] # None
  BY DEF Edited, Untouched
<1>2. \A r \in Edits(k) : r # s => r \in Edits(k)' /\ task'[r] = task[r]
  BY <1>0, OthersStay DEF Edits
<1>3. ASSUME NEW r \in Edits(k)'
      PROVE  /\ r \in Edits(k) /\ task'[r].ver = task[r].ver
             /\ task'[r].pc \in {"record", "index"}
                => task[r].pc \in {"record", "index"} /\ task'[r].text = task[r].text
  <2>1. r \in Slots
    BY DEF Edits
  <2>2. CASE r = s
    BY <1>0, <1>3, <2>2, EditMoves
  <2>3. CASE r # s
    BY <1>0, <1>3, <2>1, <2>3, OthersStay
  <2> QED BY <2>2, <2>3
<1>4. Newer(k)'
  BY <1>0, <1>3 DEF Edited, Newer
<1>5. Openers(k)' = Openers(k)
  <2>1. s \notin Openers(k)
    BY DEF Openers, Edits
  <2>2. s \notin Openers(k)'
    BY <1>0, <2>1, EditMoves
  <2>3. \A r \in Slots : r \in Openers(k)' <=> r \in Openers(k)
    BY <1>0, <2>1, <2>2, OthersStay
  <2> QED BY <2>3 DEF Openers
<1>6. Untouched(k)'
  BY <1>0, <1>1 DEF Untouched
<1> QED BY <1>0, <1>1, <1>2, <1>3, <1>4, <1>5, <1>6, OrderStays

\* A section that leaves the mark and the text alone loses no witness, unless the newest
\* recorded edit ends while an older one has still to come, which the order excludes.
LEMMA LatestRuns ==
  ASSUME SessionsStay, TypeOK, AllFit, QueueFits, NEW s \in Slots, Section(s),
         NEW k \in Keys, Edited(k), s \in Edits(k),
         \/ task[s].pc = "latest"
         \/ task[s].pc = "record" /\ doc_versions[k] = None,
         s \notin Edits(k)', sources'[k] = sources[k], doc_versions'[k] = doc_versions[k]
  PROVE  Edited(k)'
<1>0. /\ UNCHANGED <<bufText[k], bufVer[k]>> /\ Untouched(k)' /\ Newer(k)' /\ Ordered(k)'
      /\ Openers(k)' = Openers(k)
      /\ \A r \in Edits(k) : r # s => r \in Edits(k)' /\ task'[r] = task[r]
      /\ \A r \in Edits(k)' : r \in Edits(k) /\ r # s /\ task'[r] = task[r]
  BY EditKeeps
<1>1. OpensFirst(k)'
  BY <1>0 DEF Edited, OpensFirst
<1>2. ASSUME NEW r \in Edits(k)', task'[r].ver < task[s].ver
      PROVE  task[s].pc = "record" /\ task[r].pc # "record" /\ doc_versions[k] # None
  <2>1. r \in Edits(k) /\ r # s /\ task'[r] = task[r]
    BY <1>0
  <2>2. Stage(r) > Stage(s) /\ Stage(r) \in 1..3 /\ Stage(s) \in 1..3
    BY <1>2, <2>1, OldestRuns DEF Edited
  <2>3. task[s].pc # "latest" /\ task[r].pc # "record"
    BY <2>2, SMT DEF Stage
  <2> QED BY <2>1, <2>3 DEF Edited, Marked
<1>3. \A r \in Edits(k)' : ~(task'[r].ver < task[s].ver)
  BY <1>2
<1>4. Marked(k)'
  <2> SUFFICES ASSUME NEW r \in Edits(k)'
      PROVE  /\ task'[r].pc # "record" => doc_versions'[k] # None /\ task'[r].ver <= doc_versions'[k]
             /\ doc_versions'[k] # None /\ task'[r].ver < doc_versions'[k]
                => \E b \in Edits(k)' : task'[b].pc # "record" /\ task'[b].ver = doc_versions'[k]
             /\ task'[r].pc = "record" /\ task'[r].ver < bufVer'[k]
                => \E b \in Edits(k)' : task'[b].pc = "record" /\ task'[b].ver = bufVer'[k]
    BY DEF Marked
  <2>1. r \in Edits(k) /\ r # s /\ task'[r] = task[r]
    BY <1>0
  <2>2. task[r].pc # "record" => doc_versions[k] # None /\ task[r].ver <= doc_versions[k]
    BY <2>1 DEF Edited, Marked
  <2>3. ASSUME doc_versions[k] # None, task[r].ver < doc_versions[k]
        PROVE  \E b \in Edits(k)' : task'[b].pc # "record" /\ task'[b].ver = doc_versions[k]
    <3>1. PICK b \in Edits(k) : task[b].pc # "record" /\ task[b].ver = doc_versions[k]
      BY <2>1, <2>3 DEF Edited, Marked
    <3>2. b # s
      BY <1>3, <2>1, <2>3, <3>1
    <3> QED BY <1>0, <3>1, <3>2
  <2>4. ASSUME task[r].pc = "record", task[r].ver < bufVer[k]
        PROVE  \E b \in Edits(k)' : task'[b].pc = "record" /\ task'[b].ver = bufVer[k]
    <3>1. PICK b \in Edits(k) : task[b].pc = "record" /\ task[b].ver = bufVer[k]
      BY <2>1, <2>4 DEF Edited, Marked
    <3>2. b # s
      BY <1>3, <2>1, <2>4, <3>1
    <3> QED BY <1>0, <3>1, <3>2
  <2> QED BY <1>0, <2>1, <2>2, <2>3, <2>4
<1>5. Newest(k)'
  BY <1>0 DEF Edited, Newest
<1> QED BY <1>0, <1>1, <1>4, <1>5 DEF Edited

\* An edit is indexed: when it is not the newest recorded one, that one is indexed later.
LEMMA IndexRuns ==
  ASSUME SessionsStay, TypeOK, AllFit, QueueFits, NEW s \in Slots, Section(s),
         NEW k \in Keys, Edited(k), s \in Edits(k), task[s].pc = "index"
  PROVE  Edited(k)'
<1>0. /\ UNCHANGED <<bufText[k], bufVer[k]>> /\ Untouched(k)' /\ Newer(k)' /\ Ordered(k)'
      /\ Openers(k)' = Openers(k)
      /\ \A r \in Edits(k)' : r \in Edits(k) /\ task'[r].ver = task[r].ver
      /\ \A r \in Edits(k) : r # s => r \in Edits(k)' /\ task'[r] = task[r]
  BY EditKeeps
<1>1. /\ Follows(task[s], task'[s]) /\ task[s].key = k /\ task[s].op = "change"
      /\ sources'[k] = task[s].text /\ doc_versions'[k] = doc_versions[k]
  BY SectionMoves, SectionAt, ZenonT(40) DEF Moves, Pass1, UpdateFile, session, TypeOK, ServerOK, Edits
<1>2. s \in Edits(k)' /\ task'[s].pc = "latest" /\ task'[s].ver = task[s].ver
  BY <1>1 DEF Follows, Same, Edits, Editing
<1>3. doc_versions[k] # None /\ Openers(k) = {}
  BY DEF Edited, Marked, OpensFirst
<1>4. OpensFirst(k)'
  BY <1>0, <1>3 DEF OpensFirst
<1>5. \A r \in Edits(k)' : task'[r].pc = "record" <=> task[r].pc = "record"
  BY <1>0, <1>2
<1>6. \A r \in Edits(k) : r \in Edits(k)'
  BY <1>0, <1>2
<1>7. Marked(k)'
  BY <1>0, <1>1, <1>5, <1>6 DEF Edited, Marked
<1>8. CASE task[s].ver = bufVer[k]
  <2>1. sources'[k] = bufText'[k]
    BY <1>0, <1>1, <1>8 DEF Edited, Newer
  <2>2. Newest(k)'
    BY <1>0, <1>1, <1>5, <1>6, <2>1 DEF Edited, Newest
  <2> QED BY <1>0, <1>4, <1>7, <2>2 DEF Edited
<1>9. CASE task[s].ver # bufVer[k]
  <2>0. doc_versions[k] \in Nat /\ bufVer[k] \in Nat /\ task[s].ver <= bufVer[k]
        /\ task[s].ver <= doc_versions[k]
    BY <1>3 DEF TypeOK, ServerOK, ClientOK, Edited, Newer, Marked
  <2>1. ASSUME doc_versions[k] = bufVer[k]
        PROVE  \E b \in Edits(k)' : task'[b].pc = "index" /\ task'[b].ver = bufVer[k]
    <3>1. PICK b \in Edits(k) : task[b].pc # "record" /\ task[b].ver = bufVer[k]
      <4>1. task[s] \in Handlers
        BY DEF TypeOK, SchedOK
      <4>2. task[s].ver \in Nat
        BY <4>1, SMT DEF Handlers
      <4>3. task[s].ver < doc_versions[k]
        BY <1>9, <2>0, <2>1, <4>2
      <4> QED BY <1>3, <2>1, <4>3 DEF Edited, Marked
    <3>2. b # s
      BY <1>9, <3>1
    <3>3. /\ Stage(s) >= Stage(b) /\ Stage(b) \in 1..3
          /\ task[b].ver \in Nat /\ task[s].ver \in Nat
      <4>1. /\ Stage(b) \in 1..3 /\ task[b].ver \in Nat /\ task[s].ver \in Nat
            /\ task[s].ver < task[b].ver => Stage(s) >= Stage(b)
        BY <3>2, OldestRuns DEF Edited
      <4>2. task[s].ver < task[b].ver
        BY <1>9, <2>0, <3>1, <4>1
      <4> QED BY <4>1, <4>2
    <3>4. task[b].pc = "index"
      BY <3>1, <3>3, SMT DEF Stage
    <3> QED BY <1>0, <3>1, <3>2, <3>4
  <2>2. Newest(k)'
    <3>1. CASE doc_versions[k] = bufVer[k]
      BY <1>0, <1>1, <2>1, <3>1 DEF Newest
    <3>2. CASE doc_versions[k] # bufVer[k]
      <4>1. doc_versions[k] < bufVer[k]
            /\ \E b \in Edits(k) : task[b].pc = "record" /\ task[b].ver = bufVer[k]
        BY <1>3, <3>2 DEF Edited, Newest
      <4> QED BY <1>0, <1>1, <1>5, <1>6, <4>1 DEF Newest
    <3> QED BY <3>1, <3>2
  <2> QED BY <1>0, <1>4, <1>7, <2>2 DEF Edited
<1> QED BY <1>8, <1>9
\* An edit is recorded: no newer one has been, so the mark becomes its version.
LEMMA RecordRuns ==
  ASSUME SessionsStay, TypeOK, AllFit, QueueFits, MarksOnlyTracked, NEW s \in Slots, Section(s),
         NEW k \in Keys, Edited(k), s \in Edits(k), task[s].pc = "record", sources[k] # None
  PROVE  Edited(k)'
<1>0. /\ UNCHANGED <<bufText[k], bufVer[k]>> /\ Untouched(k)' /\ Newer(k)' /\ Ordered(k)'
      /\ Openers(k)' = Openers(k)
      /\ \A r \in Edits(k)' : r \in Edits(k) /\ task'[r].ver = task[r].ver
      /\ \A r \in Edits(k) : r # s => r \in Edits(k)' /\ task'[r] = task[r]
  BY EditKeeps
<1>1. /\ Follows(task[s], task'[s]) /\ task[s].key = k /\ task[s].op = "change"
      /\ sources'[k] = sources[k]
      /\ doc_versions'[k] = IF doc_versions[k] # None /\ doc_versions[k] > task[s].ver
                            THEN doc_versions[k] ELSE task[s].ver
  <2>1. Moves(s) /\ DidChangeRecord(s) /\ task[s].key = k /\ task[s].op = "change"
    BY SectionMoves, SectionAt DEF Edits
  <2>2. sources' = sources
    BY <2>1 DEF DidChangeRecord, index
  <2> QED BY <2>1, <2>2 DEF Moves, DidChangeRecord, TypeOK, ServerOK
<1>2. s \in Edits(k)' /\ task'[s].pc = "index" /\ task'[s].ver = task[s].ver
  BY <1>1 DEF Follows, Same, Edits, Editing
<1>3. \A b \in Edits(k) : task[b].ver \in Nat
  <2>1. \A b \in Edits(k) : task[b] \in Handlers
    BY DEF TypeOK, SchedOK, Edits
  <2> QED BY <2>1, SMT DEF Handlers
<1>4. bufVer[k] \in Nat /\ doc_versions[k] \in Nat \cup {None} /\ task[s].ver \in Nat
      /\ task[s].ver <= bufVer[k]
  BY <1>3 DEF TypeOK, ServerOK, ClientOK, Edited, Newer
<1>5. ASSUME NEW b \in Edits(k), b # s, task[b].ver < task[s].ver
      PROVE  task[b].pc # "record"
  <2>1. Stage(b) > Stage(s) /\ Stage(s) \in 1..3 /\ Stage(b) \in 1..3
    BY <1>5, OldestRuns DEF Edited
  <2> QED BY <2>1, SMT DEF Stage
<1>6. ASSUME NEW b \in Edits(k), b # s, task[s].ver < task[b].ver
      PROVE  task[b].pc = "record"
  <2>1. Stage(s) >= Stage(b) /\ Stage(s) \in 1..3 /\ Stage(b) \in 1..3
    BY <1>6, OldestRuns DEF Edited
  <2>2. Stage(s) = 1
    BY DEF Stage
  <2> QED BY <2>1, <2>2, SMT DEF Stage
<1>7. ~(doc_versions[k] # None /\ doc_versions[k] > task[s].ver)
  <2> SUFFICES ASSUME doc_versions[k] # None, doc_versions[k] > task[s].ver PROVE FALSE
    OBVIOUS
  <2>1. task[s].ver < doc_versions[k]
    BY <1>4
  <2>2. PICK b \in Edits(k) : task[b].pc # "record" /\ task[b].ver = doc_versions[k]
    BY <2>1 DEF Edited, Marked
  <2> QED BY <1>6, <2>1, <2>2
<1>8. doc_versions'[k] = task[s].ver /\ doc_versions'[k] # None
  BY <1>1, <1>4, <1>7, NoneAssumption
<1>9. OpensFirst(k)'
  <2>1. Openers(k) = {}
    BY DEF Edited, OpensFirst
  <2> QED BY <1>0, <2>1 DEF OpensFirst
<1>10. ASSUME NEW r \in Edits(k)', r # s, task'[r].pc # "record"
       PROVE  task'[r].ver <= doc_versions'[k]
  <2>1. r \in Edits(k) /\ task'[r] = task[r]
    BY <1>0, <1>10
  <2>2. doc_versions[k] # None /\ task[r].ver <= doc_versions[k]
    BY <1>10, <2>1 DEF Edited, Marked
  <2> QED BY <1>3, <1>4, <1>7, <1>8, <2>1, <2>2
<1>11. ASSUME NEW r \in Edits(k)', task'[r].pc = "record", task'[r].ver < bufVer[k]
       PROVE  \E b \in Edits(k)' : task'[b].pc = "record" /\ task'[b].ver = bufVer[k]
  <2>1. r # s /\ r \in Edits(k) /\ task'[r] = task[r]
    BY <1>0, <1>2, <1>11
  <2>2. PICK b \in Edits(k) : task[b].pc = "record" /\ task[b].ver = bufVer[k]
    BY <1>11, <2>1 DEF Edited, Marked
  <2>3. b # s
    BY <1>5, <1>11, <2>1, <2>2
  <2> QED BY <1>0, <2>2, <2>3
<1>12. Marked(k)'
  <2>1. task'[s].pc # "record" => task'[s].ver <= doc_versions'[k]
    BY <1>2, <1>4, <1>8
  <2> QED BY <1>0, <1>2, <1>8, <1>10, <1>11, <2>1 DEF Marked
<1>13. Newest(k)'
  <2>1. CASE task[s].ver = bufVer[k]
    BY <1>0, <1>2, <1>8, <2>1 DEF Newest
  <2>2. CASE task[s].ver # bufVer[k]
    <3>1. task[s].ver < bufVer[k]
      BY <1>4, <2>2
    <3>2. PICK b \in Edits(k) : task[b].pc = "record" /\ task[b].ver = bufVer[k]
      BY <3>1 DEF Edited, Marked
    <3>3. b \in Edits(k)' /\ task'[b] = task[b]
      BY <1>0, <2>2, <3>2
    <3> QED BY <1>0, <1>8, <3>1, <3>2, <3>3 DEF Newest
  <2> QED BY <2>1, <2>2
<1> QED BY <1>0, <1>9, <1>12, <1>13 DEF Edited

\* The first opening of a document runs while nothing is recorded for it.
LEMMA OpenerRuns ==
  ASSUME SessionsStay, TypeOK, AllFit, QueueFits, NEW s \in Slots, Section(s),
         NEW k \in Keys, Edited(k), s \in Openers(k)
  PROVE  Edited(k)'
<1>0. /\ Moves(s) /\ task[s].pc # "idle" /\ UNCHANGED <<bufText, bufVer>> /\ task[s].key = k
      /\ task[s].op = "open" /\ task[s].pc \in {"clear", "index"} /\ s \notin Edits(k)
  <2>1. Moves(s) /\ UNCHANGED <<bufText, bufVer>>
    BY SectionMoves, StepsKeepClient DEF client, editor
  <2> QED BY <2>1 DEF Openers, Edits
<1>1. sources[k] = None /\ doc_versions[k] = None /\ bufText[k] # None
      /\ \A r \in Openers(k) : r = s
  BY DEF Edited, OpensFirst, Untouched
<1>2. /\ Edits(k)' = Edits(k)
      /\ \A r \in Edits(k) : task'[r] = task[r] /\ Stage(r)' = Stage(r)
      /\ \A a, b \in Edits(k) : Before(lockq, a, b) => Before(lockq', a, b)
  <2>1. s \notin Edits(k)'
    BY <1>0, EditMoves
  <2>2. \A r \in Slots : r # s => /\ task'[r] = task[r] /\ Stage(r)' = Stage(r)
                                 /\ (r \in Edits(k)' <=> r \in Edits(k))
    BY <1>0, OthersStay
  <2>3. Edits(k)' = Edits(k)
    BY <1>0, <2>1, <2>2 DEF Edits
  <2>4. \A a \in Edits(k) : a \in Slots /\ a # s
    BY <1>0 DEF Edits
  <2>5. \A a, b : a # s /\ Before(lockq, a, b) => Before(lockq', a, b)
    BY <1>0, OthersStay
  <2> QED BY <2>2, <2>3, <2>4, <2>5
<1>3. Openers(k)' \subseteq Openers(k) /\ (s \in Openers(k)' => task[s].pc = "clear")
  <2>1. \A r \in Slots : r # s => (r \in Openers(k)' <=> r \in Openers(k))
    BY <1>0, OthersStay
  <2>2. s \in Openers(k)' => s \in Openers(k) /\ task[s].pc = "clear"
    BY <1>0, EditMoves
  <2> QED BY <2>1, <2>2 DEF Openers
<1>4. CASE task[s].pc = "clear"
  <2>1. DidOpenClear(s)
    BY <1>4, SectionAt
  <2>2. sources'[k] = sources[k] /\ doc_versions'[k] = doc_versions[k]
    BY <1>0, <1>1, <2>1 DEF DidOpenClear, index, TypeOK, ServerOK
  <2> QED BY <1>0, <1>2, <1>3, <2>2, EditedStays
<1>5. CASE task[s].pc = "index"
  <2>1. Pass1(s)
    BY <1>5, SectionAt
  <2>2. doc_versions'[k] = None
    BY <1>1, <2>1 DEF Pass1, session
  <2>3. Openers(k)' = {}
    BY <1>1, <1>3, <1>5
  <2>4. Untouched(k)' /\ OpensFirst(k)' /\ Newest(k)'
    BY <1>0, <1>1, <2>2, <2>3 DEF Untouched, OpensFirst, Newest
  <2>5. Newer(k)' /\ Ordered(k)'
    <3>1. Newer(k)'
      BY <1>0, <1>2 DEF Edited, Newer
    <3> QED BY <3>1, OrderStays
  <2>6. Marked(k)'
    BY <1>0, <1>1, <1>2, <2>2 DEF Edited, Marked
  <2> QED BY <2>4, <2>5, <2>6 DEF Edited
<1> QED BY <1>0, <1>4, <1>5

\* A step of a handler that neither edits nor opens a document keeps the document's edits.
LEMMA OthersKeepEdits ==
  ASSUME SessionsStay, TypeOK, AllFit, QueueFits, NEW s \in Slots, Moves(s),
         NEW k \in Keys, Edited(k), s \notin Edits(k), s \notin Openers(k),
         s \notin Edits(k)', s \notin Openers(k)',
         sources'[k] = sources[k], doc_versions'[k] = doc_versions[k],
         bufText'[k] = bufText[k], bufVer'[k] = bufVer[k]
  PROVE  Edited(k)'
<1>1. \A r \in Slots : r # s => /\ task'[r] = task[r] /\ Stage(r)' = Stage(r)
                               /\ (r \in Edits(k)' <=> r \in Edits(k))
                               /\ (r \in Openers(k)' <=> r \in Openers(k))
  BY OthersStay
<1>2. Edits(k)' = Edits(k) /\ Openers(k)' \subseteq Openers(k)
  BY <1>1 DEF Edits, Openers
<1>3. \A a \in Edits(k) : a \in Slots /\ a # s
  BY DEF Edits
<1>4. \A a, b : a # s /\ Before(lockq, a, b) => Before(lockq', a, b)
  BY OthersStay
<1> QED BY <1>1, <1>2, <1>3, <1>4, EditedStays

LEMMA SectionKeepsEdits ==
  ASSUME SessionsStay, TypeOK, AllFit, QueueFits, MarksOnlyTracked, NEW s \in Slots, Section(s),
         NEW k \in Keys, Edited(k)
  PROVE  Edited(k)'
<1>0. Moves(s) /\ task[s].pc # "idle" /\ UNCHANGED <<bufText, bufVer>>
  <2>1. Moves(s) /\ task[s].pc \in Sections
    BY SectionMoves
  <2> QED BY <2>1, StepsKeepClient DEF Sections, ReadSections, WriteSections, client, editor
<1>1. CASE s \in Edits(k)
  <2>0. task[s].key = k /\ task[s].op = "change" /\ task[s].pc \in Editing
    BY <1>1 DEF Edits
  <2>1. CASE task[s].pc = "record" /\ sources[k] = None
    <3>1. doc_versions[k] = None
      BY <2>1 DEF MarksOnlyTracked
    <3>2. task'[s] = Idle
      BY <1>0, <2>0, <2>1 DEF Moves, Follows
    <3>3. s \notin Edits(k)'
      BY <3>2, IdleType DEF Edits, Editing
    <3>4. sources'[k] = sources[k] /\ doc_versions'[k] = doc_versions[k]
      BY <2>0, <2>1, SectionAt DEF DidChangeRecord, index
    <3> QED BY <1>1, <2>1, <3>1, <3>3, <3>4, LatestRuns
  <2>2. CASE task[s].pc = "record" /\ sources[k] # None
    BY <1>1, <2>2, RecordRuns
  <2>3. CASE task[s].pc = "index"
    BY <1>1, <2>3, IndexRuns
  <2>4. CASE task[s].pc = "latest"
    <3>1. task'[s].pc \in {"idle", "compute"}
      BY <1>0, <2>4, IdleType DEF Moves, Follows
    <3>2. s \notin Edits(k)'
      BY <3>1 DEF Edits, Editing
    <3>3. UNCHANGED server
      BY <2>4, SectionAt DEF DidChangeIsLatest
    <3>4. sources'[k] = sources[k] /\ doc_versions'[k] = doc_versions[k]
      BY <3>3 DEF server, index, session
    <3> QED BY <1>1, <2>4, <3>2, <3>4, LatestRuns
  <2> QED BY <2>0, <2>1, <2>2, <2>3, <2>4 DEF Editing
<1>2. CASE s \in Openers(k)
  BY <1>2, OpenerRuns
<1>3. CASE s \notin Edits(k) /\ s \notin Openers(k)
  <2>1. s \notin Edits(k)' /\ s \notin Openers(k)'
    BY <1>0, <1>3, EditMoves
  <2> QED BY <1>0, <1>3, <2>1, OnlyEditsWrite, OthersKeepEdits
<1> QED BY <1>1, <1>2, <1>3

LEMMA WakeKeepsEdits ==
  ASSUME SessionsStay, TypeOK, AllFit, QueueFits, NEW s \in Slots, Wake(s),
         NEW k \in Keys, Edited(k)
  PROVE  Edited(k)'
<1>1. Moves(s) /\ task[s].pc \in Waits
  BY WakeMoves
<1>2. task[s].pc # "idle" /\ s \notin Edits(k) /\ s \notin Openers(k)
  BY <1>1 DEF Waits, Edits, Openers, Editing
<1>3. UNCHANGED <<bufText, bufVer>>
  BY StepsKeepClient DEF client, editor
<1>4. sources'[k] = sources[k] /\ doc_versions'[k] = doc_versions[k]
  BY WakeKeepsServer DEF server, index, session
<1>5. s \notin Edits(k)' /\ s \notin Openers(k)'
  BY <1>1, <1>2, EditMoves
<1> QED BY <1>1, <1>2, <1>3, <1>4, <1>5, OthersKeepEdits

\* A message to a document starts at the tail of the queue.
LEMMA OpenKeepsEdits ==
  ASSUME SessionsStay, TypeOK, AllFit, QueueFits, NEW k \in Keys, Edited(k), EditorOpen(k)
  PROVE  Edited(k)'
<1>1. /\ sources[k] = None /\ doc_versions[k] = None /\ Openers(k) = {} /\ Edits(k) = {}
      /\ bufText[k] = None
  BY DEF EditorOpen, Edited, Untouched
<1>2. PICK s \in Slots, t \in Handlers :
        Begins(s, t) /\ (t = Idle \/ (t.pc = "clear" /\ t.op = "open"))
  BY OpenBegins
<1>3. s \notin Edits(k)' /\ \A r \in Slots : r # s => task'[r] = task[r]
  BY <1>2, IdleType DEF Edits, Editing, Begins, Moves, TypeOK, SchedOK
<1>4. Edits(k)' = {} /\ Openers(k)' \subseteq {s}
  BY <1>1, <1>3 DEF Edits, Openers
<1>5. sources'[k] = None /\ doc_versions'[k] = None
  BY <1>1 DEF EditorOpen, server, index, session
<1>6. bufText'[k] # None
  <2>1. NewText \in Nat
    BY ActRoom DEF EditorOpen, TypeOK
  <2> QED BY <2>1, NoneAssumption DEF EditorOpen, TypeOK, ClientOK
<1>7. Untouched(k)' /\ OpensFirst(k)' /\ Newest(k)'
  BY <1>4, <1>5, <1>6 DEF Untouched, OpensFirst, Newest
<1>8. Newer(k)' /\ Ordered(k)' /\ Marked(k)'
  BY <1>4 DEF Newer, Ordered, Marked
<1> QED BY <1>7, <1>8 DEF Edited

LEMMA ChangeKeepsEdits ==
  ASSUME SessionsStay, TypeOK, AllFit, QueueFits, NEW k \in Keys, Edited(k), EditorChange(k)
  PROVE  Edited(k)'
<1>1. PICK s \in Slots, t \in Handlers :
        /\ Begins(s, t) /\ t.pc = "record" /\ t.op = "change" /\ t.key = k
        /\ t.text = bufText'[k] /\ t.ver = bufVer'[k]
  BY ChangeBegins
<1>2. /\ Moves(s) /\ task[s].pc = "idle" /\ task'[s] = t /\ s \notin Edits(k)
      /\ s \notin Openers(k) /\ s \in Edits(k)' /\ s \notin Openers(k)'
  BY <1>1 DEF Begins, Edits, Openers, Editing
<1>3. /\ \A r \in Slots : r # s => /\ task'[r] = task[r] /\ Stage(r)' = Stage(r)
                                  /\ (r \in Edits(k)' <=> r \in Edits(k))
                                  /\ (r \in Openers(k)' <=> r \in Openers(k))
      /\ \A a, b : a # s /\ Before(lockq, a, b) => Before(lockq', a, b)
      /\ \A a \in Edits(k) : a # s => Before(lockq', a, s)
  BY <1>2, OthersStay
<1>4. /\ Edits(k)' = Edits(k) \cup {s} /\ Openers(k)' = Openers(k)
      /\ \A r \in Edits(k) : r # s /\ r \in Slots /\ task'[r] = task[r] /\ Stage(r)' = Stage(r)
  BY <1>2, <1>3 DEF Edits, Openers
<1>5. /\ bufVer[k] \in Nat /\ bufVer'[k] = bufVer[k] + 1 /\ bufText'[k] # None
      /\ sources'[k] = sources[k] /\ doc_versions'[k] = doc_versions[k]
      /\ doc_versions[k] \in Nat \cup {None}
  <2>1. NewText \in Nat
    BY ActRoom DEF EditorChange, TypeOK
  <2>2. bufText'[k] # None /\ bufVer'[k] = bufVer[k] + 1
    BY <2>1, NoneAssumption DEF EditorChange, TypeOK, ClientOK
  <2> QED BY <2>2 DEF EditorChange, server, index, session, TypeOK, ClientOK, ServerOK
<1>6. \A r \in Edits(k) : task[r].ver \in Nat /\ task[r].ver <= bufVer[k]
                         /\ task[r].ver < bufVer'[k] /\ Stage(r) \in 1..3
  <2>1. \A r \in Edits(k) : task[r] \in Handlers
    BY DEF TypeOK, SchedOK, Edits
  <2>2. \A r \in Edits(k) : task[r].ver \in Nat
    BY <2>1, SMT DEF Handlers
  <2>3. \A r \in Edits(k) : task[r].ver <= bufVer[k]
    BY DEF Edited, Newer
  <2> QED BY <1>5, <2>2, <2>3, SMT DEF Stage
<1>7. doc_versions[k] # None => doc_versions[k] < bufVer'[k]
  BY <1>5 DEF Edited, Newest
<1>8. Stage(s)' = 1
  BY <1>1, <1>2 DEF Stage
<1>9. Untouched(k)' /\ OpensFirst(k)'
  BY <1>4, <1>5 DEF Edited, Untouched, OpensFirst
<1>10. Newer(k)'
  <2> SUFFICES ASSUME NEW r \in Edits(k)'
      PROVE  /\ task'[r].ver <= bufVer'[k]
             /\ task'[r].ver = bufVer'[k] /\ task'[r].pc \in {"record", "index"}
                => task'[r].text = bufText'[k]
    BY DEF Newer
  <2>1. CASE r = s
    BY <1>1, <1>2, <1>5, <2>1
  <2>2. CASE r # s
    BY <1>4, <1>5, <1>6, <2>2
  <2> QED BY <2>1, <2>2
<1>11. Ordered(k)'
  <2> SUFFICES ASSUME NEW a \in Edits(k)', NEW b \in Edits(k)', a # b
      PROVE  /\ task'[a].ver # task'[b].ver
             /\ task'[a].ver < task'[b].ver
                => Stage(a)' > Stage(b)' \/ (Stage(a)' = Stage(b)' /\ Before(lockq', a, b))
    BY DEF Ordered
  <2>1. CASE b = s
    <3>1. a \in Edits(k) /\ task'[a] = task[a] /\ Stage(a)' = Stage(a)
      BY <1>4, <2>1
    <3> QED BY <1>1, <1>2, <1>3, <1>6, <1>8, <2>1, <3>1
  <2>2. CASE a = s
    <3>1. b \in Edits(k) /\ task'[b] = task[b]
      BY <1>4, <2>2
    <3> QED BY <1>1, <1>2, <1>5, <1>6, <2>2, <3>1
  <2>3. CASE a # s /\ b # s
    BY <1>3, <1>4, <2>3 DEF Edited, Ordered
  <2> QED BY <2>1, <2>2, <2>3
<1>12. Marked(k)'
  <2> SUFFICES ASSUME NEW r \in Edits(k)'
      PROVE  /\ task'[r].pc # "record" => doc_versions'[k] # None /\ task'[r].ver <= doc_versions'[k]
             /\ doc_versions'[k] # None /\ task'[r].ver < doc_versions'[k]
                => \E b \in Edits(k)' : task'[b].pc # "record" /\ task'[b].ver = doc_versions'[k]
             /\ task'[r].pc = "record" /\ task'[r].ver < bufVer'[k]
                => \E b \in Edits(k)' : task'[b].pc = "record" /\ task'[b].ver = bufVer'[k]
    BY DEF Marked
  <2>1. \E b \in Edits(k)' : task'[b].pc = "record" /\ task'[b].ver = bufVer'[k]
    BY <1>1, <1>2
  <2>2. CASE r = s
    <3>1. ~(doc_versions[k] # None /\ bufVer'[k] < doc_versions[k])
      BY <1>5, <1>7
    <3> QED BY <1>1, <1>2, <1>5, <2>1, <2>2, <3>1
  <2>3. CASE r # s
    <3>1. r \in Edits(k) /\ task'[r] = task[r]
      BY <1>4, <2>3
    <3>2. ASSUME doc_versions[k] # None, task[r].ver < doc_versions[k]
          PROVE  \E b \in Edits(k)' : task'[b].pc # "record" /\ task'[b].ver = doc_versions[k]
      <4>1. PICK b \in Edits(k) : task[b].pc # "record" /\ task[b].ver = doc_versions[k]
        BY <3>1, <3>2 DEF Edited, Marked
      <4> QED BY <1>4, <4>1
    <3> QED BY <1>5, <2>1, <3>1, <3>2 DEF Edited, Marked
  <2> QED BY <2>2, <2>3
<1>13. Newest(k)'
  BY <1>1, <1>2, <1>5, <1>7 DEF Newest
<1> QED BY <1>9, <1>10, <1>11, <1>12, <1>13 DEF Edited

LEMMA ClientKeepsEdits ==
  ASSUME SessionsStay, TypeOK, AllFit, QueueFits, Client, NEW k \in Keys, Edited(k)
  PROVE  Edited(k)'
<1>0. sources'[k] = sources[k] /\ doc_versions'[k] = doc_versions[k]
  BY ClientKeepsServer DEF server, index, session
<1>1. ASSUME NEW s \in Slots, NEW t, Begins(s, t),
             bufText'[k] = bufText[k], bufVer'[k] = bufVer[k],
             t.pc \in {"clear", "record"} => t.key # k, t.pc # "index", t.pc # "latest"
      PROVE  Edited(k)'
  <2>1. /\ Moves(s) /\ s \notin Edits(k) /\ s \notin Openers(k)
        /\ s \notin Edits(k)' /\ s \notin Openers(k)'
    BY <1>1 DEF Begins, Edits, Openers, Editing
  <2> QED BY <1>0, <1>1, <2>1, OthersKeepEdits
<1>2. ASSUME NEW j \in Keys, EditorOpen(j) PROVE Edited(k)'
  <2>1. CASE j = k
    BY <1>2, <2>1, OpenKeepsEdits
  <2>2. CASE j # k
    <3>1. bufText'[k] = bufText[k] /\ bufVer'[k] = bufVer[k]
      BY <1>2, <2>2 DEF EditorOpen, TypeOK, ClientOK
    <3>2. PICK s \in Slots, t \in Handlers :
            Begins(s, t) /\ (t.pc = "idle" \/ (t.pc = "clear" /\ t.key = j))
      BY <1>2, OpenBegins, IdleType
    <3> QED BY <1>1, <2>2, <3>1, <3>2
  <2> QED BY <2>1, <2>2
<1>3. ASSUME NEW j \in Keys, EditorChange(j) PROVE Edited(k)'
  <2>1. CASE j = k
    BY <1>3, <2>1, ChangeKeepsEdits
  <2>2. CASE j # k
    <3>1. bufText'[k] = bufText[k] /\ bufVer'[k] = bufVer[k]
      BY <1>3, <2>2 DEF EditorChange, TypeOK, ClientOK
    <3>2. PICK s \in Slots, t \in Handlers : Begins(s, t) /\ t.pc = "record" /\ t.key = j
      BY <1>3, ChangeBegins
    <3> QED BY <1>1, <2>2, <3>1, <3>2
  <2> QED BY <2>1, <2>2
<1>4. ASSUME \/ \E j \in Keys : EditorSave(j) \/ RenameRefused(j)
             \/ DeliverEvents \/ SettingsChanged
      PROVE  Edited(k)'
  <2>1. PICK s \in Slots, t \in Handlers :
          Begins(s, t) /\ t.pc \in {"idle", "hold", "classify", "overlay"}
    BY <1>4, SaveBegins, RenameBegins, DeliverBegins, SettingsBegins, IdleType
  <2>2. UNCHANGED <<bufText, bufVer>>
    BY <1>4 DEF EditorSave, RenameRefused, DeliverEvents, SettingsChanged, editor
  <2> QED BY <1>1, <2>1, <2>2
<1>5. ASSUME \/ \E j \in Keys : FileWritten(j) \/ FileDeleted(j) \/ HintsWritten(j)
             \/ \E f \in Folders : ConfigWritten(f)
      PROVE  Edited(k)'
  <2>1. UNCHANGED <<bufText, bufVer, task, lockq>>
    BY <1>5 DEF FileWritten, FileDeleted, HintsWritten, ConfigWritten, editor, sched
  <2>2. Edits(k)' = Edits(k) /\ Openers(k)' = Openers(k) /\ \A r : Stage(r)' = Stage(r)
    BY <2>1 DEF Edits, Openers, Stage
  <2> QED BY <1>0, <2>1, <2>2, EditedStays
<1>6. \A j \in Keys : ~EditorClose(j)
  BY DEF EditorClose, Act, SessionsStay
<1> QED BY <1>2, <1>3, <1>4, <1>5, <1>6 DEF Client
LEMMA EditsAlways == SessionsStay /\ Spec => []EditsFit
<1> SUFFICES ASSUME SessionsStay PROVE Spec => []EditsFit
  OBVIOUS
<1>1. Init => EditsFit
  <2> SUFFICES ASSUME Init, NEW k \in Keys PROVE Edited(k)
    BY DEF EditsFit
  <2>1. \A s \in Slots : task[s].pc \in {"greet", "idle"}
    <3>1. Handler("scan", "greet", None).pc = "greet"
      BY HandlerType DEF Ops, Pcs, Waits
    <3> QED BY <3>1, IdleType DEF Init
  <2>2. Edits(k) = {} /\ Openers(k) = {} /\ doc_versions[k] = None /\ sources[k] = None
    BY <2>1 DEF Edits, Openers, Editing, Init
  <2>3. Untouched(k) /\ OpensFirst(k) /\ Newest(k)
    BY <2>2 DEF Untouched, OpensFirst, Newest
  <2>4. Newer(k) /\ Ordered(k) /\ Marked(k)
    BY <2>2 DEF Newer, Ordered, Marked
  <2> QED BY <2>3, <2>4 DEF Edited
<1>2. TypeOK /\ AllFit /\ QueueFits /\ MarksOnlyTracked /\ EditsFit /\ [Next]_vars => EditsFit'
  <2> SUFFICES ASSUME TypeOK, AllFit, QueueFits, MarksOnlyTracked, EditsFit, [Next]_vars,
                      NEW k \in Keys
               PROVE  Edited(k)'
    BY DEF EditsFit
  <2>1. Edited(k)
    BY DEF EditsFit
  <2>2. CASE UNCHANGED vars
    <3>1. UNCHANGED <<bufText, bufVer, task, lockq, sources, doc_versions>>
      BY <2>2 DEF vars, client, editor, server, index, session, sched
    <3>2. Edits(k)' = Edits(k) /\ Openers(k)' = Openers(k) /\ \A r : Stage(r)' = Stage(r)
      BY <3>1 DEF Edits, Openers, Stage
    <3> QED BY <2>1, <3>1, <3>2, EditedStays
  <2> QED BY <2>1, <2>2, SectionKeepsEdits, WakeKeepsEdits, ClientKeepsEdits DEF Next, Rest
<1> QED BY <1>1, <1>2, TypeCorrect, HandlersFit, HandlersQueueOnce, MarksAreTracked, PTL DEF Spec

-----------------------------------------------------------------------------
(* The newest list is the last one stored.  A handler that is due computes it once    *)
(* more; without one, the last list waiting to be stored for a key is a current one.  *)

Due(t, k) ==
  \/ t.key = k /\ t.pc = "compute"
  \/ t.key = k /\ t.op = "change" /\ t.pc \in {"index", "latest"} /\ t.ver = doc_versions[k]
  \/ t.pc \in {"walk", "walked", "commit", "log", "keys"}
  \/ k \in t.todo /\ t.pc \in {"compute", "store", "flush"} /\ t.op \in Republishers

Storing(k) == {s \in Slots : task[s].pc = "store" /\ task[s].key = k}
Current(k) == {s \in Storing(k) : task[s].diag = Compute(k)}

Settles(k) ==
  /\ published[k] = Compute(k) \/ Current(k) # {}
  /\ \A a \in Storing(k) \ Current(k) : \E b \in Current(k) : Before(lockq, a, b)

Pushed ==
  \A k \in Keys : Compute(k) = None \/ Settles(k) \/ \E s \in Slots : Due(task[s], k)

\* What is due is passed on until it is computed.
LEMMA DueFollows ==
  ASSUME NEW t \in Handlers, Fits(t), NEW k \in Keys, Due(t, k), NEW u, Follows(t, u),
         t.pc \in {"compute", "keys"} => Compute(k) # None
  PROVE  Due(u, k) \/ (/\ t.pc = "compute" /\ t.key = k
                      /\ u.pc = "store" /\ u.key = k /\ u.diag = Compute(k))
<1>1. CASE t.key = k /\ t.op = "change" /\ t.pc \in {"index", "latest"} /\ t.ver = doc_versions[k]
  BY <1>1 DEF Follows, Same, Due
<1>2. CASE t.pc = "compute" /\ t.key = k
  BY <1>2 DEF Follows, Same
<1>3. CASE t.pc \in {"compute", "store", "flush"} /\ k \in t.todo /\ t.op \in Republishers
  <2>1. CASE Published(t, u)
    <3>1. Again(t, t.todo, u)
      BY <1>3, <2>1 DEF Published, Republishers
    <3> QED BY <1>3, <3>1 DEF Again, Due
  <2>2. CASE u.pc \in {"store", "flush"} /\ Same(t, u)
    BY <1>3, <2>2 DEF Same, Due
  <2>3. Published(t, u) \/ (u.pc \in {"store", "flush"} /\ Same(t, u))
    BY <1>3 DEF Follows
  <2> QED BY <2>1, <2>2, <2>3
<1>4. CASE t.pc = "keys"
  <2> DEFINE tracked == {j \in Keys : sources[j] # None}
  <2>1. Again(t, tracked, u) /\ t.op \in Republishers
    BY <1>4 DEF Follows, Fits
  <2>2. k \in tracked
    BY <1>4 DEF Compute
  <2> HIDE DEF tracked
  <2> QED BY <2>1, <2>2 DEF Again, Due
<1>5. CASE t.pc \in {"walk", "walked", "commit", "log"}
  BY <1>5 DEF Follows, Due
<1> QED BY <1>1, <1>2, <1>3, <1>4, <1>5 DEF Due

\* A list just computed is stored after all the others.
LEMMA ComputedSettles ==
  ASSUME TypeOK, QueueFits, NEW s \in Slots, Moves(s), NEW k \in Keys,
         task'[s].pc = "store", task'[s].key = k, task'[s].diag = Compute(k)'
  PROVE  Settles(k)'
<1>0. SchedOK /\ \A r \in Slots : r # s => task'[r] = task[r]
  BY DEF TypeOK, SchedOK, Moves
<1>1. "store" \in Sections
  BY DEF Sections, WriteSections
<1>2. s \in Current(k)'
  BY DEF Current, Storing
<1>3. ASSUME NEW a \in Storing(k)', a \notin Current(k)'
      PROVE  Before(lockq', a, s)
  <2>1. a # s /\ a \in Slots /\ task[a].pc = "store"
    BY <1>0, <1>2, <1>3 DEF Storing
  <2>2. Queued(lockq, a)
    BY <1>1, <2>1 DEF QueueFits
  <2> QED BY <1>0, <1>1, <2>1, <2>2, MovesBefore
<1> QED BY <1>2, <1>3 DEF Settles

\* The lists waiting to be stored for a key keep their order while other handlers run.
LEMMA SettlesStays ==
  ASSUME TypeOK, QueueFits, NEW s \in Slots, Moves(s), NEW k \in Keys, Settles(k),
         s \notin Storing(k), s \notin Storing(k)',
         Compute(k)' = Compute(k), published'[k] = published[k]
  PROVE  Settles(k)'
<1>0. SchedOK /\ \A r \in Slots : r # s => task'[r] = task[r]
  BY DEF TypeOK, SchedOK, Moves
<1>1. Storing(k)' = Storing(k) /\ \A r \in Storing(k) : r # s /\ task'[r] = task[r]
  BY <1>0 DEF Storing
<1>2. Current(k)' = Current(k) /\ Current(k) \subseteq Storing(k)
  BY <1>1 DEF Current
<1>3. \A a, b : a # s /\ Before(lockq, a, b) => Before(lockq', a, b)
  BY <1>0, MovesBefore
<1> QED BY <1>1, <1>2, <1>3 DEF Settles

\* An outdated list that is stored is followed by a current one.
LEMMA StoreSettles ==
  ASSUME TypeOK, QueueFits, NEW s \in Slots, Section(s), NEW k \in Keys, Settles(k),
         s \in Storing(k), Compute(k)' = Compute(k)
  PROVE  Settles(k)'
<1>0. /\ Moves(s) /\ task[s].pc \in Sections /\ SchedOK
      /\ \A r \in Slots : r # s => task'[r] = task[r]
  BY SectionMoves DEF TypeOK, SchedOK, Moves
<1>1. task[s].pc = "store" /\ task[s].key = k /\ StoreAndPush(s)
  BY SectionAt DEF Storing
<1>2. published'[k] = task[s].diag /\ task'[s].pc = "flush"
  BY <1>0, <1>1 DEF StoreAndPush, TypeOK, ServerOK, Moves, Follows
<1>3. Storing(k)' = Storing(k) \ {s} /\ \A r \in Storing(k) : r # s => task'[r] = task[r]
  BY <1>0, <1>2 DEF Storing
<1>4. Current(k)' = Current(k) \ {s} /\ Current(k) \subseteq Storing(k)
  BY <1>3 DEF Current
<1>5. \A a, b : a # s /\ Before(lockq, a, b) => Before(lockq', a, b)
  BY <1>0, MovesBefore
<1>6. \A a : ~Before(lockq, a, s)
  BY <1>0, MovesBefore
<1>7. ASSUME NEW a \in Storing(k), a \notin Current(k)
      PROVE  \E b \in Current(k)' : Before(lockq, a, b)
  <2>1. PICK b \in Current(k) : Before(lockq, a, b)
    BY <1>7 DEF Settles
  <2>2. b # s
    BY <1>6, <2>1
  <2> QED BY <1>4, <2>1, <2>2
<1>8. published'[k] = Compute(k)' \/ Current(k)' # {}
  <2>1. CASE s \in Current(k)
    BY <1>2, <2>1 DEF Current
  <2>2. CASE s \notin Current(k)
    BY <1>7, <2>2
  <2> QED BY <2>1, <2>2
<1>9. ASSUME NEW a \in Storing(k)', a \notin Current(k)'
      PROVE  \E b \in Current(k)' : Before(lockq', a, b)
  BY <1>3, <1>4, <1>5, <1>7, <1>9
<1> QED BY <1>8, <1>9 DEF Settles

\* A new mark is that of an edit which is now due.
LEMMA MarkIsDue ==
  ASSUME SessionsStay, TypeOK, AllFit, QueueFits, EditsFit, NEW s \in Slots, Section(s),
         NEW k \in Keys
  PROVE  \/ doc_versions'[k] = doc_versions[k]
         \/ task[s].pc = "record" /\ Due(task[s], k)'
<1>0. Follows(task[s], task'[s]) /\ doc_versions \in [Keys -> Nat \cup {None}] /\ Edited(k)
  BY SectionMoves DEF Moves, TypeOK, ServerOK, EditsFit
<1>1. CASE s \in Openers(k)
  <2>1. doc_versions[k] = None /\ task[s].pc \in {"clear", "index"} /\ task[s].key = k
    BY <1>0, <1>1 DEF Edited, OpensFirst, Openers
  <2>2. task[s].pc = "clear" => doc_versions'[k] = None
    BY <1>0, <2>1, SectionAt DEF DidOpenClear
  <2>3. task[s].pc = "index" => doc_versions' = doc_versions
    BY SectionAt DEF Pass1, session
  <2> QED BY <2>1, <2>2, <2>3
<1>2. CASE s \in Edits(k)
  <2>1. task[s].pc \in Editing /\ task[s].key = k /\ task[s].op = "change"
    BY <1>2 DEF Edits
  <2>2. task[s].pc = "index" => doc_versions' = doc_versions
    BY SectionAt DEF Pass1, session
  <2>3. task[s].pc = "latest" => doc_versions' = doc_versions
    BY SectionAt DEF DidChangeIsLatest, server, session
  <2>4. CASE task[s].pc = "record"
    <3>1. DidChangeRecord(s)
      BY <2>4, SectionAt
    <3>2. CASE sources[k] = None
      BY <2>1, <3>1, <3>2 DEF DidChangeRecord
    <3>3. CASE sources[k] # None
      <4>1. doc_versions'[k] = doc_versions[k] \/ doc_versions'[k] = task[s].ver
        BY <1>0, <2>1, <3>1, <3>3 DEF DidChangeRecord
      <4>2. /\ task'[s].pc = "index" /\ task'[s].op = "change" /\ task'[s].key = k
            /\ task'[s].ver = task[s].ver
        BY <1>0, <2>1, <2>4, <3>3 DEF Follows, Same
      <4> QED BY <2>4, <4>1, <4>2 DEF Due
    <3> QED BY <3>2, <3>3
  <2> QED BY <2>1, <2>2, <2>3, <2>4 DEF Editing
<1> QED BY <1>1, <1>2, OnlyEditsWrite

\* An edit that indexes an outdated text leaves the newest one to be indexed.
LEMMA OutdatedIndexIsFollowed ==
  ASSUME TypeOK, QueueFits, NEW s \in Slots, Section(s), NEW k \in Keys, Edited(k),
         s \in Edits(k), task[s].pc = "index", task[s].ver # doc_versions[k]
  PROVE  \E b \in Slots : Due(task[b], k)
<1>1. doc_versions[k] # None /\ task[s].ver <= doc_versions[k]
  BY DEF Edited, Marked
<1>2. doc_versions[k] \in Nat /\ task[s].ver \in Nat
  <2>1. task[s] \in Handlers
    BY DEF TypeOK, SchedOK
  <2>2. task[s].ver \in Nat
    BY <2>1, SMT DEF Handlers
  <2> QED BY <1>1, <2>2 DEF TypeOK, ServerOK
<1>3. task[s].ver < doc_versions[k]
  BY <1>1, <1>2
<1>4. PICK b \in Edits(k) : task[b].pc # "record" /\ task[b].ver = doc_versions[k]
  BY <1>1, <1>3 DEF Edited, Marked
<1>5. b # s
  BY <1>4
<1>6. Stage(s) >= Stage(b) /\ Stage(b) \in 1..3
  BY <1>3, <1>4, <1>5, OldestRuns DEF Edited
<1>7. task[b].pc = "index"
  BY <1>4, <1>6, SMT DEF Stage
<1> QED BY <1>4, <1>7 DEF Due, Edits

LEMMA SectionKeepsPushed ==
  ASSUME SessionsStay, TypeOK, AllFit, QueueFits, EditsFit, Pushed, NEW s \in Slots, Section(s),
         NEW k \in Keys, Compute(k)' # None
  PROVE  Settles(k)' \/ \E r \in Slots : Due(task[r], k)'
<1> DEFINE t == task[s]
           u == task'[s]
<1>0. /\ Moves(s) /\ t.pc \in Sections /\ t \in Handlers /\ Fits(t) /\ Follows(t, u)
      /\ OwnFindings /\ Edited(k) /\ \A r \in Slots : r # s => task'[r] = task[r]
  BY SectionMoves DEF TypeOK, SchedOK, AllFit, Moves, SessionsStay, EditsFit
<1>1. \A r \in Slots : doc_versions'[k] = doc_versions[k] /\ Due(task'[r], k) => Due(task[r], k)'
  BY DEF Due
<1>2. CASE Due(t, k)
  <2>1. doc_versions'[k] = doc_versions[k]
    BY <1>2, MarkIsDue DEF Due
  <2>2. t.pc \in {"compute", "keys"} => Compute(k)' = Compute(k)
    <3>1. t.pc \in {"compute", "keys"} => UNCHANGED server
      BY SectionAt DEF ComputeDiagnostics, RepublishKeys
    <3> QED BY <1>0, <3>1, RestKeepsFindings
  <2>3. Due(u, k) \/ (t.pc = "compute" /\ u.pc = "store" /\ u.key = k /\ u.diag = Compute(k))
    BY <1>0, <1>2, <2>2, DueFollows
  <2>4. CASE Due(u, k)
    BY <1>1, <2>1, <2>4
  <2>5. CASE t.pc = "compute" /\ u.pc = "store" /\ u.key = k /\ u.diag = Compute(k)
    BY <1>0, <2>2, <2>5, ComputedSettles
  <2> QED BY <2>3, <2>4, <2>5
<1>3. ASSUME NEW r \in Slots, r # s, Due(task[r], k)
      PROVE  \E b \in Slots : Due(task[b], k)'
  BY <1>0, <1>1, <1>3, MarkIsDue
<1>4. CASE (\A r \in Slots : ~Due(task[r], k)) /\ Compute(k)' = Compute(k)
  <2>1. Settles(k)
    BY <1>4 DEF Pushed
  <2>2. CASE s \in Storing(k)
    BY <1>4, <2>1, <2>2, StoreSettles
  <2>3. CASE s \notin Storing(k)
    <3>1. s \notin Storing(k)'
      <4> SUFFICES ASSUME u.pc = "store", u.key = k PROVE FALSE
        BY DEF Storing
      <4>1. t.pc = "compute" /\ t.key = k
        <5>1. t.pc # "idle"
          BY <1>0 DEF Sections, ReadSections, WriteSections
        <5> QED BY <1>0, <5>1, IdleType DEF Follows, Over, Again, Published, Refreshes, Same
      <4> QED BY <1>4, <4>1 DEF Due
    <3>2. published'[k] = published[k]
      BY <2>3, PushWriters DEF Storing
    <3> QED BY <1>0, <1>4, <2>1, <2>3, <3>1, <3>2, SettlesStays
  <2> QED BY <2>2, <2>3
<1>5. CASE (\A r \in Slots : ~Due(task[r], k)) /\ Compute(k)' # Compute(k)
  <2>1. CASE t.pc = "index" /\ t.key = k
    <3>1. t.op \in {"open", "change"}
      BY <1>0, <2>1 DEF Fits, SessionsStay
    <3>2. CASE t.op = "open"
      <4>1. u.pc = "compute" /\ u.key = k
        BY <1>0, <2>1, <3>2 DEF Follows, Same
      <4> QED BY <4>1 DEF Due
    <3>3. CASE t.op = "change"
      <4>1. s \in Edits(k) /\ t.ver # doc_versions[k]
        BY <1>5, <2>1, <3>3 DEF Edits, Editing, Due
      <4> QED BY <1>0, <1>5, <2>1, <4>1, OutdatedIndexIsFollowed
    <3> QED BY <3>1, <3>2, <3>3
  <2>2. CASE (u.pc = "compute" /\ u.key = k) \/ u.pc \in {"log", "walk", "keys"}
    BY <2>2 DEF Due
  <2> QED BY <1>0, <1>5, <2>1, <2>2, ComputeWriters
<1> QED BY <1>2, <1>3, <1>4, <1>5

\* A step that leaves the server alone.
LEMMA MovesKeepPushed ==
  ASSUME SessionsStay, TypeOK, AllFit, QueueFits, Pushed, NEW s \in Slots, Moves(s),
         task[s].pc \notin Sections, UNCHANGED server, NEW k \in Keys, Compute(k)' # None
  PROVE  Settles(k)' \/ \E r \in Slots : Due(task[r], k)'
<1> DEFINE t == task[s]
           u == task'[s]
<1>0. /\ t \in Handlers /\ Fits(t) /\ Follows(t, u) /\ \A r \in Slots : r # s => task'[r] = task[r]
  BY DEF TypeOK, SchedOK, AllFit, Moves
<1>1. Compute(k)' = Compute(k) /\ published'[k] = published[k] /\ doc_versions' = doc_versions
  <2>1. Compute(k)' = Compute(k) /\ published' = published
    BY RestKeepsFindings DEF SessionsStay
  <2> QED BY <2>1 DEF server, session
<1>2. {"compute", "keys", "store"} \subseteq Sections
  BY DEF Sections, ReadSections, WriteSections
<1>3. \A r \in Slots : Due(task'[r], k) => Due(task[r], k)'
  BY <1>1 DEF Due
<1>4. CASE Due(t, k)
  <2>1. Due(u, k)
    BY <1>0, <1>2, <1>4, DueFollows
  <2> QED BY <1>3, <2>1
<1>5. ASSUME NEW r \in Slots, r # s, Due(task[r], k)
      PROVE  \E b \in Slots : Due(task[b], k)'
  BY <1>0, <1>3, <1>5
<1>6. CASE \A r \in Slots : ~Due(task[r], k)
  <2>1. Settles(k)
    BY <1>1, <1>6 DEF Pushed
  <2>2. s \notin Storing(k)
    BY <1>2 DEF Storing
  <2>3. s \notin Storing(k)'
    <3> SUFFICES ASSUME u.pc = "store" PROVE FALSE
      BY DEF Storing
    <3> QED BY <1>0, <1>2, IdleType DEF Follows, Starts, Over, Again, Published, Refreshes, Same
  <2> QED BY <1>1, <2>1, <2>2, <2>3, SettlesStays
<1> QED BY <1>4, <1>5, <1>6

LEMMA PushedAlways == SessionsStay /\ Spec => []Pushed
<1> SUFFICES ASSUME SessionsStay PROVE Spec => []Pushed
  OBVIOUS
<1>1. Init => Pushed
  BY DEF Init, Pushed, Compute
<1>2. TypeOK /\ AllFit /\ QueueFits /\ EditsFit /\ Pushed /\ [Next]_vars => Pushed'
  <2> SUFFICES ASSUME TypeOK, AllFit, QueueFits, EditsFit, Pushed, [Next]_vars,
                      NEW k \in Keys, Compute(k)' # None
               PROVE  Settles(k)' \/ \E r \in Slots : Due(task[r], k)'
    BY DEF Pushed
  <2>1. ASSUME UNCHANGED <<server, task, lockq>>
        PROVE  Settles(k)' \/ \E r \in Slots : Due(task[r], k)'
    <3>1. /\ Compute(k)' = Compute(k) /\ published' = published
          /\ UNCHANGED <<doc_versions, task, lockq>>
      <4>1. Compute(k)' = Compute(k) /\ published' = published
        BY <2>1, RestKeepsFindings DEF SessionsStay
      <4> QED BY <2>1, <4>1 DEF server, session
    <3>2. Storing(k)' = Storing(k) /\ Current(k)' = Current(k)
      BY <3>1 DEF Storing, Current
    <3>3. Settles(k) => Settles(k)'
      BY <3>1, <3>2 DEF Settles, Before, Places
    <3>4. \A r \in Slots : Due(task[r], k) => Due(task[r], k)'
      BY <3>1 DEF Due
    <3> QED BY <3>1, <3>3, <3>4 DEF Pushed
  <2>2. CASE UNCHANGED vars
    BY <2>1, <2>2 DEF vars, sched
  <2>3. ASSUME NEW s \in Slots, Wake(s)
        PROVE  Settles(k)' \/ \E r \in Slots : Due(task[r], k)'
    <3>1. Moves(s) /\ task[s].pc \notin Sections /\ UNCHANGED server
      BY <2>3, WakeMoves, WakeKeepsServer DEF Waits, Sections, ReadSections, WriteSections
    <3> QED BY <3>1, MovesKeepPushed
  <2>4. CASE Client
    <3>1. UNCHANGED server
      BY <2>4, ClientKeepsServer
    <3>2. UNCHANGED <<task, lockq>> \/ \E s \in Slots : Moves(s) /\ task[s].pc \notin Sections
      BY <2>4, ClientMoves DEF Sections, ReadSections, WriteSections
    <3> QED BY <2>1, <3>1, <3>2, MovesKeepPushed
  <2> QED BY <2>2, <2>3, <2>4, SectionKeepsPushed DEF Next, Rest
<1> QED BY <1>1, <1>2, TypeCorrect, HandlersFit, HandlersQueueOnce, EditsAlways, PTL DEF Spec

LEMMA PushedAtRest == Pushed /\ Settled => \A k \in Keys : Compute(k) = None \/ published[k] = Compute(k)
BY DEF Pushed, Settled, AllIdle, Due, Settles, Current, Storing

\* Even when refused renames make the handlers queue for the lock, so that the sections of
\* several edits and publishes alternate, the last list pushed for a file is a current one.
THEOREM QueuedListWins == SessionsStay /\ Spec => []PublishedIsCurrent
<1> SUFFICES ASSUME SessionsStay PROVE Spec => []PublishedIsCurrent
  OBVIOUS
<1>1. Pushed => PublishedIsCurrent
  BY PushedAtRest DEF PublishedIsCurrent
<1> QED BY <1>1, PushedAlways, PTL

\* An edit once recorded is neither lost nor overtaken in the queue (did_change's version
\* check): at rest its text is indexed and its list pushed, for every number of edits.
THEOREM RecordedWins == SessionsStay /\ NoScans /\ Spec => []RecordedEditWins
<1> SUFFICES ASSUME SessionsStay, NoScans PROVE Spec => []RecordedEditWins
  OBVIOUS
<1>1. TypeOK /\ EditsFit /\ Pushed /\ MarksOnlyTracked /\ IndexTracksSource => RecordedEditWins
  <2> SUFFICES ASSUME TypeOK, EditsFit, Pushed, MarksOnlyTracked, IndexTracksSource, Settled,
                      NEW k \in Keys, doc_versions[k] # None
               PROVE  /\ doc_versions[k] = bufVer[k] /\ sources[k] = bufText[k]
                      /\ published[k] = Compute(k)
    BY DEF RecordedEditWins
  <2>1. Edits(k) = {}
    BY DEF Settled, AllIdle, Edits, Editing
  <2>2. doc_versions[k] = bufVer[k] /\ sources[k] = bufText[k]
    BY <2>1 DEF EditsFit, Edited, Newest
  <2>3. Compute(k) # None
    <3>1. sources[k] # None /\ templates[k] # None
      BY DEF MarksOnlyTracked, IndexTracksSource
    <3> QED BY <3>1, ComputeDefined DEF TypeOK
  <2> QED BY <2>2, <2>3, PushedAtRest
<1> QED BY <1>1, TypeCorrect, EditsAlways, PushedAlways, MarksAreTracked, IndexFollowsText, PTL
=============================================================================
