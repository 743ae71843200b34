------------------------- MODULE DocumentSyncProofs -------------------------
(* Theorems about DocumentSync, for every value of its constants. *)
EXTENDS DocumentSync, SequenceTheorems, TLAPS

\* The handlers that a step may leave in a slot.
Legal == {t \in Handlers : Carries(t)}

\* The steps that need nothing carried.
Bare == {"flags", "discover", "keys", "progress", "inputs", "config", "flush",
         "refresh", "walk", "log", "greet", "create", "register", "message", "idle"}

\* Goto changes the step and nothing else.
LEMMA GotoType ==
    ASSUME NEW t \in Handlers, NEW pc \in Pcs
    PROVE  /\ Goto(t, pc) \in Handlers
           /\ Goto(t, pc).pc = pc
           /\ Goto(t, pc).key = t.key
           /\ Goto(t, pc).text = t.text
           /\ Goto(t, pc).ver = t.ver
           /\ Goto(t, pc).batch = t.batch
           /\ Goto(t, pc).found = t.found
           /\ Goto(t, pc).base = t.base
           /\ Goto(t, pc).diag = t.diag
PROOF
  BY SMT DEF Goto, Handlers

LEMMA IdleType == Idle \in Handlers /\ Idle.pc = "idle"
PROOF
<1>1. Idle \in Handlers
  BY ConfigAssumption, SMT DEF Idle, Handlers, Pcs, Ops
<1>2. Idle.pc = "idle"
  BY DEF Idle
<1> QED
  BY <1>1, <1>2

LEMMA IdleLegal == Idle \in Legal
PROOF
  BY IdleType DEF Legal, Carries

\* A fresh handler for a client message.
LEMMA HandlerType ==
    ASSUME NEW op \in Ops, NEW pc \in Pcs, NEW k \in Keys \cup {None}
    PROVE  /\ Handler(op, pc, k) \in Handlers
           /\ Handler(op, pc, k).pc = pc
           /\ Handler(op, pc, k).key = k
PROOF
<1> DEFINE i == Idle
           a == [i EXCEPT !.op = op]
           b == [a EXCEPT !.pc = pc]
           c == [b EXCEPT !.key = k]
<1>1. i \in Handlers
  BY IdleType
<1>2. Handler(op, pc, k) = c
  BY Zenon DEF Handler
<1> HIDE DEF i
<1>3. a \in Handlers
  BY <1>1, SMT DEF Handlers
<1> HIDE DEF a
<1>4. b \in Handlers /\ b.pc = pc
  BY <1>3, SMT DEF Handlers
<1> HIDE DEF b
<1>5. c \in Handlers /\ c.pc = pc /\ c.key = k
  BY <1>4, SMT DEF Handlers
<1> QED
  BY <1>2, <1>5

\* Single fields of a handler.
LEMMA WithType ==
    ASSUME NEW t \in Handlers
    PROVE  /\ \A k \in Keys \cup {None} : [t EXCEPT !.key = k] \in Handlers
           /\ \A x \in Texts \cup {None} : [t EXCEPT !.text = x] \in Handlers
           /\ \A v \in Nat : [t EXCEPT !.ver = v] \in Handlers
           /\ \A c \in Configs : [t EXCEPT !.cfg = c] \in Handlers
           /\ \A b \in Seq(Events) : [t EXCEPT !.batch = b] \in Handlers
           /\ \A o \in Ops : [t EXCEPT !.op = o] \in Handlers
           /\ \A ks \in SUBSET Keys : /\ [t EXCEPT !.todo = ks] \in Handlers
                                      /\ [t EXCEPT !.layout = ks] \in Handlers
           /\ \A fs \in SUBSET Folders : [t EXCEPT !.folders = fs] \in Handlers
           /\ \A w \in [Keys -> Texts \cup {None}] \cup {None} :
                 [t EXCEPT !.found = w] \in Handlers
           /\ \A r \in Registries \cup {None} : [t EXCEPT !.base = r] \in Handlers
           /\ \A d \in Findings \cup {None} : [t EXCEPT !.diag = d] \in Handlers
PROOF
<1>1. \A k \in Keys \cup {None} : [t EXCEPT !.key = k] \in Handlers
  BY SMT DEF Handlers
<1>2. \A x \in Texts \cup {None} : [t EXCEPT !.text = x] \in Handlers
  BY SMT DEF Handlers
<1>3. \A v \in Nat : [t EXCEPT !.ver = v] \in Handlers
  BY SMT DEF Handlers
<1>4. \A c \in Configs : [t EXCEPT !.cfg = c] \in Handlers
  BY SMT DEF Handlers
<1>5. \A b \in Seq(Events) : [t EXCEPT !.batch = b] \in Handlers
  BY SMT DEF Handlers
<1>6. \A o \in Ops : [t EXCEPT !.op = o] \in Handlers
  BY SMT DEF Handlers
<1>7. \A ks \in SUBSET Keys : /\ [t EXCEPT !.todo = ks] \in Handlers
                              /\ [t EXCEPT !.layout = ks] \in Handlers
  BY SMT DEF Handlers
<1>8. \A fs \in SUBSET Folders : [t EXCEPT !.folders = fs] \in Handlers
  BY SMT DEF Handlers
<1>9. \A w \in [Keys -> Texts \cup {None}] \cup {None} : [t EXCEPT !.found = w] \in Handlers
  BY SMT DEF Handlers
<1>10. \A r \in Registries \cup {None} : [t EXCEPT !.base = r] \in Handlers
  BY SMT DEF Handlers
<1>11. \A d \in Findings \cup {None} : [t EXCEPT !.diag = d] \in Handlers
  BY SMT DEF Handlers
<1> QED
  BY <1>1, <1>2, <1>3, <1>4, <1>5, <1>6, <1>7, <1>8, <1>9, <1>10, <1>11, Zenon

LEMMA TailNonempty ==
    ASSUME NEW S, NEW q \in Seq(S), ~(Len(q) <= 1)
    PROVE  Tail(q) \in Seq(S) /\ Tail(q) # <<>>
PROOF
<1>1. Len(q) \in Nat /\ q # <<>>
  BY LenProperties, EmptySeq
<1>2. Tail(q) \in Seq(S) /\ Len(Tail(q)) = Len(q) - 1
  BY <1>1, HeadTailProperties
<1>3. Len(Tail(q)) # 0
  BY <1>1, <1>2
<1> QED
  BY <1>2, <1>3, EmptySeq

\* The handler after a watcher event has the rest of its batch left.
LEMMA EventDoneLegal ==
    ASSUME NEW t \in Handlers
    PROVE  EventDone(t) \in Legal
PROOF
<1>1. CASE Len(t.batch) <= 1
  BY <1>1, IdleLegal DEF EventDone
<1>2. CASE ~(Len(t.batch) <= 1)
  <2> DEFINE h == Handler("watch", "classify", None)
             rest == Tail(t.batch)
  <2>1. h \in Handlers /\ h.pc = "classify"
    BY HandlerType DEF Ops, Pcs, Sections, ReadSections
  <2>2. t.batch \in Seq(Events)
    BY SMT DEF Handlers
  <2>4. rest \in Seq(Events) /\ rest # <<>>
    BY <1>2, <2>2, TailNonempty
  <2>5. EventDone(t) = [h EXCEPT !.batch = rest]
    BY <1>2 DEF EventDone
  <2> HIDE DEF h, rest
  <2>6. [h EXCEPT !.batch = rest] \in Handlers
    BY <2>1, <2>4, WithType
  <2>7. [h EXCEPT !.batch = rest].pc = "classify" /\ [h EXCEPT !.batch = rest].batch = rest
    BY <2>1, SMT DEF Handlers
  <2> QED
    BY <2>4, <2>5, <2>6, <2>7 DEF Legal, Carries
<1> QED
  BY <1>1, <1>2

LEMMA GotoBare ==
    ASSUME NEW t \in Handlers, NEW pc \in Bare
    PROVE  Goto(t, pc) \in Legal
PROOF
<1>1. pc \in Pcs
  BY DEF Bare, Pcs, Sections, ReadSections, WriteSections, Waits
<1>2. Goto(t, pc) \in Handlers /\ Goto(t, pc).pc = pc
  BY <1>1, GotoType
<1> QED
  BY <1>2 DEF Legal, Carries, Bare

\* Moving to a step that works on a key, and needs nothing else.
Keyed == {"latest", "close", "compute", "fsread", "fetched", "forget", "base", "hold"}

LEMMA GotoKeyed ==
    ASSUME NEW t \in Handlers, NEW pc \in Keyed, t.key \in Keys
    PROVE  Goto(t, pc) \in Legal
PROOF
<1>1. pc \in Pcs
  BY DEF Keyed, Pcs, Sections, ReadSections, WriteSections, Waits
<1>2. Goto(t, pc) \in Handlers /\ Goto(t, pc).pc = pc /\ Goto(t, pc).key \in Keys
  BY <1>1, GotoType
<1> QED
  BY <1>2 DEF Legal, Carries, Keyed

LEMMA RepublishLegal ==
    ASSUME NEW t \in Handlers, NEW u \in RepublishNext(t)
    PROVE  u \in Legal
PROOF
<1>1. CASE t.todo = {}
  BY <1>1, GotoBare DEF RepublishNext, Bare
<1>2. CASE t.todo # {}
  <2>1. PICK k \in t.todo :
           u = Goto([t EXCEPT !.key = k, !.todo = t.todo \ {k}], "compute")
    BY <1>2 DEF RepublishNext
  <2>2. k \in Keys /\ t.todo \ {k} \in SUBSET Keys
    BY SMT DEF Handlers
  <2> DEFINE a == [t EXCEPT !.key = k]
             b == [a EXCEPT !.todo = t.todo \ {k}]
  <2>3. u = Goto(b, "compute")
    BY <2>1, Zenon
  <2>4. a \in Handlers /\ a.key = k
    BY <2>2, SMT DEF Handlers
  <2> HIDE DEF a
  <2>5. b \in Handlers
    BY <2>2, <2>4, WithType
  <2>6. b.key = k
    BY <2>4, SMT DEF Handlers
  <2> QED
    BY <2>2, <2>3, <2>5, <2>6, GotoKeyed DEF Keyed
<1> QED
  BY <1>1, <1>2

LEMMA AfterPublishLegal ==
    ASSUME NEW t \in Handlers, NEW u \in AfterPublish(t)
    PROVE  u \in Legal
PROOF
<1>1. CASE t.op = "open"
  BY <1>1, IdleLegal DEF AfterPublish
<1>2. CASE t.op = "change"
  BY <1>2, GotoBare DEF AfterPublish, Bare
<1>3. CASE t.op = "watch"
  BY <1>3, EventDoneLegal DEF AfterPublish
<1>4. CASE t.op \notin {"open", "change", "watch"}
  <2>1. AfterPublish(t) = RepublishNext(t)
    BY <1>4 DEF AfterPublish
  <2> QED
    BY <2>1, RepublishLegal
<1> QED
  BY <1>1, <1>2, <1>3, <1>4

LEMMA FinishedLegal ==
    ASSUME NEW t \in Handlers
    PROVE  Finished(t) \in Legal
PROOF
  BY IdleLegal, EventDoneLegal DEF Finished

\* A step that leaves a legal handler behind keeps the scheduler's state well formed.
LEMMA ThenOK ==
    ASSUME SchedOK, NEW s \in Slots, NEW t \in Legal, Then(s, t), lockq # <<>>,
           guards' \subseteq Slots
    PROVE  SchedOK'
PROOF
<1>1. task' \in [Slots -> Handlers] /\ \A r \in Slots : Carries(task'[r])
  BY DEF SchedOK, Then, Legal
<1>2. Tail(lockq) \in Seq(Slots)
  BY SMT DEF SchedOK
<1>3. lockq' \in Seq(Slots)
  BY <1>2, SMT DEF Then
<1> QED
  BY <1>1, <1>3 DEF SchedOK, Carries

LEMMA ResumeOK ==
    ASSUME SchedOK, NEW s \in Slots, NEW t \in Legal, Resume(s, t), guards' \subseteq Slots
    PROVE  SchedOK'
PROOF
<1>1. task' \in [Slots -> Handlers] /\ \A r \in Slots : Carries(task'[r])
  BY DEF SchedOK, Resume, Legal
<1>2. lockq' \in Seq(Slots)
  BY SMT DEF Resume, SchedOK
<1> QED
  BY <1>1, <1>2 DEF SchedOK, Carries

LEMMA DispatchOK ==
    ASSUME SchedOK, NEW t \in Legal, Dispatch(t)
    PROVE  SchedOK'
PROOF
<1>1. PICK s \in Slots : Resume(s, t)
  BY DEF Dispatch, FreeSlots
<1>2. guards' \subseteq Slots
  BY DEF Dispatch, SchedOK
<1> QED
  BY <1>1, <1>2, ResumeOK

\* The handler at a step carries what that step needs.
LEMMA TaskLegal ==
    ASSUME SchedOK, NEW s \in Slots
    PROVE  task[s] \in Handlers /\ Carries(task[s]) /\ guards \subseteq Slots
PROOF
  BY DEF SchedOK

\* What the diagnostics of a tracked file are computed from is well typed.
LEMMA ComputeDefined ==
    ASSUME ServerOK, NEW k \in Keys, sources[k] # None, templates[k] # None
    PROVE  Compute(k) \in Findings /\ Compute(k) # None
PROOF
<1>1. sources[k] \in Texts
  BY DEF ServerOK
<1>2. Facts(k) \in [Keys -> Texts \cup {None}]
  BY DEF Facts, ServerOK
<1>3. Owner[k] \in Folders /\ config[Owner[k]] \in Configs
  BY OwnerAssumption DEF ServerOK
<1>4. RegistryFor(k) \in Registries
  BY <1>3, ConfigAssumption, SMT DEF RegistryFor, BaseRegistry, Registries, ServerOK
<1>5. overlay \in Nat
  BY BoundAssumption, SMT DEF ServerOK, Texts
<1> DEFINE o == IF Owner[k] = 0 THEN overlay ELSE 0
<1>6. o \in Nat
  BY <1>5, SMT
<1>7. Compute(k) = [text |-> sources[k], facts |-> Facts(k), registry |-> RegistryFor(k),
                    config |-> config[Owner[k]], overlay |-> o]
  BY DEF Compute
<1> HIDE DEF o
<1>8. Compute(k) \in Findings
  BY <1>1, <1>2, <1>3, <1>4, <1>6, <1>7, SMT DEF Findings
<1> QED BY <1>8, FindingsAssumption

LEMMA ComputeType ==
    ASSUME ServerOK, NEW k \in Keys, Compute(k) # None
    PROVE  Compute(k) \in Findings
PROOF
<1>1. sources[k] # None /\ templates[k] # None
  BY DEF Compute
<1> QED BY <1>1, ComputeDefined

LEMMA SidecarType ==
    ASSUME ClientOK, NEW k \in Keys, NEW base \in Registries
    PROVE  Sidecar(k, base) \in Registries \cup {None}
PROOF
<1>1. hints[k] \in Nat
  BY BoundAssumption, SMT DEF ClientOK, Texts
<1> QED
  BY <1>1, SMT DEF Sidecar, Registries

LEMMA BaseRegistryType ==
    ASSUME ServerOK, NEW k \in Keys
    PROVE  BaseRegistry(k) \in Registries
PROOF
<1>1. config[Owner[k]] \in Configs
  BY OwnerAssumption DEF ServerOK
<1>2. RegistryOf[config[Owner[k]]] \in Configs
  BY <1>1, ConfigAssumption
<1> QED
  BY <1>2, SMT DEF BaseRegistry, Registries

LEMMA GotoIndex ==
    ASSUME NEW t \in Handlers, t.key \in Keys, t.text \in Texts
    PROVE  Goto(t, "index") \in Legal
PROOF
<1>1. "index" \in Pcs
  BY DEF Pcs, Sections, WriteSections
<1>2. /\ Goto(t, "index") \in Handlers /\ Goto(t, "index").pc = "index"
      /\ Goto(t, "index").key \in Keys /\ Goto(t, "index").text \in Texts
  BY <1>1, GotoType
<1> QED
  BY <1>2 DEF Legal, Carries

\* Setting one field leaves the key and the text alone.
LEMMA WithKeeps ==
    ASSUME NEW t \in Handlers
    PROVE  /\ \A x : [t EXCEPT !.text = x].key = t.key
           /\ \A x : [t EXCEPT !.diag = x].key = t.key
           /\ \A x : [t EXCEPT !.base = x].key = t.key
           /\ \A x : [t EXCEPT !.diag = x].diag = x
           /\ \A x : [t EXCEPT !.base = x].base = x
           /\ \A x : [t EXCEPT !.found = x].found = x
           /\ \A x : [t EXCEPT !.op = x].batch = t.batch
           /\ \A x : [t EXCEPT !.key = x].key = x
           /\ \A x : [t EXCEPT !.text = x].text = x
           /\ \A x : [t EXCEPT !.ver = x].ver = x
           /\ \A x : [t EXCEPT !.batch = x].batch = x
           /\ \A x : [t EXCEPT !.text = x].pc = t.pc
           /\ \A x : [t EXCEPT !.ver = x].pc = t.pc
           /\ \A x : [t EXCEPT !.ver = x].key = t.key
           /\ \A x : [t EXCEPT !.ver = x].text = t.text
           /\ \A x : [t EXCEPT !.batch = x].pc = t.pc
PROOF
  BY SMTT(30) DEF Handlers

LEMMA ClientSame ==
    ASSUME ClientOK, UNCHANGED client
    PROVE  ClientOK'
PROOF
  BY DEF ClientOK, client, files, editor

LEMMA ServerSame ==
    ASSUME ServerOK, UNCHANGED server
    PROVE  ServerOK'
PROOF
  BY DEF ServerOK, server, index, session, settings, findings

\* Steps that change nothing but the scheduler's state.
LEMMA QuietThen ==
    ASSUME TypeOK, NEW s \in Slots, NEW t \in Legal, Then(s, t), lockq # <<>>,
           UNCHANGED <<client, server, guards>>
    PROVE  TypeOK'
PROOF
<1>1. guards' \subseteq Slots
  BY DEF TypeOK, SchedOK
<1>2. SchedOK'
  BY <1>1, ThenOK DEF TypeOK
<1> QED
  BY <1>2, ClientSame, ServerSame DEF TypeOK

LEMMA QuietResume ==
    ASSUME TypeOK, NEW s \in Slots, NEW t \in Legal, Resume(s, t),
           UNCHANGED <<client, server, guards>>
    PROVE  TypeOK'
PROOF
<1>1. guards' \subseteq Slots
  BY DEF TypeOK, SchedOK
<1>2. SchedOK'
  BY <1>1, ResumeOK DEF TypeOK
<1> QED
  BY <1>2, ClientSame, ServerSame DEF TypeOK

-----------------------------------------------------------------------------
(* Type correctness, one lemma per group of actions *)

LEMMA DocumentSectionsType ==
    ASSUME TypeOK, NEW s \in Slots,
           \/ DidOpenClear(s) \/ Pass1(s) \/ DidChangeRecord(s)
           \/ DidChangeIsLatest(s) \/ DidClose(s)
    PROVE  TypeOK'
PROOF
<1> DEFINE t == task[s]
           k == task[s].key
<1>0. t \in Handlers /\ Carries(t) /\ ClientOK /\ ServerOK /\ SchedOK /\ lockq # <<>>
      /\ guards' \subseteq Slots /\ ClientOK'
  <2>1. t \in Handlers /\ Carries(t) /\ ClientOK /\ ServerOK /\ SchedOK /\ guards \subseteq Slots
    BY TaskLegal DEF TypeOK
  <2>2. UNCHANGED client /\ UNCHANGED guards /\ lockq # <<>>
    BY DEF DidOpenClear, Pass1, DidChangeRecord, DidChangeIsLatest, DidClose, At, Runnable
  <2> QED
    BY <2>1, <2>2, ClientSame
<1>1. CASE DidOpenClear(s)
  <2>1. k \in Keys /\ t.text \in Texts
    BY <1>0, <1>1 DEF DidOpenClear, At, Carries
  <2>2. Goto(t, "index") \in Legal
    BY <1>0, <2>1, GotoIndex
  <2>3. SchedOK'
    BY <1>0, <1>1, <2>2, ThenOK DEF DidOpenClear
  <2>4. ServerOK'
    BY <1>0, <1>1, <2>1 DEF DidOpenClear, ServerOK, index, settings, findings
  <2> QED
    BY <1>0, <2>3, <2>4 DEF TypeOK
<1>2. CASE Pass1(s)
  <2> DEFINE u == [t EXCEPT !.text = None]
  <2>1. k \in Keys /\ t.text \in Texts
    BY <1>0, <1>2 DEF Pass1, At, Carries
  <2>2. u \in Handlers /\ u.key \in Keys
    BY <1>0, <2>1, WithType, WithKeeps
  <2> HIDE DEF u
  <2>3. /\ Goto(u, "compute") \in Legal /\ Goto(u, "latest") \in Legal
        /\ EventDone(u) \in Legal
    BY <2>2, GotoKeyed, EventDoneLegal DEF Keyed
  <2>4. PICK v \in Legal : Then(s, v)
    BY <1>2, <2>3 DEF Pass1, u
  <2>5. SchedOK'
    BY <1>0, <2>4, ThenOK
  <2>6. Sidecar(k, BaseRegistry(k)) \in Registries \cup {None}
    BY <1>0, <2>1, SidecarType, BaseRegistryType
  <2>7. ServerOK'
    BY <1>0, <1>2, <2>1, <2>6 DEF Pass1, UpdateFile, ServerOK, session, settings, findings
  <2> QED
    BY <1>0, <2>5, <2>7 DEF TypeOK
<1>3. CASE DidChangeRecord(s)
  <2>1. k \in Keys /\ t.text \in Texts /\ t.ver \in Nat
    <3>1. t.ver \in Nat
      BY <1>0, SMT DEF Handlers
    <3> QED
      BY <1>0, <1>3, <3>1 DEF DidChangeRecord, At, Carries
  <2>2. PICK v \in Legal : Then(s, v)
    BY <1>0, <1>3, <2>1, IdleLegal, GotoIndex DEF DidChangeRecord
  <2>3. SchedOK'
    BY <1>0, <2>2, ThenOK
  <2>4. doc_versions' \in [Keys -> Nat \cup {None}]
    BY <1>0, <1>3, <2>1 DEF DidChangeRecord, ServerOK
  <2>5. ServerOK'
    BY <1>0, <1>3, <2>4 DEF DidChangeRecord, ServerOK, index, settings, findings
  <2> QED
    BY <1>0, <2>3, <2>5 DEF TypeOK
<1>4. CASE DidChangeIsLatest(s)
  <2>1. k \in Keys
    BY <1>0, <1>4 DEF DidChangeIsLatest, At, Carries
  <2>2. PICK v \in Legal : Then(s, v)
    BY <1>0, <1>4, <2>1, IdleLegal, GotoKeyed DEF DidChangeIsLatest, Keyed
  <2> QED
    BY <1>0, <1>4, <2>2, QuietThen DEF DidChangeIsLatest
<1>5. CASE DidClose(s)
  <2>1. k \in Keys
    BY <1>0, <1>5 DEF DidClose, At, Carries
  <2>2. SchedOK'
    BY <1>0, <1>5, IdleLegal, ThenOK DEF DidClose
  <2>3. ServerOK'
    BY <1>0, <1>5, <2>1 DEF DidClose, ServerOK, index, settings, findings
  <2> QED
    BY <1>0, <2>2, <2>3 DEF TypeOK
<1> QED
  BY <1>1, <1>2, <1>3, <1>4, <1>5

LEMMA PublishType ==
    ASSUME TypeOK, NEW s \in Slots,
           \/ ComputeDiagnostics(s) \/ StoreAndPush(s) \/ RepublishKeys(s)
           \/ RefreshFlags(s)
    PROVE  TypeOK'
PROOF
<1> DEFINE t == task[s]
           k == task[s].key
<1>0. t \in Handlers /\ Carries(t) /\ ClientOK /\ ServerOK /\ SchedOK /\ lockq # <<>>
      /\ guards' \subseteq Slots /\ ClientOK'
  <2>1. t \in Handlers /\ Carries(t) /\ ClientOK /\ ServerOK /\ SchedOK /\ guards \subseteq Slots
    BY TaskLegal DEF TypeOK
  <2>2. UNCHANGED client /\ UNCHANGED guards /\ lockq # <<>>
    BY DEF ComputeDiagnostics, StoreAndPush, RepublishKeys, RefreshFlags, At, Runnable
  <2> QED
    BY <2>1, <2>2, ClientSame
<1>1. CASE ComputeDiagnostics(s)
  <2> DEFINE d == Compute(k)
             u == [t EXCEPT !.diag = d]
  <2>1. k \in Keys
    BY <1>0, <1>1 DEF ComputeDiagnostics, At, Carries
  <2>2. CASE d = None
    <3>1. PICK v \in AfterPublish(t) : Then(s, v)
      BY <1>1, <2>2 DEF ComputeDiagnostics
    <3>2. v \in Legal
      BY <1>0, AfterPublishLegal
    <3> QED
      BY <1>0, <1>1, <3>1, <3>2, QuietThen DEF ComputeDiagnostics
  <2>3. CASE d # None
    <3>1. d \in Findings
      BY <1>0, <2>1, <2>3, ComputeType
    <3>2. Then(s, Goto(u, "store"))
      BY <1>1, <2>3 DEF ComputeDiagnostics
    <3>3. u \in Handlers /\ u.key \in Keys /\ u.diag = d
      BY <1>0, <2>1, <3>1, WithType, WithKeeps
    <3> HIDE DEF u, d
    <3>4. "store" \in Pcs
      BY DEF Pcs, Sections, WriteSections
    <3>5. Goto(u, "store") \in Legal
      BY <3>1, <3>3, <3>4, GotoType DEF Legal, Carries
    <3> QED
      BY <1>0, <1>1, <3>2, <3>5, QuietThen DEF ComputeDiagnostics
  <2> QED
    BY <2>2, <2>3
<1>2. CASE StoreAndPush(s)
  <2> DEFINE u == [t EXCEPT !.diag = None]
  <2>1. k \in Keys /\ t.diag \in Findings
    BY <1>0, <1>2 DEF StoreAndPush, At, Carries
  <2>2. u \in Handlers
    BY <1>0, WithType
  <2>3. Goto(u, "flush") \in Legal
    BY <2>2, GotoBare DEF Bare
  <2>4. SchedOK'
    BY <1>0, <1>2, <2>3, ThenOK DEF StoreAndPush
  <2>5. ServerOK'
    BY <1>0, <1>2, <2>1 DEF StoreAndPush, ServerOK, index, session, settings
  <2> QED
    BY <1>0, <2>4, <2>5 DEF TypeOK
<1>3. CASE RepublishKeys(s)
  <2> DEFINE ks == {j \in Keys : sources[j] # None}
             u == [t EXCEPT !.todo = ks]
  <2>1. u \in Handlers
    BY <1>0, WithType
  <2>2. PICK v \in RepublishNext(u) : Then(s, v)
    BY <1>3 DEF RepublishKeys
  <2>3. v \in Legal
    BY <2>1, RepublishLegal
  <2> QED
    BY <1>0, <1>3, <2>2, <2>3, QuietThen DEF RepublishKeys
<1>4. CASE RefreshFlags(s)
  <2>1. PICK v \in Legal : Then(s, v)
    BY <1>0, <1>4, GotoBare, FinishedLegal DEF RefreshFlags, Bare
  <2> QED
    BY <1>0, <1>4, <2>1, QuietThen DEF RefreshFlags
<1> QED
  BY <1>1, <1>2, <1>3, <1>4

LEMMA EventType ==
    ASSUME NEW e \in Events
    PROVE  /\ e.type = "config" => e.at \in Folders
           /\ e.type # "config" => e.type \in {"changed", "deleted", "hints"} /\ e.at \in Keys
PROOF
  BY SMT DEF Events

LEMMA WatcherSectionsType ==
    ASSUME TypeOK, NEW s \in Slots,
           \/ ClassifyEvent(s) \/ ForgetDeleted(s) \/ SidecarBase(s) \/ RefreshSidecar(s)
    PROVE  TypeOK'
PROOF
<1> DEFINE t == task[s]
           k == task[s].key
<1>0. t \in Handlers /\ Carries(t) /\ ClientOK /\ ServerOK /\ SchedOK /\ lockq # <<>>
      /\ guards' \subseteq Slots /\ ClientOK'
  <2>1. t \in Handlers /\ Carries(t) /\ ClientOK /\ ServerOK /\ SchedOK /\ guards \subseteq Slots
    BY TaskLegal DEF TypeOK
  <2>2. UNCHANGED client /\ UNCHANGED guards /\ lockq # <<>>
    BY DEF ClassifyEvent, ForgetDeleted, SidecarBase, RefreshSidecar, At, Runnable
  <2> QED
    BY <2>1, <2>2, ClientSame
<1>1. CASE ClassifyEvent(s)
  <2> DEFINE e == Head(t.batch)
             r == [t EXCEPT !.op = "reload"]
             u == [t EXCEPT !.key = e.at]
  <2>1. t.batch # <<>> /\ t.batch \in Seq(Events)
    <3>1. t.batch \in Seq(Events)
      BY <1>0, SMT DEF Handlers
    <3> QED
      BY <1>0, <1>1, <3>1 DEF ClassifyEvent, At, Carries
  <2>2. e \in Events
    BY <2>1, HeadTailProperties
  <2>3. CASE e.type = "config"
    <3>1. Then(s, Goto(r, "locate"))
      BY <1>1, <2>3 DEF ClassifyEvent
    <3>2. r \in Handlers /\ r.batch = t.batch
      BY <1>0, WithType, WithKeeps DEF Ops
    <3> HIDE DEF r
    <3>3. "locate" \in Pcs
      BY DEF Pcs, Sections, ReadSections
    <3>4. Goto(r, "locate") \in Legal
      BY <2>1, <2>3, <3>2, <3>3, GotoType DEF Legal, Carries
    <3> QED
      BY <1>0, <1>1, <3>1, <3>4, QuietThen DEF ClassifyEvent
  <2>4. CASE e.type # "config"
    <3>1. e.type \in {"changed", "deleted", "hints"} /\ e.at \in Keys
      BY <2>2, <2>4, EventType
    <3>2. u \in Handlers /\ u.key \in Keys
      BY <1>0, <3>1, WithType, WithKeeps
    <3>3. Then(s, Goto(u, "base")) \/ Then(s, Goto(u, "fsread")) \/ Then(s, Goto(u, "forget"))
      BY <1>1, <2>4, <3>1 DEF ClassifyEvent
    <3> HIDE DEF u
    <3>4. /\ Goto(u, "base") \in Legal
          /\ Goto(u, "fsread") \in Legal
          /\ Goto(u, "forget") \in Legal
      BY <3>2, GotoKeyed DEF Keyed
    <3> QED
      BY <1>0, <1>1, <3>3, <3>4, QuietThen DEF ClassifyEvent
  <2> QED
    BY <2>3, <2>4
<1>2. CASE ForgetDeleted(s)
  <2>1. k \in Keys
    BY <1>0, <1>2 DEF ForgetDeleted, At, Carries
  <2>2. SchedOK'
    BY <1>0, <1>2, GotoBare, ThenOK DEF ForgetDeleted, Bare
  <2>3. ServerOK'
    BY <1>0, <1>2, <2>1 DEF ForgetDeleted, ServerOK, settings
  <2> QED
    BY <1>0, <2>2, <2>3 DEF TypeOK
<1>3. CASE SidecarBase(s)
  <2> DEFINE b == BaseRegistry(k)
             u == [t EXCEPT !.base = b]
  <2>1. k \in Keys
    BY <1>0, <1>3 DEF SidecarBase, At, Carries
  <2>2. b \in Registries
    BY <1>0, <2>1, BaseRegistryType
  <2>3. Then(s, Goto(u, "sidecar"))
    BY <1>3 DEF SidecarBase
  <2> HIDE DEF b
  <2>4. u \in Handlers /\ u.key \in Keys /\ u.base = b
    BY <1>0, <2>1, <2>2, WithType, WithKeeps
  <2> HIDE DEF u
  <2>5. "sidecar" \in Pcs
    BY DEF Pcs, Sections, WriteSections
  <2>6. Goto(u, "sidecar") \in Legal
    BY <2>2, <2>4, <2>5, GotoType DEF Legal, Carries
  <2> QED
    BY <1>0, <1>3, <2>3, <2>6, QuietThen DEF SidecarBase
<1>4. CASE RefreshSidecar(s)
  <2> DEFINE u == [t EXCEPT !.base = None]
  <2>1. k \in Keys /\ t.base \in Registries
    BY <1>0, <1>4 DEF RefreshSidecar, At, Carries
  <2>2. u \in Handlers /\ u.key \in Keys
    BY <1>0, <2>1, WithType, WithKeeps
  <2>3. Then(s, Goto(u, "compute"))
    BY <1>4 DEF RefreshSidecar
  <2> HIDE DEF u
  <2>4. SchedOK'
    BY <1>0, <2>2, <2>3, GotoKeyed, ThenOK DEF Keyed
  <2>5. Sidecar(k, t.base) \in Registries \cup {None}
    BY <1>0, <2>1, SidecarType
  <2>6. ServerOK'
    BY <1>0, <1>4, <2>1, <2>5 DEF RefreshSidecar, ServerOK, session, settings, findings
  <2> QED
    BY <1>0, <2>4, <2>6 DEF TypeOK
<1> QED
  BY <1>1, <1>2, <1>3, <1>4

LEMMA ConfigSectionsType ==
    ASSUME TypeOK, NEW s \in Slots,
           \/ LocateFolder(s) \/ DiscoverConfig(s) \/ ApplyConfig(s) \/ ApplyOverlay(s)
    PROVE  TypeOK'
PROOF
<1> DEFINE t == task[s]
<1>0. t \in Handlers /\ Carries(t) /\ ClientOK /\ ServerOK /\ SchedOK /\ lockq # <<>>
      /\ guards' \subseteq Slots /\ ClientOK'
  <2>1. t \in Handlers /\ Carries(t) /\ ClientOK /\ ServerOK /\ SchedOK /\ guards \subseteq Slots
    BY TaskLegal DEF TypeOK
  <2>2. UNCHANGED client /\ UNCHANGED guards /\ lockq # <<>>
    BY DEF LocateFolder, DiscoverConfig, ApplyConfig, ApplyOverlay, At, Runnable
  <2> QED
    BY <2>1, <2>2, ClientSame
<1>01. t.folders \subseteq Folders /\ t.cfg \in Configs /\ t.batch \in Seq(Events)
  BY <1>0, SMT DEF Handlers
<1>1. CASE LocateFolder(s)
  <2> DEFINE fs == {Head(t.batch).at}
             u == [t EXCEPT !.folders = fs]
  <2>1. t.batch # <<>> /\ Head(t.batch).type = "config"
    BY <1>0, <1>1 DEF LocateFolder, At, Carries
  <2>2. Head(t.batch) \in Events
    BY <1>01, <2>1, HeadTailProperties
  <2>3. fs \subseteq Folders
    BY <2>1, <2>2, EventType
  <2>4. Then(s, Goto(u, "discover"))
    BY <1>1 DEF LocateFolder
  <2> HIDE DEF fs
  <2>5. u \in Handlers
    BY <1>0, <2>3, WithType
  <2> HIDE DEF u
  <2> QED
    BY <1>0, <1>1, <2>4, <2>5, GotoBare, QuietThen DEF LocateFolder, Bare
<1>2. CASE DiscoverConfig(s)
  <2>1. PICK f \in t.folders :
           Then(s, IF cfgDisk[f] \in Broken
                   THEN Goto([t EXCEPT !.op = "watch", !.folders = {}], "flush")
                   ELSE Goto([t EXCEPT !.cfg = cfgDisk[f]], "config"))
    BY <1>2 DEF DiscoverConfig
  <2> DEFINE a == [t EXCEPT !.op = "watch"]
             b == [a EXCEPT !.folders = {}]
             c == [t EXCEPT !.cfg = cfgDisk[f]]
  <2>2. Then(s, Goto(b, "flush")) \/ Then(s, Goto(c, "config"))
    BY <2>1, Zenon
  <2>3. cfgDisk[f] \in Configs
    BY <1>0, <1>01, <2>1 DEF ClientOK
  <2>4. a \in Handlers /\ c \in Handlers
    BY <1>0, <2>3, WithType DEF Ops
  <2> HIDE DEF a, c
  <2>5. b \in Handlers
    BY <2>4, WithType
  <2> HIDE DEF b
  <2>6. Goto(b, "flush") \in Legal /\ Goto(c, "config") \in Legal
    BY <2>4, <2>5, GotoBare DEF Bare
  <2> QED
    BY <1>0, <1>2, <2>2, <2>6, QuietThen DEF DiscoverConfig
<1>3. CASE ApplyConfig(s)
  <2>1. PICK f \in t.folders :
          /\ config' = [config EXCEPT ![f] = t.cfg]
          /\ Then(s, IF Layout[t.cfg] = Layout[config[f]]
                     THEN Goto([t EXCEPT !.cfg = 0, !.folders = {}], "log")
                     ELSE Goto([t EXCEPT !.cfg = 0, !.layout = Layout[t.cfg]], "walk"))
    BY <1>3 DEF ApplyConfig
  <2> DEFINE a == [t EXCEPT !.cfg = 0]
             b == [a EXCEPT !.folders = {}]
             l == Layout[t.cfg]
             c == [a EXCEPT !.layout = l]
  <2>2. Then(s, Goto(b, "log")) \/ Then(s, Goto(c, "walk"))
    BY <2>1, Zenon
  <2>3. l \in SUBSET Keys /\ 0 \in Configs
    BY <1>01, ConfigAssumption
  <2> HIDE DEF l
  <2>4. a \in Handlers
    BY <1>0, <2>3, WithType
  <2> HIDE DEF a
  <2>5. b \in Handlers /\ c \in Handlers
    BY <2>3, <2>4, WithType
  <2> HIDE DEF b, c
  <2>6. Goto(b, "log") \in Legal /\ Goto(c, "walk") \in Legal
    BY <2>5, GotoBare DEF Bare
  <2>7. SchedOK'
    BY <1>0, <2>2, <2>6, ThenOK
  <2>8. ServerOK'
    BY <1>0, <1>01, <1>3, <2>1 DEF ApplyConfig, ServerOK, index, session, findings
  <2> QED
    BY <1>0, <2>7, <2>8 DEF TypeOK
<1>4. CASE ApplyOverlay(s)
  <2> DEFINE u == [t EXCEPT !.ver = 0]
  <2>1. t.ver \in Texts
    BY <1>0, <1>4 DEF ApplyOverlay, At, Carries
  <2>2. u \in Handlers
    BY <1>0, WithType
  <2>3. Then(s, Goto(u, "keys"))
    BY <1>4 DEF ApplyOverlay
  <2> HIDE DEF u
  <2>4. SchedOK'
    BY <1>0, <2>2, <2>3, GotoBare, ThenOK DEF Bare
  <2>5. ServerOK'
    BY <1>0, <1>4, <2>1 DEF ApplyOverlay, ServerOK, index, session, findings
  <2> QED
    BY <1>0, <2>4, <2>5 DEF TypeOK
<1> QED
  BY <1>1, <1>2, <1>3, <1>4

LEMMA ScanSectionsType ==
    ASSUME TypeOK, NEW s \in Slots,
           \/ ProgressFlag(s) \/ ScanInputs(s) \/ CommitScan(s) \/ HoldGuard(s)
    PROVE  TypeOK'
PROOF
<1> DEFINE t == task[s]
<1>0. t \in Handlers /\ Carries(t) /\ ClientOK /\ ServerOK /\ SchedOK /\ lockq # <<>>
      /\ guards' \subseteq Slots /\ ClientOK'
  <2>1. t \in Handlers /\ Carries(t) /\ ClientOK /\ ServerOK /\ SchedOK /\ guards \subseteq Slots
    BY TaskLegal DEF TypeOK
  <2>2. UNCHANGED client /\ lockq # <<>> /\ guards' \subseteq guards \cup {s}
    BY DEF ProgressFlag, ScanInputs, CommitScan, HoldGuard, At, Runnable
  <2> QED
    BY <2>1, <2>2, ClientSame
<1>1. CASE ProgressFlag(s)
  <2>1. Goto(t, "inputs") \in Legal /\ Goto(t, "create") \in Legal
    BY <1>0, GotoBare DEF Bare
  <2>2. Then(s, Goto(t, "inputs")) \/ Then(s, Goto(t, "create"))
    BY <1>1 DEF ProgressFlag
  <2> QED
    BY <1>0, <1>1, <2>1, <2>2, QuietThen DEF ProgressFlag
<1>2. CASE ScanInputs(s)
  <2> DEFINE ks == {k \in Keys : k \in Layout[config[Owner[k]]]}
             a == [t EXCEPT !.folders = Folders]
             b == [a EXCEPT !.layout = ks]
  <2>1. Then(s, Goto(b, "walk"))
    BY <1>2, Zenon DEF ScanInputs
  <2>2. ks \in SUBSET Keys
    OBVIOUS
  <2> HIDE DEF ks
  <2>3. a \in Handlers
    BY <1>0, WithType
  <2> HIDE DEF a
  <2>4. b \in Handlers
    BY <2>2, <2>3, WithType
  <2> HIDE DEF b
  <2> QED
    BY <1>0, <1>2, <2>1, <2>4, GotoBare, QuietThen DEF ScanInputs, Bare
<1>3. CASE CommitScan(s)
  <2>1. PICK f \in t.folders :
          /\ templates' = [k \in Keys |-> IF Owner[k] = f THEN t.found[k] ELSE templates[k]]
          /\ Then(s, IF t.folders = {f}
                     THEN Goto([t EXCEPT !.found = None, !.folders = {}, !.layout = {}], "log")
                     ELSE Goto([t EXCEPT !.found = None, !.folders = t.folders \ {f}], "walk"))
    BY <1>3 DEF CommitScan
  <2> DEFINE a == [t EXCEPT !.found = None]
             b == [a EXCEPT !.folders = {}]
             c == [b EXCEPT !.layout = {}]
             fs == t.folders \ {f}
             d == [a EXCEPT !.folders = fs]
  <2>2. Then(s, Goto(c, "log")) \/ Then(s, Goto(d, "walk"))
    BY <2>1, Zenon
  <2>3. fs \in SUBSET Folders
    BY <1>0, SMT DEF Handlers
  <2> HIDE DEF fs
  <2>4. a \in Handlers
    BY <1>0, WithType
  <2> HIDE DEF a
  <2>5. b \in Handlers /\ d \in Handlers
    BY <2>3, <2>4, WithType
  <2> HIDE DEF b, d
  <2>6. c \in Handlers
    BY <2>5, WithType
  <2> HIDE DEF c
  <2>7. Goto(c, "log") \in Legal /\ Goto(d, "walk") \in Legal
    BY <2>5, <2>6, GotoBare DEF Bare
  <2>8. SchedOK'
    BY <1>0, <2>2, <2>7, ThenOK
  <2>9. t.found \in [Keys -> Texts \cup {None}]
    BY <1>0, <1>3 DEF CommitScan, At, Carries
  <2>10. ServerOK'
    BY <1>0, <1>3, <2>1, <2>9 DEF CommitScan, ServerOK, session, settings, findings
  <2> QED
    BY <1>0, <2>8, <2>10 DEF TypeOK
<1>4. CASE HoldGuard(s)
  <2>1. PICK v \in Legal : Then(s, v)
    BY <1>0, <1>4, IdleLegal, GotoBare DEF HoldGuard, Bare
  <2>2. SchedOK'
    BY <1>0, <2>1, ThenOK
  <2>3. ServerOK'
    BY <1>0, <1>4, ServerSame DEF HoldGuard
  <2> QED
    BY <1>0, <2>2, <2>3 DEF TypeOK
<1> QED
  BY <1>1, <1>2, <1>3, <1>4

LEMMA WakeType ==
    ASSUME TypeOK, NEW s \in Slots, Wake(s)
    PROVE  TypeOK'
PROOF
<1> DEFINE t == task[s]
           k == task[s].key
<1>0. t \in Handlers /\ Carries(t) /\ ClientOK /\ ServerOK /\ SchedOK /\ guards \subseteq Slots
  BY TaskLegal DEF TypeOK
<1>1. CASE Flushed(s)
  <2>1. PICK v \in AfterPublish(t) : Resume(s, v)
    BY <1>1 DEF Flushed
  <2>2. v \in Legal
    BY <1>0, AfterPublishLegal
  <2> QED
    BY <1>1, <2>1, <2>2, QuietResume DEF Flushed
<1>2. CASE Refreshed(s)
  BY <1>0, <1>2, FinishedLegal, QuietResume DEF Refreshed
<1>3. CASE ReadFile(s)
  <2> DEFINE x == disk[k]
             u == [t EXCEPT !.text = x]
  <2>1. k \in Keys
    BY <1>0, <1>3 DEF ReadFile, Carries
  <2>2. x \in Texts \cup {None}
    BY <1>0, <2>1 DEF ClientOK
  <2>3. task' = [task EXCEPT ![s] = Goto(u, "fetched")]
    BY <1>3 DEF ReadFile
  <2> HIDE DEF x
  <2>4. u \in Handlers /\ u.key \in Keys
    BY <1>0, <2>1, <2>2, WithType, WithKeeps
  <2> HIDE DEF u
  <2>5. Goto(u, "fetched") \in Handlers /\ Carries(Goto(u, "fetched"))
    BY <2>4, GotoKeyed DEF Keyed, Legal
  <2>6. task' \in [Slots -> Handlers] /\ \A r \in Slots : Carries(task'[r])
    BY <1>0, <2>3, <2>5 DEF SchedOK
  <2>7. SchedOK'
    BY <1>0, <1>3, <2>6 DEF ReadFile, SchedOK, Carries
  <2> QED
    BY <1>0, <1>3, <2>7, ClientSame, ServerSame DEF ReadFile, TypeOK
<1>4. CASE FileRead(s)
  <2>1. k \in Keys /\ t.text \in Texts \cup {None}
    <3>1. t.text \in Texts \cup {None}
      BY <1>0, SMT DEF Handlers
    <3> QED
      BY <1>0, <1>4, <3>1 DEF FileRead, Waiting, Carries
  <2>2. PICK v \in Legal : Resume(s, v)
    BY <1>0, <1>4, <2>1, EventDoneLegal, GotoIndex DEF FileRead
  <2> QED
    BY <1>4, <2>2, QuietResume DEF FileRead
<1>5. CASE WalkFolder(s)
  <2> DEFINE w == [j \in Keys |-> IF j \in t.layout THEN disk[j] ELSE None]
             u == [t EXCEPT !.found = w]
  <2>1. task' = [task EXCEPT ![s] = Goto(u, "walked")]
    BY <1>5 DEF WalkFolder
  <2>2. w \in [Keys -> Texts \cup {None}]
    BY <1>0 DEF ClientOK
  <2> HIDE DEF w
  <2>3. u \in Handlers /\ u.found = w
    BY <1>0, <2>2, WithType, WithKeeps
  <2> HIDE DEF u
  <2>4. "walked" \in Pcs
    BY DEF Pcs, Waits
  <2>5. Goto(u, "walked") \in Handlers /\ Carries(Goto(u, "walked"))
    BY <2>2, <2>3, <2>4, GotoType DEF Carries
  <2>6. task' \in [Slots -> Handlers] /\ \A r \in Slots : Carries(task'[r])
    BY <1>0, <2>1, <2>5 DEF SchedOK
  <2>7. SchedOK'
    BY <1>0, <1>5, <2>6 DEF WalkFolder, SchedOK, Carries
  <2> QED
    BY <1>0, <1>5, <2>7, ClientSame, ServerSame DEF WalkFolder, TypeOK
<1>6. CASE Walked(s)
  <2>1. t.found \in [Keys -> Texts \cup {None}]
    BY <1>0, <1>6 DEF Walked, Waiting, Carries
  <2>2. "commit" \in Pcs
    BY DEF Pcs, Sections, WriteSections
  <2>3. Goto(t, "commit") \in Legal
    BY <1>0, <2>1, <2>2, GotoType DEF Legal, Carries
  <2> QED
    BY <1>6, <2>3, QuietResume DEF Walked
<1>7. CASE Logged(s)
  BY <1>0, <1>7, GotoBare, QuietResume DEF Logged, Bare
<1>8. CASE Greeted(s)
  BY <1>0, <1>8, GotoBare, QuietResume DEF Greeted, Bare
<1>9. CASE ProgressCreated(s)
  BY <1>0, <1>9, GotoBare, QuietResume DEF ProgressCreated, Bare
<1>10. CASE Registered(s)
  BY <1>0, <1>10, IdleLegal, QuietResume DEF Registered
<1>11. CASE MessageShown(s)
  <2>1. guards' \subseteq Slots
    BY <1>0, <1>11 DEF MessageShown
  <2>2. SchedOK'
    BY <1>0, <1>11, <2>1, IdleLegal, ResumeOK DEF MessageShown
  <2> QED
    BY <1>0, <1>11, <2>2, ClientSame, ServerSame DEF MessageShown, TypeOK
<1> QED
  BY <1>1, <1>2, <1>3, <1>4, <1>5, <1>6, <1>7, <1>8, <1>9, <1>10, <1>11 DEF Wake

\* A step that lets the client act has room for one more text.
LEMMA ActRoom ==
    ASSUME ClientOK, NEW kind, Act(kind)
    PROVE  /\ sent' \in Texts /\ NewText \in Texts /\ NewText \in Nat
           /\ \A x \in Texts : x \in Nat
PROOF
  BY BoundAssumption, SMT DEF ClientOK, Act, NewText, Texts

LEMMA AppendEvent ==
    ASSUME ClientOK, NEW e \in Events
    PROVE  Append(events, e) \in Seq(Events)
PROOF
  BY SMT DEF ClientOK

\* A document handler starts with its key, text and version.
LEMMA StartLegal ==
    ASSUME NEW k \in Keys, NEW x \in Texts, NEW v \in Nat
    PROVE  /\ [Handler("open", "clear", k) EXCEPT !.text = x] \in Legal
           /\ [Handler("change", "record", k) EXCEPT !.text = x, !.ver = v] \in Legal
           /\ Handler("close", "close", k) \in Legal
           /\ Handler("rename", "hold", k) \in Legal
PROOF
<1>1. /\ "open" \in Ops /\ "change" \in Ops /\ "close" \in Ops /\ "rename" \in Ops
      /\ "clear" \in Pcs /\ "record" \in Pcs /\ "close" \in Pcs /\ "hold" \in Pcs
  BY DEF Ops, Pcs, Sections, ReadSections, WriteSections
<1> DEFINE a == Handler("open", "clear", k)
           b == Handler("change", "record", k)
           bx == [b EXCEPT !.text = x]
<1>2. /\ a \in Handlers /\ a.pc = "clear" /\ a.key = k
      /\ b \in Handlers /\ b.pc = "record" /\ b.key = k
  BY <1>1, HandlerType
<1>3. Handler("close", "close", k) \in Legal /\ Handler("rename", "hold", k) \in Legal
  BY <1>1, HandlerType DEF Legal, Carries
<1> HIDE DEF a, b
<1>4. [a EXCEPT !.text = x] \in Legal
  <2>1. /\ [a EXCEPT !.text = x] \in Handlers
        /\ [a EXCEPT !.text = x].pc = "clear"
        /\ [a EXCEPT !.text = x].key = k
        /\ [a EXCEPT !.text = x].text = x
    BY <1>2, WithType, WithKeeps
  <2> QED
    BY <2>1 DEF Legal, Carries
<1>5. bx \in Handlers /\ bx.pc = "record" /\ bx.key = k /\ bx.text = x
  BY <1>2, WithType, WithKeeps
<1>6. [b EXCEPT !.text = x, !.ver = v] = [bx EXCEPT !.ver = v]
  BY Zenon
<1> HIDE DEF bx
<1>7. [bx EXCEPT !.ver = v] \in Legal
  <2>1. /\ [bx EXCEPT !.ver = v] \in Handlers
        /\ [bx EXCEPT !.ver = v].pc = "record"
        /\ [bx EXCEPT !.ver = v].key = k
        /\ [bx EXCEPT !.ver = v].text = x
    BY <1>5, WithType, WithKeeps
  <2> QED
    BY <2>1 DEF Legal, Carries
<1> QED
  BY <1>3, <1>4, <1>6, <1>7 DEF a, b

LEMMA EditorType ==
    ASSUME TypeOK, NEW k \in Keys,
           \/ EditorOpen(k) \/ EditorChange(k) \/ EditorClose(k) \/ EditorSave(k)
           \/ RenameRefused(k)
    PROVE  TypeOK'
PROOF
<1>0. ClientOK /\ ServerOK /\ SchedOK
  BY DEF TypeOK
<1>1. ServerOK'
  <2>1. UNCHANGED server
    BY DEF EditorOpen, EditorChange, EditorClose, EditorSave, RenameRefused
  <2> QED
    BY <1>0, <2>1, ServerSame
<1>2. sent' \in Texts /\ NewText \in Texts /\ \A x \in Texts : x \in Nat
  <2>1. PICK kind \in {"open", "change", "close", "save", "rename"} : Act(kind)
    BY DEF EditorOpen, EditorChange, EditorClose, EditorSave, RenameRefused
  <2> QED
    BY <1>0, <2>1, ActRoom
<1>3. CASE EditorOpen(k)
  <2> DEFINE x == IF disk[k] = None THEN NewText ELSE disk[k]
  <2>1. x \in Texts /\ bufText' = [bufText EXCEPT ![k] = x]
    BY <1>0, <1>2, <1>3 DEF EditorOpen, ClientOK
  <2> HIDE DEF x
  <2>2. bufText'[k] = x
    BY <1>0, <2>1 DEF ClientOK
  <2>3. PICK t \in Legal : Dispatch(t)
    BY <1>3, <2>1, <2>2, StartLegal, IdleLegal, <1>2 DEF EditorOpen
  <2>4. SchedOK'
    BY <1>0, <2>3, DispatchOK
  <2>5. ClientOK'
    BY <1>0, <1>2, <1>3, <2>1 DEF EditorOpen, ClientOK, files
  <2> QED
    BY <1>1, <2>4, <2>5 DEF TypeOK
<1>4. CASE EditorChange(k)
  <2>1. bufVer'[k] \in Nat /\ bufVer' \in [Keys -> Nat]
    BY <1>0, <1>4, SMT DEF EditorChange, ClientOK
  <2>2. PICK t \in Legal : Dispatch(t)
    BY <1>2, <1>4, <2>1, StartLegal DEF EditorChange
  <2>3. SchedOK'
    BY <1>0, <2>2, DispatchOK
  <2>4. ClientOK'
    BY <1>0, <1>2, <1>4, <2>1 DEF EditorChange, ClientOK, files
  <2> QED
    BY <1>1, <2>3, <2>4 DEF TypeOK
<1>5. CASE EditorClose(k)
  <2>1. PICK t \in Legal : Dispatch(t)
    BY <1>2, <1>5, StartLegal DEF EditorClose
  <2>2. SchedOK'
    BY <1>0, <2>1, DispatchOK
  <2>3. ClientOK'
    BY <1>0, <1>2, <1>5 DEF EditorClose, ClientOK, files
  <2> QED
    BY <1>1, <2>2, <2>3 DEF TypeOK
<1>6. CASE EditorSave(k)
  <2>1. Event("changed", k) \in Events
    BY SMT DEF Event, Events
  <2>2. Append(events, Event("changed", k)) \in Seq(Events)
    BY <1>0, <2>1, AppendEvent
  <2>3. SchedOK'
    BY <1>0, <1>6, IdleLegal, DispatchOK DEF EditorSave
  <2>4. ClientOK'
    BY <1>0, <1>2, <1>6, <2>2 DEF EditorSave, ClientOK, editor
  <2> QED
    BY <1>1, <2>3, <2>4 DEF TypeOK
<1>7. CASE RenameRefused(k)
  <2>1. PICK t \in Legal : Dispatch(t)
    BY <1>2, <1>7, StartLegal DEF RenameRefused
  <2>2. SchedOK'
    BY <1>0, <2>1, DispatchOK
  <2>3. ClientOK'
    BY <1>0, <1>2, <1>7 DEF RenameRefused, ClientOK, files, editor
  <2> QED
    BY <1>1, <2>2, <2>3 DEF TypeOK
<1> QED
  BY <1>3, <1>4, <1>5, <1>6, <1>7

LEMMA FileSystemType ==
    ASSUME TypeOK,
           \/ \E k \in Keys : FileWritten(k) \/ FileDeleted(k) \/ HintsWritten(k)
           \/ \E f \in Folders : ConfigWritten(f)
    PROVE  TypeOK'
PROOF
<1>0. ClientOK /\ ServerOK /\ SchedOK
  BY DEF TypeOK
<1>1. ServerOK' /\ SchedOK'
  <2>1. UNCHANGED server /\ UNCHANGED sched
    BY DEF FileWritten, FileDeleted, HintsWritten, ConfigWritten
  <2>2. SchedOK'
    BY <1>0, <2>1 DEF sched, SchedOK, Carries
  <2> QED
    BY <1>0, <2>1, <2>2, ServerSame
<1>2. sent' \in Texts /\ NewText \in Texts /\ 0 \in Texts
  <2>1. PICK kind \in {"write", "delete", "hints", "config"} : Act(kind)
    BY DEF FileWritten, FileDeleted, HintsWritten, ConfigWritten
  <2>2. 0 \in Texts
    BY BoundAssumption, SMT DEF Texts
  <2> QED
    BY <1>0, <2>1, <2>2, ActRoom
<1>3. ASSUME NEW k \in Keys, FileWritten(k) \/ FileDeleted(k) \/ HintsWritten(k)
      PROVE  ClientOK'
  <2>1. /\ Event("changed", k) \in Events
        /\ Event("deleted", k) \in Events
        /\ Event("hints", k) \in Events
    BY SMT DEF Event, Events
  <2>2. events' \in Seq(Events)
    BY <1>0, <1>3, <2>1, AppendEvent DEF FileWritten, FileDeleted, HintsWritten
  <2>3. CASE FileWritten(k)
    BY <1>0, <1>2, <2>2, <2>3 DEF FileWritten, ClientOK, editor
  <2>4. CASE FileDeleted(k)
    BY <1>0, <1>2, <2>2, <2>4 DEF FileDeleted, ClientOK, editor
  <2>5. CASE HintsWritten(k)
    <3>1. PICK h \in {0, NewText} : hints' = [hints EXCEPT ![k] = h]
      BY <2>5 DEF HintsWritten
    <3> QED
      BY <1>0, <1>2, <2>2, <2>5, <3>1 DEF HintsWritten, ClientOK, editor
  <2> QED
    BY <1>3, <2>3, <2>4, <2>5
<1>4. ASSUME NEW f \in Folders, ConfigWritten(f)
      PROVE  ClientOK'
  <2>1. Event("config", f) \in Events
    BY SMT DEF Event, Events
  <2>2. events' \in Seq(Events)
    BY <1>0, <1>4, <2>1, AppendEvent DEF ConfigWritten
  <2>3. PICK c \in Configs : cfgDisk' = [cfgDisk EXCEPT ![f] = c]
    BY <1>4 DEF ConfigWritten
  <2> QED
    BY <1>0, <1>2, <1>4, <2>2, <2>3 DEF ConfigWritten, ClientOK, editor
<1> QED
  BY <1>1, <1>3, <1>4 DEF TypeOK

LEMMA DeliverType ==
    ASSUME TypeOK, DeliverEvents \/ SettingsChanged
    PROVE  TypeOK'
PROOF
<1>0. ClientOK /\ ServerOK /\ SchedOK
  BY DEF TypeOK
<1>1. ServerOK'
  BY <1>0, ServerSame DEF DeliverEvents, SettingsChanged
<1>2. CASE DeliverEvents
  <2> DEFINE h == Handler("watch", "classify", None)
  <2>1. PICK n \in 1..Len(events) :
          /\ events' = SubSeq(events, n + 1, Len(events))
          /\ Dispatch([h EXCEPT !.batch = SubSeq(events, 1, n)])
    BY <1>2 DEF DeliverEvents
  <2> DEFINE q == SubSeq(events, 1, n)
  <2>2. events \in Seq(Events) /\ Len(events) \in Nat
    BY <1>0, LenProperties DEF ClientOK
  <2>3. q \in Seq(Events) /\ Len(q) = n
    BY <2>2, SMT
  <2>4. events' \in Seq(Events)
    BY <2>1, <2>2, SMT
  <2>5. q # <<>>
    <3>1. Len(q) # 0
      BY <2>2, <2>3, SMT
    <3> QED
      BY <3>1, EmptySeq
  <2>6. h \in Handlers /\ h.pc = "classify"
    BY HandlerType DEF Ops, Pcs, Sections, ReadSections
  <2> HIDE DEF h, q
  <2>7. [h EXCEPT !.batch = q] \in Legal
    <3>1. /\ [h EXCEPT !.batch = q] \in Handlers
          /\ [h EXCEPT !.batch = q].pc = "classify"
          /\ [h EXCEPT !.batch = q].batch = q
      BY <2>3, <2>6, WithType, WithKeeps
    <3> QED
      BY <2>5, <3>1 DEF Legal, Carries
  <2>8. SchedOK'
    BY <1>0, <2>1, <2>7, DispatchOK DEF q
  <2>9. ClientOK'
    BY <1>0, <1>2, <2>4 DEF DeliverEvents, ClientOK, files, editor
  <2> QED
    BY <1>1, <2>8, <2>9 DEF TypeOK
<1>3. CASE SettingsChanged
  <2> DEFINE h == Handler("settings", "overlay", None)
  <2>1. sent' \in Texts /\ NewText \in Texts /\ NewText \in Nat
    <3>1. Act("settings")
      BY <1>3 DEF SettingsChanged
    <3> QED
      BY <1>0, <3>1, ActRoom
  <2>2. h \in Handlers /\ h.pc = "overlay"
    BY HandlerType DEF Ops, Pcs, Sections, WriteSections
  <2>3. Dispatch(Idle) \/ Dispatch([h EXCEPT !.ver = NewText])
    BY <1>3 DEF SettingsChanged
  <2> HIDE DEF h
  <2>4. [h EXCEPT !.ver = NewText] \in Legal
    <3>1. /\ [h EXCEPT !.ver = NewText] \in Handlers
          /\ [h EXCEPT !.ver = NewText].pc = "overlay"
          /\ [h EXCEPT !.ver = NewText].ver = NewText
      BY <2>1, <2>2, WithType, WithKeeps
    <3> QED
      BY <2>1, <3>1 DEF Legal, Carries
  <2>5. SchedOK'
    BY <1>0, <2>3, <2>4, IdleLegal, DispatchOK
  <2>6. ClientOK'
    BY <1>0, <1>3, <2>1 DEF SettingsChanged, ClientOK, files, editor
  <2> QED
    BY <1>1, <2>5, <2>6 DEF TypeOK
<1> QED
  BY <1>2, <1>3

LEMMA InitType == Init => TypeOK
PROOF
<1> SUFFICES ASSUME Init PROVE TypeOK
  OBVIOUS
<1>0. 0 \in Texts /\ 0 \in Nat /\ 0 \in Configs
  BY BoundAssumption, ConfigAssumption, SMT DEF Texts
<1>1. ClientOK
  BY <1>0 DEF Init, ClientOK
<1>2. ServerOK
  BY <1>0 DEF Init, ServerOK
<1> DEFINE h == Handler("scan", "greet", None)
<1>3. h \in Handlers /\ Carries(h)
  <2>1. "scan" \in Ops /\ "greet" \in Pcs
    BY DEF Ops, Pcs, Waits
  <2>2. h \in Handlers /\ h.pc = "greet"
    BY <2>1, HandlerType
  <2> QED
    BY <2>2 DEF Carries
<1>4. SchedOK
  BY <1>3, IdleLegal DEF Init, SchedOK, Legal
<1> QED
  BY <1>1, <1>2, <1>4 DEF TypeOK

LEMMA NextType == TypeOK /\ [Next]_vars => TypeOK'
PROOF
<1> SUFFICES ASSUME TypeOK, [Next]_vars PROVE TypeOK'
  OBVIOUS
<1>1. ASSUME NEW s \in Slots, Section(s) PROVE TypeOK'
  BY <1>1, DocumentSectionsType, PublishType, WatcherSectionsType, ConfigSectionsType,
     ScanSectionsType DEF Section
<1>2. ASSUME NEW s \in Slots, Wake(s) PROVE TypeOK'
  BY <1>2, WakeType
<1>3. CASE Client
  BY <1>3, EditorType, FileSystemType, DeliverType DEF Client
<1>4. CASE UNCHANGED vars
  <2>1. UNCHANGED client /\ UNCHANGED server /\ UNCHANGED sched
    BY <1>4 DEF vars
  <2>2. SchedOK'
    BY <2>1 DEF sched, TypeOK, SchedOK, Carries
  <2> QED
    BY <2>1, <2>2, ClientSame, ServerSame DEF TypeOK
<1> QED
  BY <1>1, <1>2, <1>3, <1>4 DEF Next, Rest

\* Every reachable state is well typed, and every handler carries what the step
\* it is about to take needs.
THEOREM TypeCorrect == Spec => []TypeOK
PROOF
  BY InitType, NextType, PTL DEF Spec

-----------------------------------------------------------------------------
(* Version marks *)

\* No step other than those of did_open, did_change, did_close, Pass 1 and a watched
\* deletion touches a document's text or its version mark.
LEMMA TextAndMarkWriters ==
    ASSUME [Next]_vars
    PROVE  \/ UNCHANGED <<sources, doc_versions>>
           \/ \E s \in Slots : \/ DidOpenClear(s) \/ Pass1(s) \/ DidChangeRecord(s)
                               \/ DidClose(s) \/ ForgetDeleted(s)
PROOF
<1>1. CASE UNCHANGED vars
  BY <1>1 DEF vars, server, index, session
<1>2. CASE Client
  <2>1. UNCHANGED server
    BY <1>2 DEF Client, EditorOpen, EditorChange, EditorClose, EditorSave, FileWritten,
       FileDeleted, HintsWritten, RenameRefused, ConfigWritten, DeliverEvents, SettingsChanged
  <2> QED
    BY <2>1 DEF server, index, session
<1>3. ASSUME NEW s \in Slots, Wake(s)
      PROVE  UNCHANGED <<sources, doc_versions>>
  <2>1. UNCHANGED server
    BY <1>3 DEF Wake, Flushed, Refreshed, ReadFile, FileRead, WalkFolder, Walked, Logged,
       Greeted, ProgressCreated, Registered, MessageShown
  <2> QED
    BY <2>1 DEF server, index, session
<1>4. ASSUME NEW s \in Slots, Section(s)
      PROVE  \/ UNCHANGED <<sources, doc_versions>>
             \/ DidOpenClear(s) \/ Pass1(s) \/ DidChangeRecord(s)
             \/ DidClose(s) \/ ForgetDeleted(s)
  <2>1. \/ DidOpenClear(s) \/ Pass1(s) \/ DidChangeRecord(s) \/ DidClose(s)
        \/ ForgetDeleted(s) \/ UNCHANGED server
        \/ StoreAndPush(s) \/ RefreshSidecar(s) \/ ApplyConfig(s) \/ ApplyOverlay(s)
        \/ CommitScan(s)
    BY <1>4 DEF Section, DidChangeIsLatest, ComputeDiagnostics, RepublishKeys, RefreshFlags,
       ClassifyEvent, SidecarBase, LocateFolder, DiscoverConfig, ProgressFlag, ScanInputs,
       HoldGuard
  <2>2. \/ UNCHANGED server \/ StoreAndPush(s) \/ RefreshSidecar(s) \/ ApplyConfig(s)
        \/ ApplyOverlay(s) \/ CommitScan(s)
        => UNCHANGED <<sources, doc_versions>>
    BY DEF server, index, session, StoreAndPush, RefreshSidecar, ApplyConfig, ApplyOverlay,
       CommitScan
  <2> QED
    BY <2>1, <2>2
<1> QED
  BY <1>1, <1>2, <1>3, <1>4 DEF Next, Rest

LEMMA MarksStep == TypeOK /\ MarksOnlyTracked /\ [Next]_vars => MarksOnlyTracked'
PROOF
<1> SUFFICES ASSUME TypeOK, MarksOnlyTracked, [Next]_vars, NEW k \in Keys,
                    doc_versions'[k] # None
             PROVE  sources'[k] # None
  BY DEF MarksOnlyTracked
<1>0. /\ sources \in [Keys -> Texts \cup {None}]
      /\ doc_versions \in [Keys -> Nat \cup {None}]
      /\ doc_versions[k] # None => sources[k] # None
  BY DEF TypeOK, ServerOK, MarksOnlyTracked
<1>1. CASE UNCHANGED <<sources, doc_versions>>
  BY <1>0, <1>1
<1>2. ASSUME NEW s \in Slots, DidOpenClear(s)
      PROVE  sources'[k] # None
  BY <1>0, <1>2 DEF DidOpenClear, index
<1>3. ASSUME NEW s \in Slots, Pass1(s)
      PROVE  sources'[k] # None
  <2>1. task[s].text \in Texts
    BY <1>3, TaskLegal DEF TypeOK, Pass1, At, Carries
  <2>2. task[s].text # None
    BY <2>1, NoneAssumption, BoundAssumption, SMT DEF Texts
  <2>3. doc_versions'[k] = doc_versions[k]
    BY <1>3 DEF Pass1, session
  <2>4. sources' = [sources EXCEPT ![task[s].key] = task[s].text]
    BY <1>3 DEF Pass1, UpdateFile
  <2> QED
    BY <1>0, <2>2, <2>3, <2>4
<1>4. ASSUME NEW s \in Slots, DidChangeRecord(s)
      PROVE  sources'[k] # None
  <2>1. sources' = sources
    BY <1>4 DEF DidChangeRecord, index
  <2>2. CASE sources[task[s].key] = None
    BY <1>0, <1>4, <2>1, <2>2 DEF DidChangeRecord
  <2>3. CASE sources[task[s].key] # None
    <3>1. CASE k = task[s].key
      BY <2>1, <2>3, <3>1
    <3>2. CASE k # task[s].key
      BY <1>0, <1>4, <2>1, <2>3, <3>2 DEF DidChangeRecord
    <3> QED
      BY <3>1, <3>2
  <2> QED
    BY <2>2, <2>3
<1>5. ASSUME NEW s \in Slots, DidClose(s)
      PROVE  sources'[k] # None
  BY <1>0, <1>5 DEF DidClose, index
<1>6. ASSUME NEW s \in Slots, ForgetDeleted(s)
      PROVE  sources'[k] # None
  BY <1>0, <1>6 DEF ForgetDeleted
<1> QED
  BY <1>1, <1>2, <1>3, <1>4, <1>5, <1>6, TextAndMarkWriters

\* Whatever the client, the watchers, the scans and the reloads do, in any order the
\* lock allows, a version mark belongs to a document the server tracks.
THEOREM MarksAreTracked == Spec => []MarksOnlyTracked
PROOF
<1>1. Init => MarksOnlyTracked
  BY DEF Init, MarksOnlyTracked
<1> QED
  BY <1>1, MarksStep, TypeCorrect, PTL DEF Spec

-----------------------------------------------------------------------------
(* Facts and text *)

\* No step other than those of Pass 1, a watched deletion and a scan's commit touches
\* the index or a text.
LEMMA IndexWriters ==
    ASSUME [Next]_vars
    PROVE  \/ UNCHANGED <<sources, templates>>
           \/ \E s \in Slots : Pass1(s) \/ ForgetDeleted(s) \/ CommitScan(s)
PROOF
<1>1. CASE UNCHANGED vars
  BY <1>1 DEF vars, server, index
<1>2. CASE Client
  <2>1. UNCHANGED server
    BY <1>2 DEF Client, EditorOpen, EditorChange, EditorClose, EditorSave, FileWritten,
       FileDeleted, HintsWritten, RenameRefused, ConfigWritten, DeliverEvents, SettingsChanged
  <2> QED
    BY <2>1 DEF server, index
<1>3. ASSUME NEW s \in Slots, Wake(s)
      PROVE  UNCHANGED <<sources, templates>>
  <2>1. UNCHANGED server
    BY <1>3 DEF Wake, Flushed, Refreshed, ReadFile, FileRead, WalkFolder, Walked, Logged,
       Greeted, ProgressCreated, Registered, MessageShown
  <2> QED
    BY <2>1 DEF server, index
<1>4. ASSUME NEW s \in Slots, Section(s)
      PROVE  \/ UNCHANGED <<sources, templates>>
             \/ Pass1(s) \/ ForgetDeleted(s) \/ CommitScan(s)
  <2>1. \/ Pass1(s) \/ ForgetDeleted(s) \/ CommitScan(s)
        \/ UNCHANGED server \/ UNCHANGED index \/ RefreshSidecar(s)
    BY <1>4 DEF Section, DidOpenClear, DidChangeRecord, DidChangeIsLatest, DidClose,
       ComputeDiagnostics, StoreAndPush, RepublishKeys, RefreshFlags, ClassifyEvent,
       SidecarBase, LocateFolder, DiscoverConfig, ApplyConfig, ApplyOverlay, ProgressFlag,
       ScanInputs, HoldGuard
  <2>2. UNCHANGED server \/ UNCHANGED index \/ RefreshSidecar(s)
        => UNCHANGED <<sources, templates>>
    BY DEF server, index, RefreshSidecar
  <2> QED
    BY <2>1, <2>2
<1> QED
  BY <1>1, <1>2, <1>3, <1>4 DEF Next, Rest

LEMMA IndexStep ==
    ASSUME TypeOK, [Next]_vars, IndexTracksSource, \A s \in Slots : ~CommitScan(s)
    PROVE  IndexTracksSource'
PROOF
<1> SUFFICES ASSUME NEW k \in Keys, sources'[k] # None
             PROVE  templates'[k] = sources'[k]
  BY DEF IndexTracksSource
<1>0. /\ sources \in [Keys -> Texts \cup {None}]
      /\ templates \in [Keys -> Texts \cup {None}]
      /\ sources[k] # None => templates[k] = sources[k]
  BY DEF TypeOK, ServerOK, IndexTracksSource
<1>1. CASE UNCHANGED <<sources, templates>>
  BY <1>0, <1>1
<1>2. ASSUME NEW s \in Slots, Pass1(s)
      PROVE  templates'[k] = sources'[k]
  <2>1. /\ sources' = [sources EXCEPT ![task[s].key] = task[s].text]
        /\ templates' = [templates EXCEPT ![task[s].key] = task[s].text]
    BY <1>2 DEF Pass1, UpdateFile
  <2> QED
    BY <1>0, <2>1
<1>3. ASSUME NEW s \in Slots, ForgetDeleted(s)
      PROVE  templates'[k] = sources'[k]
  <2>1. /\ sources' = [sources EXCEPT ![task[s].key] = None]
        /\ templates' = [templates EXCEPT ![task[s].key] = None]
    BY <1>3 DEF ForgetDeleted
  <2> QED
    BY <1>0, <2>1
<1> QED
  BY <1>1, <1>2, <1>3, IndexWriters

(***************************************************************************)
(* The order in which handlers run, and what follows from it for editing   *)
(* sessions.  A handler goes from step to step along Follows, and the lock *)
(* queue holds, once each, exactly the slots whose next step is a critical *)
(* section.                                                                *)
(***************************************************************************)
\* What a step leaves alone in its handler, unless it ends or republishes.
Same(t, u) ==
  u.op = t.op /\ u.key = t.key /\ u.ver = t.ver /\ u.batch = t.batch /\ u.todo = t.todo

\* The handler after a watcher event.
Over(t, u) ==
  \/ u = Idle
  \/ /\ u.pc = "classify" /\ u.op = "watch"
     /\ ~(Len(t.batch) <= 1) /\ u.batch = Tail(t.batch)

\* The handler with the keys of todo left to publish.
Again(t, todo, u) ==
  /\ u.op = t.op /\ u.batch = t.batch
  /\ \/ todo = {} /\ u.pc \in {"register", "flags"}
     \/ \E k \in todo : u.pc = "compute" /\ u.key = k /\ u.todo = todo \ {k}

\* The handler after a publish.
Published(t, u) ==
  \/ t.op = "open" /\ u = Idle
  \/ t.op = "change" /\ u.pc = "flags" /\ Same(t, u)
  \/ t.op = "watch" /\ Over(t, u)
  \/ t.op \notin {"open", "change", "watch"} /\ Again(t, t.todo, u)

Refreshes(t, u) == IF t.op = "reload" THEN Over(t, u) ELSE u = Idle

\* A handler just started for a message, or none.
Starts(u) ==
  \/ u = Idle
  \/ u.pc = "clear" /\ u.op = "open"
  \/ u.pc = "record" /\ u.op = "change"
  \/ u.pc = "close" /\ u.op = "close"
  \/ u.pc = "classify" /\ u.op = "watch"
  \/ u.pc = "overlay" /\ u.op = "settings"
  \/ u.pc = "hold" /\ u.op = "rename"

\* The handler u that t becomes in one step.
Follows(t, u) ==
  \/ t.pc = "idle" /\ Starts(u)
  \/ t.pc = "clear" /\ u.pc = "index" /\ Same(t, u) /\ u.text = t.text
  \/ t.pc = "record" /\ IF sources[t.key] = None THEN u = Idle
                        ELSE u.pc = "index" /\ Same(t, u) /\ u.text = t.text
  \/ t.pc = "index" /\ t.op = "open" /\ u.pc = "compute" /\ Same(t, u)
  \/ t.pc = "index" /\ t.op = "change" /\ u.pc = "latest" /\ Same(t, u)
  \/ t.pc = "index" /\ t.op \notin {"open", "change"} /\ Over(t, u)
  \/ t.pc = "latest" /\ IF doc_versions[t.key] = t.ver
                        THEN u.pc = "compute" /\ Same(t, u) ELSE u = Idle
  \/ t.pc = "close" /\ u = Idle
  \/ t.pc = "compute" /\ IF Compute(t.key) = None THEN Published(t, u)
                         ELSE u.pc = "store" /\ Same(t, u) /\ u.diag = Compute(t.key)
  \/ t.pc = "store" /\ u.pc = "flush" /\ Same(t, u)
  \/ t.pc = "flush" /\ Published(t, u)
  \/ t.pc = "keys" /\ Again(t, {k \in Keys : sources[k] # None}, u)
  \/ t.pc = "flags" /\ ((u.pc = "refresh" /\ Same(t, u)) \/ Refreshes(t, u))
  \/ t.pc = "refresh" /\ Refreshes(t, u)
  \/ /\ t.pc = "classify" /\ u.batch = t.batch
     /\ LET type == Head(t.batch).type IN
        IF type = "config" THEN u.pc = "locate" /\ u.op = "reload"
        ELSE /\ u.op = t.op
             /\ \/ type = "hints" /\ u.pc = "base"
                \/ type = "changed" /\ u.pc = "fsread"
                \/ type = "deleted" /\ u.pc = "forget"
  \/ t.pc = "discover" /\ \/ u.pc = "flush" /\ u.op = "watch" /\ u.batch = t.batch
                          \/ u.pc = "config" /\ Same(t, u)
  \/ t.pc = "fetched" /\ \/ u.pc = "index" /\ Same(t, u)
                         \/ Over(t, u)
  \/ t.pc = "overlay" /\ u.pc = "keys" /\ u.op = t.op /\ u.batch = t.batch
  \/ t.pc \in {"register", "message"} /\ u = Idle
  \/ t.pc = "hold" /\ (u = Idle \/ (u.pc = "message" /\ Same(t, u)))
  \/ /\ Same(t, u)
     /\ \/ t.pc = "fsread" /\ u.pc = "fetched"
        \/ t.pc = "forget" /\ u.pc = "flush"
        \/ t.pc = "base" /\ u.pc = "sidecar"
        \/ t.pc = "sidecar" /\ u.pc = "compute"
        \/ t.pc = "locate" /\ u.pc = "discover"
        \/ t.pc \in {"config", "commit"} /\ u.pc \in {"log", "walk"}
        \/ t.pc = "greet" /\ u.pc = "progress"
        \/ t.pc = "progress" /\ u.pc \in {"create", "inputs"}
        \/ t.pc = "create" /\ u.pc = "inputs"
        \/ t.pc = "inputs" /\ u.pc = "walk"
        \/ t.pc = "walk" /\ u.pc = "walked"
        \/ t.pc = "walked" /\ u.pc = "commit"
        \/ t.pc = "log" /\ u.pc = "keys"

\* One step of slot s: its handler moves on, and the queue with it.
Moves(s) ==
  /\ task' = [task EXCEPT ![s] = task'[s]]
  /\ Follows(task[s], task'[s])
  /\ IF task[s].pc \in Sections
     THEN /\ Runnable /\ Head(lockq) = s
          /\ lockq' = IF task'[s].pc \in Sections THEN Append(Tail(lockq), s) ELSE Tail(lockq)
     ELSE /\ ~Runnable \/ task'[s].pc \in Waits
          /\ lockq' = IF task'[s].pc \in Sections THEN Append(lockq, s) ELSE lockq

LEMMA ThenMoves ==
  ASSUME SchedOK, NEW s \in Slots, NEW t, NEW pc \in Sections, At(s, pc), Then(s, t),
         Follows(task[s], t)
  PROVE  Moves(s) /\ task'[s] = t /\ task[s].pc \in Sections
<1>1. task'[s] = t
  BY DEF SchedOK, Then
<1> QED BY <1>1 DEF Then, At, Moves

LEMMA ResumeMoves ==
  ASSUME SchedOK, NEW s \in Slots, NEW t, Resume(s, t), ~Runnable \/ t.pc \in Waits,
         NEW pc \in Pcs \ Sections, task[s].pc = pc, Follows(task[s], t)
  PROVE  Moves(s) /\ task'[s] = t
<1>1. task'[s] = t
  BY DEF SchedOK, Resume
<1> QED BY <1>1 DEF Resume, Moves

\* Goto goes where it says and changes nothing else.
LEMMA GotoSame ==
  ASSUME NEW t \in Handlers, NEW pc
  PROVE  Goto(t, pc).pc = pc /\ Same(t, Goto(t, pc)) /\ Goto(t, pc).text = t.text
BY SMT DEF Goto, Handlers, Same

LEMMA IdleBatch == Idle.batch = <<>> /\ Idle.op = "none"
BY SMT DEF Idle

LEMMA EventDoneOver ==
  ASSUME NEW t \in Handlers, NEW u \in Handlers, u.batch = t.batch
  PROVE  Over(t, EventDone(u))
<1> DEFINE h == Handler("watch", "classify", None)
           v == [h EXCEPT !.batch = Tail(t.batch)]
<1>1. h \in Handlers /\ h.pc = "classify" /\ h.op = "watch"
  <2>1. h.op = "watch"
    BY SMT DEF Handler, Idle
  <2> QED BY <2>1, HandlerType DEF Ops, Pcs, Sections, ReadSections
<1> HIDE DEF h
<1>2. v.pc = "classify" /\ v.op = "watch" /\ v.batch = Tail(t.batch)
  BY <1>1, SMT DEF Handlers
<1>3. EventDone(u) = IF Len(t.batch) <= 1 THEN Idle ELSE v
  BY DEF EventDone, h
<1> HIDE DEF v
<1> QED BY <1>2, <1>3 DEF Over

LEMMA RepublishAgain ==
  ASSUME NEW t \in Handlers, NEW u \in RepublishNext(t)
  PROVE  Again(t, t.todo, u)
<1>1. CASE t.todo = {}
  <2>1. u \in {Goto(t, "register"), Goto(t, "flags")}
    BY <1>1 DEF RepublishNext
  <2>2. u.pc \in {"register", "flags"} /\ u.op = t.op /\ u.batch = t.batch
    BY <2>1, GotoSame DEF Same
  <2> QED BY <1>1, <2>2 DEF Again
<1>2. CASE t.todo # {}
  <2>1. PICK k \in t.todo : u = Goto([t EXCEPT !.key = k, !.todo = t.todo \ {k}], "compute")
    BY <1>2 DEF RepublishNext
  <2>2. /\ u.pc = "compute" /\ u.op = t.op /\ u.batch = t.batch /\ u.key = k
        /\ u.todo = t.todo \ {k}
    BY <2>1, SMT DEF Goto, Handlers
  <2> QED BY <2>2 DEF Again
<1> QED BY <1>1, <1>2

LEMMA AfterPublishPublished ==
  ASSUME NEW t \in Handlers, NEW u \in AfterPublish(t)
  PROVE  Published(t, u)
<1>1. CASE t.op = "open"
  BY <1>1 DEF AfterPublish, Published
<1>2. CASE t.op = "change"
  BY <1>2, GotoSame DEF AfterPublish, Published
<1>3. CASE t.op = "watch"
  BY <1>3, EventDoneOver DEF AfterPublish, Published
<1>4. CASE t.op \notin {"open", "change", "watch"}
  <2>1. AfterPublish(t) = RepublishNext(t)
    BY <1>4 DEF AfterPublish
  <2> QED BY <1>4, <2>1, RepublishAgain DEF Published
<1> QED BY <1>1, <1>2, <1>3, <1>4

LEMMA FinishedRefreshes ==
  ASSUME NEW t \in Handlers
  PROVE  Refreshes(t, Finished(t))
BY EventDoneOver DEF Finished, Refreshes

\* The critical sections, one lemma per group: each runs at the head of the queue,
\* and the handler's next one queues behind.
LEMMA DocumentMoves ==
  ASSUME TypeOK, NEW s \in Slots,
         DidOpenClear(s) \/ Pass1(s) \/ DidChangeRecord(s) \/ DidChangeIsLatest(s) \/ DidClose(s)
  PROVE  Moves(s) /\ task[s].pc \in Sections
<1> DEFINE t == task[s]
           u == [t EXCEPT !.text = None]
<1>0. /\ SchedOK /\ t \in Handlers /\ u \in Handlers
      /\ {"clear", "index", "record", "latest", "close"} \subseteq Sections
  BY TaskLegal, WithType DEF TypeOK, Sections, ReadSections, WriteSections
<1>1. CASE DidOpenClear(s)
  <2>1. Follows(t, Goto(t, "index"))
    BY <1>0, <1>1, GotoSame DEF Follows, DidOpenClear, At
  <2> QED BY <1>0, <1>1, <2>1, ThenMoves DEF DidOpenClear
<1>2. CASE Pass1(s)
  <2>0. u.op = t.op /\ u.batch = t.batch /\ u.key = t.key /\ u.ver = t.ver /\ u.todo = t.todo
    BY <1>0, SMT DEF Handlers
  <2> HIDE DEF u
  <2>1. \/ t.op = "open" /\ Then(s, Goto(u, "compute"))
        \/ t.op = "change" /\ Then(s, Goto(u, "latest"))
        \/ t.op \notin {"open", "change"} /\ Then(s, EventDone(u))
    BY <1>2, <2>0, Zenon DEF Pass1, u
  <2>2. /\ Goto(u, "compute").pc = "compute" /\ Same(t, Goto(u, "compute"))
        /\ Goto(u, "latest").pc = "latest" /\ Same(t, Goto(u, "latest"))
        /\ Over(t, EventDone(u))
    BY <1>0, <2>0, GotoSame, EventDoneOver DEF Same
  <2>3. PICK v : Then(s, v) /\ Follows(t, v)
    BY <1>2, <2>1, <2>2 DEF Follows, Pass1, At
  <2> QED BY <1>0, <1>2, <2>3, ThenMoves DEF Pass1
<1>3. CASE DidChangeRecord(s)
  <2>1. Then(s, IF sources[t.key] = None THEN Idle ELSE Goto(t, "index"))
    BY <1>3 DEF DidChangeRecord
  <2>2. Follows(t, IF sources[t.key] = None THEN Idle ELSE Goto(t, "index"))
    BY <1>0, <1>3, GotoSame DEF Follows, DidChangeRecord, At
  <2> QED BY <1>0, <1>3, <2>1, <2>2, ThenMoves DEF DidChangeRecord
<1>4. CASE DidChangeIsLatest(s)
  <2>1. Follows(t, IF doc_versions[t.key] = t.ver THEN Goto(t, "compute") ELSE Idle)
    BY <1>0, <1>4, GotoSame DEF Follows, DidChangeIsLatest, At
  <2> QED BY <1>0, <1>4, <2>1, ThenMoves DEF DidChangeIsLatest
<1>5. CASE DidClose(s)
  <2>1. Follows(t, Idle)
    BY <1>5 DEF Follows, DidClose, At
  <2> QED BY <1>0, <1>5, <2>1, ThenMoves DEF DidClose
<1> QED BY <1>1, <1>2, <1>3, <1>4, <1>5

LEMMA PublishMoves ==
  ASSUME TypeOK, NEW s \in Slots,
         ComputeDiagnostics(s) \/ StoreAndPush(s) \/ RepublishKeys(s) \/ RefreshFlags(s)
  PROVE  Moves(s) /\ task[s].pc \in Sections
<1> DEFINE t == task[s]
<1>0. /\ SchedOK /\ t \in Handlers
      /\ {"compute", "store", "keys", "flags"} \subseteq Sections
  BY TaskLegal DEF TypeOK, Sections, ReadSections, WriteSections
<1>1. CASE ComputeDiagnostics(s)
  <2> DEFINE d == Compute(t.key)
             u == Goto([t EXCEPT !.diag = d], "store")
  <2>1. u.pc = "store" /\ Same(t, u) /\ u.diag = d
    BY <1>0, SMT DEF Goto, Handlers, Same
  <2>2. CASE d = None
    <3>1. PICK v \in AfterPublish(t) : Then(s, v)
      BY <1>1, <2>2 DEF ComputeDiagnostics
    <3>2. Follows(t, v)
      BY <1>0, <1>1, <2>2, <3>1, AfterPublishPublished DEF Follows, ComputeDiagnostics, At
    <3> QED BY <1>0, <1>1, <3>1, <3>2, ThenMoves DEF ComputeDiagnostics
  <2>3. CASE d # None
    <3>1. Then(s, u)
      BY <1>1, <2>3 DEF ComputeDiagnostics
    <3> HIDE DEF u
    <3>2. Follows(t, u)
      BY <1>1, <2>1, <2>3 DEF Follows, ComputeDiagnostics, At
    <3> QED BY <1>0, <1>1, <3>1, <3>2, ThenMoves DEF ComputeDiagnostics
  <2> QED BY <2>2, <2>3
<1>2. CASE StoreAndPush(s)
  <2> DEFINE u == Goto([t EXCEPT !.diag = None], "flush")
  <2>1. u.pc = "flush" /\ Same(t, u)
    BY <1>0, SMT DEF Goto, Handlers, Same
  <2>2. Then(s, u)
    BY <1>2 DEF StoreAndPush
  <2> HIDE DEF u
  <2>3. Follows(t, u)
    BY <1>2, <2>1 DEF Follows, StoreAndPush, At
  <2> QED BY <1>0, <1>2, <2>2, <2>3, ThenMoves DEF StoreAndPush
<1>3. CASE RepublishKeys(s)
  <2> DEFINE ks == {k \in Keys : sources[k] # None}
             u == [t EXCEPT !.todo = ks]
  <2>1. u \in Handlers
    BY <1>0, WithType
  <2>2. PICK v \in RepublishNext(u) : Then(s, v)
    BY <1>3 DEF RepublishKeys
  <2>3. u.op = t.op /\ u.batch = t.batch /\ u.todo = ks
    BY <1>0, SMT DEF Handlers
  <2> HIDE DEF u, ks
  <2>4. Again(t, ks, v)
    BY <2>1, <2>2, <2>3, RepublishAgain DEF Again
  <2>5. Follows(t, v)
    BY <1>3, <2>4 DEF Follows, RepublishKeys, At, ks
  <2> QED BY <1>0, <1>3, <2>2, <2>5, ThenMoves DEF RepublishKeys
<1>4. CASE RefreshFlags(s)
  <2>1. PICK v \in {Goto(t, "refresh"), Finished(t)} : Then(s, v)
    BY <1>4 DEF RefreshFlags
  <2>2. (v.pc = "refresh" /\ Same(t, v)) \/ Refreshes(t, v)
    BY <1>0, <2>1, GotoSame, FinishedRefreshes
  <2>3. Follows(t, v)
    BY <1>4, <2>2 DEF Follows, RefreshFlags, At
  <2> QED BY <1>0, <1>4, <2>1, <2>3, ThenMoves DEF RefreshFlags
<1> QED BY <1>1, <1>2, <1>3, <1>4

LEMMA ClassifyMoves ==
  ASSUME TypeOK, NEW s \in Slots, ClassifyEvent(s)
  PROVE  Moves(s) /\ task[s].pc \in Sections
<1> DEFINE t == task[s]
           e == Head(t.batch)
           r == Goto([t EXCEPT !.op = "reload"], "locate")
           w(pc) == Goto([t EXCEPT !.key = e.at], pc)
<1>0. SchedOK /\ t \in Handlers /\ "classify" \in Sections /\ At(s, "classify")
  BY TaskLegal DEF TypeOK, Sections, ReadSections, ClassifyEvent
<1>1. t.batch # <<>> /\ t.batch \in Seq(Events)
  <2>1. t.batch \in Seq(Events)
    BY <1>0, SMT DEF Handlers
  <2> QED BY <1>0, <2>1, TaskLegal DEF At, Carries
<1>2. e.type \in {"config", "changed", "deleted", "hints"}
  BY <1>1, HeadTailProperties, EventType
<1>3. r.pc = "locate" /\ r.op = "reload" /\ r.batch = t.batch
  BY <1>0, SMT DEF Goto, Handlers
<1>4. \A pc : w(pc).pc = pc /\ w(pc).op = t.op /\ w(pc).batch = t.batch
  BY <1>0, SMT DEF Goto, Handlers
<1>5. \/ e.type = "config" /\ Then(s, r)
      \/ e.type = "hints" /\ Then(s, w("base"))
      \/ e.type = "changed" /\ Then(s, w("fsread"))
      \/ e.type = "deleted" /\ Then(s, w("forget"))
  <2>1. CASE e.type = "config"
    BY <2>1 DEF ClassifyEvent
  <2>2. CASE e.type = "changed"
    BY <2>2 DEF ClassifyEvent
  <2>3. CASE e.type = "deleted"
    BY <2>3 DEF ClassifyEvent
  <2>4. CASE e.type = "hints"
    BY <2>4 DEF ClassifyEvent
  <2> QED BY <1>2, <2>1, <2>2, <2>3, <2>4
<1> HIDE DEF r, w
<1>6. PICK v : Then(s, v) /\ Follows(t, v)
  <2>1. CASE e.type = "config"
    BY <1>0, <1>3, <1>5, <2>1 DEF Follows, At
  <2>2. CASE e.type # "config"
    BY <1>0, <1>4, <1>5, <2>2 DEF Follows, At
  <2> QED BY <2>1, <2>2
<1> QED BY <1>0, <1>6, ThenMoves

LEMMA WatcherMoves ==
  ASSUME TypeOK, NEW s \in Slots,
         ClassifyEvent(s) \/ ForgetDeleted(s) \/ SidecarBase(s) \/ RefreshSidecar(s)
  PROVE  Moves(s) /\ task[s].pc \in Sections
<1> DEFINE t == task[s]
<1>0. /\ SchedOK /\ t \in Handlers
      /\ {"forget", "base", "sidecar"} \subseteq Sections
  BY TaskLegal DEF TypeOK, Sections, ReadSections, WriteSections
<1>1. CASE ForgetDeleted(s)
  <2>1. Follows(t, Goto(t, "flush"))
    BY <1>0, <1>1, GotoSame DEF Follows, ForgetDeleted, At
  <2> QED BY <1>0, <1>1, <2>1, ThenMoves DEF ForgetDeleted
<1>2. CASE SidecarBase(s)
  <2> DEFINE b == BaseRegistry(t.key)
             u == Goto([t EXCEPT !.base = b], "sidecar")
  <2>1. Then(s, u)
    BY <1>2 DEF SidecarBase
  <2> HIDE DEF b
  <2>2. u.pc = "sidecar" /\ Same(t, u)
    BY <1>0, SMT DEF Goto, Handlers, Same
  <2> HIDE DEF u
  <2>3. Follows(t, u)
    BY <1>2, <2>2 DEF Follows, SidecarBase, At
  <2> QED BY <1>0, <1>2, <2>1, <2>3, ThenMoves DEF SidecarBase
<1>3. CASE RefreshSidecar(s)
  <2> DEFINE u == Goto([t EXCEPT !.base = None], "compute")
  <2>1. Then(s, u)
    BY <1>3 DEF RefreshSidecar
  <2>2. u.pc = "compute" /\ Same(t, u)
    BY <1>0, SMT DEF Goto, Handlers, Same
  <2> HIDE DEF u
  <2>3. Follows(t, u)
    BY <1>3, <2>2 DEF Follows, RefreshSidecar, At
  <2> QED BY <1>0, <1>3, <2>1, <2>3, ThenMoves DEF RefreshSidecar
<1> QED BY <1>1, <1>2, <1>3, ClassifyMoves

LEMMA ConfigMoves ==
  ASSUME TypeOK, NEW s \in Slots,
         LocateFolder(s) \/ DiscoverConfig(s) \/ ApplyConfig(s) \/ ApplyOverlay(s)
  PROVE  Moves(s) /\ task[s].pc \in Sections
<1> DEFINE t == task[s]
<1>0. /\ SchedOK /\ t \in Handlers
      /\ {"locate", "discover", "config", "overlay"} \subseteq Sections
  BY TaskLegal DEF TypeOK, Sections, ReadSections, WriteSections
<1>1. CASE LocateFolder(s)
  <2> DEFINE fs == {Head(t.batch).at}
             u == Goto([t EXCEPT !.folders = fs], "discover")
  <2>1. Then(s, u)
    BY <1>1 DEF LocateFolder
  <2> HIDE DEF fs
  <2>2. u.pc = "discover" /\ Same(t, u)
    BY <1>0, SMT DEF Goto, Handlers, Same
  <2> HIDE DEF u
  <2>3. Follows(t, u)
    BY <1>1, <2>2 DEF Follows, LocateFolder, At
  <2> QED BY <1>0, <1>1, <2>1, <2>3, ThenMoves DEF LocateFolder
<1>2. CASE DiscoverConfig(s)
  <2>1. PICK f : Then(s, IF cfgDisk[f] \in Broken
                         THEN Goto([t EXCEPT !.op = "watch", !.folders = {}], "flush")
                         ELSE Goto([t EXCEPT !.cfg = cfgDisk[f]], "config"))
    BY <1>2 DEF DiscoverConfig
  <2> DEFINE c == cfgDisk[f]
             a == Goto([t EXCEPT !.op = "watch", !.folders = {}], "flush")
             b == Goto([t EXCEPT !.cfg = c], "config")
  <2>2. Then(s, a) \/ Then(s, b)
    BY <2>1
  <2> HIDE DEF c
  <2>3. /\ a.pc = "flush" /\ a.op = "watch" /\ a.batch = t.batch
        /\ b.pc = "config" /\ Same(t, b)
    BY <1>0, SMT DEF Goto, Handlers, Same
  <2> HIDE DEF a, b
  <2>4. Follows(t, a) /\ Follows(t, b)
    BY <1>2, <2>3 DEF Follows, DiscoverConfig, At
  <2> QED BY <1>0, <1>2, <2>2, <2>4, ThenMoves DEF DiscoverConfig
<1>3. CASE ApplyConfig(s)
  <2>1. PICK f : Then(s, IF Layout[t.cfg] = Layout[config[f]]
                         THEN Goto([t EXCEPT !.cfg = 0, !.folders = {}], "log")
                         ELSE Goto([t EXCEPT !.cfg = 0, !.layout = Layout[t.cfg]], "walk"))
    BY <1>3 DEF ApplyConfig
  <2> DEFINE l == Layout[t.cfg]
             a == Goto([t EXCEPT !.cfg = 0, !.folders = {}], "log")
             b == Goto([t EXCEPT !.cfg = 0, !.layout = l], "walk")
  <2>2. Then(s, a) \/ Then(s, b)
    BY <2>1
  <2> HIDE DEF l
  <2>3. a.pc = "log" /\ Same(t, a) /\ b.pc = "walk" /\ Same(t, b)
    BY <1>0, SMT DEF Goto, Handlers, Same
  <2> HIDE DEF a, b
  <2>4. Follows(t, a) /\ Follows(t, b)
    BY <1>3, <2>3 DEF Follows, ApplyConfig, At
  <2> QED BY <1>0, <1>3, <2>2, <2>4, ThenMoves DEF ApplyConfig
<1>4. CASE ApplyOverlay(s)
  <2> DEFINE u == Goto([t EXCEPT !.ver = 0], "keys")
  <2>1. Then(s, u)
    BY <1>4 DEF ApplyOverlay
  <2>2. u.pc = "keys" /\ u.op = t.op /\ u.batch = t.batch
    BY <1>0, SMT DEF Goto, Handlers
  <2> HIDE DEF u
  <2>3. Follows(t, u)
    BY <1>4, <2>2 DEF Follows, ApplyOverlay, At
  <2> QED BY <1>0, <1>4, <2>1, <2>3, ThenMoves DEF ApplyOverlay
<1> QED BY <1>1, <1>2, <1>3, <1>4

LEMMA ScanMoves ==
  ASSUME TypeOK, NEW s \in Slots,
         ProgressFlag(s) \/ ScanInputs(s) \/ CommitScan(s) \/ HoldGuard(s)
  PROVE  Moves(s) /\ task[s].pc \in Sections
<1> DEFINE t == task[s]
<1>0. /\ SchedOK /\ t \in Handlers
      /\ {"progress", "inputs", "commit", "hold"} \subseteq Sections
  BY TaskLegal DEF TypeOK, Sections, ReadSections, WriteSections
<1>1. CASE ProgressFlag(s)
  <2>1. PICK v \in {Goto(t, "create"), Goto(t, "inputs")} : Then(s, v)
    BY <1>1 DEF ProgressFlag
  <2>2. v.pc \in {"create", "inputs"} /\ Same(t, v)
    BY <1>0, <2>1, GotoSame
  <2>3. Follows(t, v)
    BY <1>1, <2>2 DEF Follows, ProgressFlag, At
  <2> QED BY <1>0, <1>1, <2>1, <2>3, ThenMoves DEF ProgressFlag
<1>2. CASE ScanInputs(s)
  <2> DEFINE l == {k \in Keys : k \in Layout[config[Owner[k]]]}
             u == Goto([t EXCEPT !.folders = Folders, !.layout = l], "walk")
  <2>1. Then(s, u)
    BY <1>2 DEF ScanInputs
  <2> HIDE DEF l
  <2>2. u.pc = "walk" /\ Same(t, u)
    BY <1>0, SMT DEF Goto, Handlers, Same
  <2> HIDE DEF u
  <2>3. Follows(t, u)
    BY <1>2, <2>2 DEF Follows, ScanInputs, At
  <2> QED BY <1>0, <1>2, <2>1, <2>3, ThenMoves DEF ScanInputs
<1>3. CASE CommitScan(s)
  <2>1. PICK f : Then(s, IF t.folders = {f}
                     THEN Goto([t EXCEPT !.found = None, !.folders = {}, !.layout = {}], "log")
                     ELSE Goto([t EXCEPT !.found = None, !.folders = t.folders \ {f}], "walk"))
    BY <1>3 DEF CommitScan
  <2> DEFINE fs == t.folders \ {f}
             a == Goto([t EXCEPT !.found = None, !.folders = {}, !.layout = {}], "log")
             b == Goto([t EXCEPT !.found = None, !.folders = fs], "walk")
  <2>2. Then(s, a) \/ Then(s, b)
    BY <2>1
  <2> HIDE DEF fs
  <2>3. a.pc = "log" /\ Same(t, a) /\ b.pc = "walk" /\ Same(t, b)
    BY <1>0, SMT DEF Goto, Handlers, Same
  <2> HIDE DEF a, b
  <2>4. Follows(t, a) /\ Follows(t, b)
    BY <1>3, <2>3 DEF Follows, CommitScan, At
  <2> QED BY <1>0, <1>3, <2>2, <2>4, ThenMoves DEF CommitScan
<1>4. CASE HoldGuard(s)
  <2>1. PICK v \in {Idle, Goto(t, "message")} : Then(s, v)
    BY <1>4 DEF HoldGuard
  <2>2. v = Idle \/ (v.pc = "message" /\ Same(t, v))
    BY <1>0, <2>1, GotoSame
  <2>3. Follows(t, v)
    BY <1>4, <2>2 DEF Follows, HoldGuard, At
  <2> QED BY <1>0, <1>4, <2>1, <2>3, ThenMoves DEF HoldGuard
<1> QED BY <1>1, <1>2, <1>3, <1>4

LEMMA SectionMoves ==
  ASSUME TypeOK, NEW s \in Slots, Section(s)
  PROVE  Moves(s) /\ task[s].pc \in Sections
BY DocumentMoves, PublishMoves, WatcherMoves, ConfigMoves, ScanMoves DEF Section

\* A handler that wakes up queues for its next section.
LEMMA WakeMoves ==
  ASSUME TypeOK, NEW s \in Slots, Wake(s)
  PROVE  Moves(s) /\ task[s].pc \in Waits
<1> DEFINE t == task[s]
<1>0. /\ SchedOK /\ t \in Handlers /\ Waits \subseteq Pcs \ Sections
  BY TaskLegal DEF TypeOK, Pcs, Waits, Sections, ReadSections, WriteSections
<1>1. CASE Flushed(s)
  <2>1. PICK v \in AfterPublish(t) : Resume(s, v)
    BY <1>1 DEF Flushed
  <2>2. Follows(t, v) /\ "flush" \in Waits
    BY <1>0, <1>1, <2>1, AfterPublishPublished DEF Follows, Flushed, Waiting, Waits
  <2> QED BY <1>0, <1>1, <2>1, <2>2, ResumeMoves DEF Flushed, Waiting
<1>2. CASE Refreshed(s)
  <2>1. Follows(t, Finished(t)) /\ "refresh" \in Waits
    BY <1>0, <1>2, FinishedRefreshes DEF Follows, Refreshed, Waiting, Waits
  <2> QED BY <1>0, <1>2, <2>1, ResumeMoves DEF Refreshed, Waiting
<1>3. CASE ReadFile(s)
  <2> DEFINE x == disk[t.key]
             v == Goto([t EXCEPT !.text = x], "fetched")
  <2>1. task' = [task EXCEPT ![s] = v] /\ lockq' = lockq /\ t.pc = "fsread"
    BY <1>3 DEF ReadFile
  <2> HIDE DEF x
  <2>2. v.pc = "fetched" /\ Same(t, v)
    BY <1>0, SMT DEF Goto, Handlers, Same
  <2>3. {"fetched", "fsread"} \subseteq Waits
    BY DEF Waits
  <2> HIDE DEF v
  <2>4. task'[s] = v /\ Follows(t, v)
    BY <1>0, <2>1, <2>2 DEF SchedOK, Follows
  <2> QED BY <1>0, <2>1, <2>2, <2>3, <2>4 DEF Moves
<1>4. CASE FileRead(s)
  <2>1. PICK v \in {Goto(t, "index"), EventDone(t)} : Resume(s, v)
    BY <1>4 DEF FileRead
  <2>2. (v.pc = "index" /\ Same(t, v)) \/ Over(t, v)
    BY <1>0, <2>1, GotoSame, EventDoneOver
  <2>3. Follows(t, v) /\ "fetched" \in Waits
    BY <1>4, <2>2 DEF Follows, FileRead, Waiting, Waits
  <2> QED BY <1>0, <1>4, <2>1, <2>3, ResumeMoves DEF FileRead, Waiting
<1>5. CASE WalkFolder(s)
  <2> DEFINE w == [k \in Keys |-> IF k \in t.layout THEN disk[k] ELSE None]
             v == Goto([t EXCEPT !.found = w], "walked")
  <2>1. task' = [task EXCEPT ![s] = v] /\ lockq' = lockq /\ t.pc = "walk"
    BY <1>5 DEF WalkFolder
  <2> HIDE DEF w
  <2>2. v.pc = "walked" /\ Same(t, v)
    BY <1>0, SMT DEF Goto, Handlers, Same
  <2>3. {"walk", "walked"} \subseteq Waits
    BY DEF Waits
  <2> HIDE DEF v
  <2>4. task'[s] = v /\ Follows(t, v)
    BY <1>0, <2>1, <2>2 DEF SchedOK, Follows
  <2> QED BY <1>0, <2>1, <2>2, <2>3, <2>4 DEF Moves
<1>6. CASE Walked(s)
  <2>1. Follows(t, Goto(t, "commit")) /\ "walked" \in Waits
    BY <1>0, <1>6, GotoSame DEF Follows, Walked, Waiting, Waits
  <2> QED BY <1>0, <1>6, <2>1, ResumeMoves DEF Walked, Waiting
<1>7. CASE Logged(s)
  <2>1. Follows(t, Goto(t, "keys")) /\ "log" \in Waits
    BY <1>0, <1>7, GotoSame DEF Follows, Logged, Waiting, Waits
  <2> QED BY <1>0, <1>7, <2>1, ResumeMoves DEF Logged, Waiting
<1>8. CASE Greeted(s)
  <2>1. Follows(t, Goto(t, "progress")) /\ "greet" \in Waits
    BY <1>0, <1>8, GotoSame DEF Follows, Greeted, Waiting, Waits
  <2> QED BY <1>0, <1>8, <2>1, ResumeMoves DEF Greeted, Waiting
<1>9. CASE ProgressCreated(s)
  <2>1. Follows(t, Goto(t, "inputs")) /\ "create" \in Waits
    BY <1>0, <1>9, GotoSame DEF Follows, ProgressCreated, Waiting, Waits
  <2> QED BY <1>0, <1>9, <2>1, ResumeMoves DEF ProgressCreated, Waiting
<1>10. CASE Registered(s)
  <2>1. Follows(t, Idle) /\ "register" \in Waits
    BY <1>10 DEF Follows, Registered, Waiting, Waits
  <2> QED BY <1>0, <1>10, <2>1, ResumeMoves DEF Registered, Waiting
<1>11. CASE MessageShown(s)
  <2>1. Follows(t, Idle) /\ "message" \in Waits
    BY <1>11 DEF Follows, MessageShown, Waiting, Waits
  <2> QED BY <1>0, <1>11, <2>1, ResumeMoves DEF MessageShown, Waiting
<1> QED BY <1>1, <1>2, <1>3, <1>4, <1>5, <1>6, <1>7, <1>8, <1>9, <1>10, <1>11 DEF Wake

\* A message starts a handler in an idle slot.
Begins(s, t) == Moves(s) /\ task[s].pc = "idle" /\ task'[s] = t

LEMMA DispatchMoves ==
  ASSUME SchedOK, NEW t, Dispatch(t), Starts(t)
  PROVE  \E s \in Slots : Begins(s, t)
<1>1. PICK s \in Slots : task[s].pc = "idle" /\ Resume(s, t)
  BY DEF Dispatch, FreeSlots
<1>2. "idle" \in Pcs \ Sections
  BY DEF Pcs, Sections, ReadSections, WriteSections
<1>3. ~Runnable /\ Follows(task[s], t)
  BY <1>1 DEF Dispatch, Follows
<1>4. Moves(s) /\ task'[s] = t
  BY <1>1, <1>2, <1>3, ResumeMoves
<1> QED BY <1>1, <1>4 DEF Begins

LEMMA OpenBegins ==
  ASSUME TypeOK, NEW k \in Keys, EditorOpen(k)
  PROVE  \E s \in Slots : \E t \in Handlers :
            /\ Begins(s, t) /\ t.batch = <<>>
            /\ IF k \in Jinja
               THEN t.pc = "clear" /\ t.op = "open" /\ t.key = k /\ t.text = bufText'[k]
               ELSE t = Idle
<1> DEFINE h == Handler("open", "clear", k)
           u == [h EXCEPT !.text = bufText'[k]]
<1>1. SchedOK /\ bufText'[k] \in Texts
  <2>1. TypeOK'
    BY EditorType
  <2>2. bufText'[k] # None
    <3>1. NewText \in Nat
      BY ActRoom DEF EditorOpen, TypeOK
    <3> QED BY <3>1, NoneAssumption DEF EditorOpen, TypeOK, ClientOK
  <2> QED BY <2>1, <2>2 DEF TypeOK, ClientOK
<1>2. h \in Handlers /\ h.pc = "clear" /\ h.key = k /\ h.op = "open" /\ h.batch = <<>>
  <2>1. h.op = "open" /\ h.batch = <<>>
    BY SMT DEF Handler, Idle
  <2>2. "open" \in Ops /\ "clear" \in Pcs
    BY DEF Ops, Pcs, Sections, WriteSections
  <2> QED BY <2>1, <2>2, HandlerType
<1>3. CASE k \in Jinja
  <2>1. Dispatch(u)
    BY <1>3 DEF EditorOpen
  <2> HIDE DEF h
  <2>2. u \in Handlers
    BY <1>1, <1>2, WithType
  <2>3. u.pc = "clear" /\ u.op = "open" /\ u.batch = <<>> /\ u.key = k /\ u.text = bufText'[k]
    BY <1>2, SMT DEF Handlers
  <2> HIDE DEF u
  <2>4. Starts(u)
    BY <2>3 DEF Starts
  <2> QED BY <1>1, <1>3, <2>1, <2>2, <2>3, <2>4, DispatchMoves
<1>4. CASE k \notin Jinja
  <2>1. Dispatch(Idle) /\ Starts(Idle)
    BY <1>4, IdleType DEF EditorOpen, Starts
  <2> QED BY <1>1, <1>4, <2>1, IdleType, IdleBatch, DispatchMoves
<1> QED BY <1>3, <1>4

LEMMA ChangeBegins ==
  ASSUME TypeOK, NEW k \in Keys, EditorChange(k)
  PROVE  \E s \in Slots : \E t \in Handlers :
            /\ Begins(s, t) /\ t.batch = <<>>
            /\ t.pc = "record" /\ t.op = "change" /\ t.key = k
            /\ t.text = bufText'[k] /\ t.ver = bufVer'[k]
<1> DEFINE h == Handler("change", "record", k)
           v == [h EXCEPT !.text = NewText]
           u == [v EXCEPT !.ver = bufVer'[k]]
<1>1. SchedOK /\ NewText \in Texts /\ bufVer'[k] \in Nat /\ bufText'[k] = NewText
  <2>1. NewText \in Texts
    BY ActRoom DEF EditorChange, TypeOK
  <2>2. bufVer'[k] \in Nat
    BY EditorType DEF TypeOK, ClientOK
  <2> QED BY <2>1, <2>2 DEF EditorChange, TypeOK, ClientOK
<1>2. h \in Handlers /\ h.pc = "record" /\ h.key = k /\ h.op = "change" /\ h.batch = <<>>
  <2>1. h.op = "change" /\ h.batch = <<>>
    BY SMT DEF Handler, Idle
  <2>2. "change" \in Ops /\ "record" \in Pcs
    BY DEF Ops, Pcs, Sections, WriteSections
  <2> QED BY <2>1, <2>2, HandlerType
<1>3. Dispatch(u)
  BY Zenon DEF EditorChange
<1> HIDE DEF h
<1>4. v \in Handlers
  BY <1>1, <1>2, WithType
<1>5. v.pc = "record" /\ v.op = "change" /\ v.batch = <<>> /\ v.key = k /\ v.text = NewText
  BY <1>2, SMT DEF Handlers
<1> HIDE DEF v
<1>6. u \in Handlers
  BY <1>1, <1>4, WithType
<1>7. u.pc = "record" /\ u.op = "change" /\ u.batch = <<>> /\ u.key = k /\ u.text = NewText /\ u.ver = bufVer'[k]
  BY <1>4, <1>5, SMT DEF Handlers
<1> HIDE DEF u
<1>8. Starts(u)
  BY <1>7 DEF Starts
<1> QED BY <1>1, <1>3, <1>6, <1>7, <1>8, DispatchMoves

LEMMA CloseBegins ==
  ASSUME TypeOK, NEW k \in Keys, EditorClose(k)
  PROVE  \E s \in Slots : \E t \in Handlers :
            Begins(s, t) /\ t.batch = <<>> /\ t.pc = "close" /\ t.op = "close" /\ t.key = k
<1> DEFINE h == Handler("close", "close", k)
<1>1. h \in Handlers /\ h.pc = "close" /\ h.key = k /\ h.op = "close" /\ h.batch = <<>>
  <2>1. h.op = "close" /\ h.batch = <<>>
    BY SMT DEF Handler, Idle
  <2>2. "close" \in Ops /\ "close" \in Pcs
    BY DEF Ops, Pcs, Sections, WriteSections
  <2> QED BY <2>1, <2>2, HandlerType
<1>2. Dispatch(h) /\ Starts(h) /\ SchedOK
  BY <1>1 DEF EditorClose, Starts, TypeOK
<1> HIDE DEF h
<1> QED BY <1>1, <1>2, DispatchMoves

LEMMA RenameBegins ==
  ASSUME TypeOK, NEW k \in Keys, RenameRefused(k)
  PROVE  \E s \in Slots : \E t \in Handlers :
            Begins(s, t) /\ t.batch = <<>> /\ t.pc = "hold" /\ t.op = "rename" /\ t.key = k
<1> DEFINE h == Handler("rename", "hold", k)
<1>1. h \in Handlers /\ h.pc = "hold" /\ h.key = k /\ h.op = "rename" /\ h.batch = <<>>
  <2>1. h.op = "rename" /\ h.batch = <<>>
    BY SMT DEF Handler, Idle
  <2>2. "rename" \in Ops /\ "hold" \in Pcs
    BY DEF Ops, Pcs, Sections, ReadSections
  <2> QED BY <2>1, <2>2, HandlerType
<1>2. Dispatch(h) /\ Starts(h) /\ SchedOK
  BY <1>1 DEF RenameRefused, Starts, TypeOK
<1> HIDE DEF h
<1> QED BY <1>1, <1>2, DispatchMoves

LEMMA SaveBegins ==
  ASSUME TypeOK, NEW k \in Keys, EditorSave(k)
  PROVE  \E s \in Slots : Begins(s, Idle)
<1>1. Dispatch(Idle) /\ Starts(Idle) /\ SchedOK
  BY IdleType DEF EditorSave, Starts, TypeOK
<1> QED BY <1>1, DispatchMoves

LEMMA SettingsBegins ==
  ASSUME TypeOK, SettingsChanged
  PROVE  \E s \in Slots : \E t \in Handlers :
            Begins(s, t) /\ t.batch = <<>> /\ (t = Idle \/ (t.pc = "overlay" /\ t.op = "settings"))
<1> DEFINE h == Handler("settings", "overlay", None)
           u == [h EXCEPT !.ver = NewText]
<1>1. SchedOK /\ NewText \in Nat
  BY ActRoom DEF SettingsChanged, TypeOK
<1>2. h \in Handlers /\ h.pc = "overlay" /\ h.op = "settings" /\ h.batch = <<>>
  <2>1. h.op = "settings" /\ h.batch = <<>>
    BY SMT DEF Handler, Idle
  <2> QED BY <2>1, HandlerType DEF Ops, Pcs, Sections, WriteSections
<1>3. Dispatch(Idle) \/ Dispatch(u)
  BY Zenon DEF SettingsChanged
<1> HIDE DEF h
<1>4. u \in Handlers
  BY <1>1, <1>2, WithType
<1>5. u.pc = "overlay" /\ u.op = "settings" /\ u.batch = <<>>
  BY <1>2, SMT DEF Handlers
<1> HIDE DEF u
<1>6. Starts(u) /\ Starts(Idle)
  BY <1>5, IdleType DEF Starts
<1> QED BY <1>1, <1>3, <1>4, <1>5, <1>6, IdleType, IdleBatch, DispatchMoves

LEMMA DeliverBegins ==
  ASSUME TypeOK, DeliverEvents
  PROVE  \E n \in 1..Len(events) :
           /\ events' = SubSeq(events, n + 1, Len(events))
           /\ \E s \in Slots : \E t \in Handlers :
                 /\ Begins(s, t)
                 /\ t.pc = "classify" /\ t.op = "watch" /\ t.batch = SubSeq(events, 1, n)
<1> DEFINE h == Handler("watch", "classify", None)
<1>1. PICK n \in 1..Len(events) :
          /\ events' = SubSeq(events, n + 1, Len(events))
          /\ Dispatch([h EXCEPT !.batch = SubSeq(events, 1, n)])
  BY DEF DeliverEvents
<1> DEFINE q == SubSeq(events, 1, n)
           u == [h EXCEPT !.batch = q]
<1>2. q \in Seq(Events)
  <2>1. events \in Seq(Events)
    BY DEF TypeOK, ClientOK
  <2> QED BY <2>1, SMT
<1>3. h \in Handlers /\ h.pc = "classify" /\ h.op = "watch"
  <2>1. h.op = "watch"
    BY SMT DEF Handler, Idle
  <2> QED BY <2>1, HandlerType DEF Ops, Pcs, Sections, ReadSections
<1>4. Dispatch(u)
  BY <1>1
<1> HIDE DEF h, q
<1>5. u \in Handlers
  BY <1>2, <1>3, WithType
<1>6. u.pc = "classify" /\ u.op = "watch" /\ u.batch = q
  BY <1>3, SMT DEF Handlers
<1> HIDE DEF u
<1>7. Starts(u) /\ SchedOK
  BY <1>6 DEF Starts, TypeOK
<1>8. \E s \in Slots : Begins(s, u)
  BY <1>4, <1>7, DispatchMoves
<1> QED BY <1>1, <1>5, <1>6, <1>8 DEF q

LEMMA ClientMoves ==
  ASSUME TypeOK, Client
  PROVE  \/ UNCHANGED <<task, lockq>>
         \/ \E s \in Slots : Moves(s) /\ task[s].pc = "idle"
<1>1. CASE \E k \in Keys : EditorOpen(k)
  BY <1>1, OpenBegins DEF Begins
<1>2. CASE \E k \in Keys : EditorChange(k)
  BY <1>2, ChangeBegins DEF Begins
<1>3. CASE \E k \in Keys : EditorClose(k)
  BY <1>3, CloseBegins DEF Begins
<1>4. CASE \E k \in Keys : EditorSave(k)
  BY <1>4, SaveBegins DEF Begins
<1>5. CASE \E k \in Keys : RenameRefused(k)
  BY <1>5, RenameBegins DEF Begins
<1>6. CASE DeliverEvents
  BY <1>6, DeliverBegins DEF Begins
<1>7. CASE SettingsChanged
  BY <1>7, SettingsBegins DEF Begins
<1>8. CASE \/ \E k \in Keys : FileWritten(k) \/ FileDeleted(k) \/ HintsWritten(k)
           \/ \E f \in Folders : ConfigWritten(f)
  BY <1>8 DEF FileWritten, FileDeleted, HintsWritten, ConfigWritten, sched
<1> QED BY <1>1, <1>2, <1>3, <1>4, <1>5, <1>6, <1>7, <1>8 DEF Client

\* Every step moves one handler, or none.
LEMMA StepShape ==
  ASSUME TypeOK, [Next]_vars
  PROVE  UNCHANGED <<task, lockq>> \/ \E s \in Slots : Moves(s)
<1>1. UNCHANGED vars => UNCHANGED <<task, lockq>>
  BY DEF vars, sched
<1> QED BY <1>1, SectionMoves, WakeMoves, ClientMoves DEF Next, Rest

-----------------------------------------------------------------------------
(* The lock queue holds each slot whose next section needs the lock, once. *)

Places(q) == 1..Len(q)
Once(q) == \A i, j \in Places(q) : q[i] = q[j] => i = j
Queued(q, s) == \E i \in Places(q) : q[i] = s

QueueFits == Once(lockq) /\ \A s \in Slots : task[s].pc \in Sections <=> Queued(lockq, s)

LEMMA TailPlaces ==
  ASSUME NEW S, NEW q \in Seq(S), q # <<>>
  PROVE  /\ Tail(q) \in Seq(S) /\ Len(Tail(q)) = Len(q) - 1 /\ Len(q) \in Nat \ {0}
         /\ Head(q) = q[1]
         /\ \A i \in Places(Tail(q)) : i + 1 \in Places(q) /\ Tail(q)[i] = q[i + 1]
         /\ \A i \in Places(q) : i # 1 => i - 1 \in Places(Tail(q)) /\ q[i] = Tail(q)[i - 1]
<1>1. Len(q) \in Nat /\ Len(q) # 0
  BY LenProperties, EmptySeq
<1>2. Tail(q) \in Seq(S) /\ Len(Tail(q)) = Len(q) - 1 /\ Head(q) = q[1]
  BY <1>1, HeadTailProperties
<1>3. \A i \in 1..Len(Tail(q)) : Tail(q)[i] = q[i + 1]
  BY <1>1, <1>2, SMT
<1> QED BY <1>1, <1>2, <1>3, SMT DEF Places

LEMMA AppendPlaces ==
  ASSUME NEW S, NEW q \in Seq(S), NEW x \in S
  PROVE  /\ Append(q, x) \in Seq(S) /\ Len(Append(q, x)) = Len(q) + 1 /\ Len(q) \in Nat
         /\ Append(q, x)[Len(q) + 1] = x
         /\ \A i \in Places(q) : i \in Places(Append(q, x)) /\ Append(q, x)[i] = q[i]
         /\ \A i \in Places(Append(q, x)) : i \in Places(q) \/ i = Len(q) + 1
BY LenProperties, AppendProperties, SMT DEF Places

LEMMA TailQueued ==
  ASSUME NEW S, NEW q \in Seq(S), q # <<>>, Once(q)
  PROVE  Once(Tail(q)) /\ \A s : Queued(Tail(q), s) <=> Queued(q, s) /\ s # Head(q)
<1>1. Once(Tail(q))
  BY TailPlaces, SMT DEF Once, Places
<1>2. ASSUME NEW s, Queued(Tail(q), s) PROVE Queued(q, s) /\ s # Head(q)
  <2>1. PICK i \in Places(Tail(q)) : Tail(q)[i] = s
    BY <1>2 DEF Queued
  <2>2. i + 1 \in Places(q) /\ q[i + 1] = s /\ 1 \in Places(q) /\ i + 1 # 1
    BY <2>1, TailPlaces, SMT DEF Places
  <2> QED BY <2>2, TailPlaces DEF Queued, Once
<1>3. ASSUME NEW s, Queued(q, s), s # Head(q) PROVE Queued(Tail(q), s)
  BY <1>3, TailPlaces DEF Queued
<1> QED BY <1>1, <1>2, <1>3

LEMMA AppendQueued ==
  ASSUME NEW S, NEW q \in Seq(S), NEW x \in S, Once(q), ~Queued(q, x)
  PROVE  Once(Append(q, x)) /\ \A s : Queued(Append(q, x), s) <=> Queued(q, s) \/ s = x
<1> DEFINE p == Append(q, x)
           n == Len(q) + 1
<1>1. /\ p[n] = x /\ n \in Places(p)
      /\ \A i \in Places(q) : i \in Places(p) /\ p[i] = q[i]
      /\ \A i \in Places(p) : i \in Places(q) \/ i = n
  <2>1. Len(q) \in Nat /\ Len(p) = n
    BY AppendPlaces
  <2>2. n \in Places(p)
    BY <2>1, SMT DEF Places
  <2>3. p[n] = x
    BY AppendPlaces
  <2>4. \A i \in Places(q) : i \in Places(p) /\ p[i] = q[i]
    BY <2>1, AppendProperties, SMT DEF Places
  <2>5. \A i \in Places(p) : i \in Places(q) \/ i = n
    BY AppendPlaces
  <2> QED BY <2>2, <2>3, <2>4, <2>5
<1> HIDE DEF p, n
<1>2. Once(p)
  BY <1>1 DEF Once, Queued
<1>3. \A s : Queued(p, s) <=> (Queued(q, s) \/ s = x)
  BY <1>1 DEF Queued
<1> QED BY <1>2, <1>3 DEF p

LEMMA MovesQueue ==
  ASSUME SchedOK, SchedOK', QueueFits, NEW s \in Slots, Moves(s)
  PROVE  QueueFits'
<1>0. lockq \in Seq(Slots) /\ \A r \in Slots : r # s => task'[r] = task[r]
  BY DEF SchedOK, Moves
<1> DEFINE q == IF task[s].pc \in Sections THEN Tail(lockq) ELSE lockq
<1>1. q \in Seq(Slots) /\ Once(q) /\ \A r \in Slots : Queued(q, r) <=> Queued(lockq, r) /\ r # s
  <2>1. CASE task[s].pc \in Sections
    BY <1>0, <2>1, TailQueued, TailPlaces DEF QueueFits, Moves, Runnable
  <2>2. CASE task[s].pc \notin Sections
    BY <1>0, <2>2 DEF QueueFits
  <2> QED BY <2>1, <2>2
<1>2. lockq' = IF task'[s].pc \in Sections THEN Append(q, s) ELSE q
  BY DEF Moves
<1> HIDE DEF q
<1>3. Once(lockq') /\ \A r \in Slots :
         Queued(lockq', r) <=> Queued(q, r) \/ (r = s /\ task'[s].pc \in Sections)
  BY <1>1, <1>2, AppendQueued
<1> QED BY <1>0, <1>1, <1>3 DEF QueueFits

LEMMA QueueStep == TypeOK /\ QueueFits /\ [Next]_vars => QueueFits'
<1> SUFFICES ASSUME TypeOK, QueueFits, [Next]_vars PROVE QueueFits'
  OBVIOUS
<1>1. SchedOK /\ SchedOK'
  BY NextType DEF TypeOK
<1>2. CASE UNCHANGED <<task, lockq>>
  BY <1>2 DEF QueueFits, Once, Queued, Places
<1> QED BY <1>1, <1>2, MovesQueue, StepShape

LEMMA InitQueue == Init => QueueFits
<1> SUFFICES ASSUME Init PROVE QueueFits
  OBVIOUS
<1>1. Places(lockq) = {}
  BY SMT DEF Init, Places
<1>2. ASSUME NEW s \in Slots PROVE task[s].pc \notin Sections
  <2>1. Handler("scan", "greet", None).pc = "greet"
    BY HandlerType DEF Ops, Pcs, Waits
  <2>2. task[s].pc \in {"greet", "idle"}
    BY <2>1, IdleType DEF Init
  <2> QED BY <2>2 DEF Sections, ReadSections, WriteSections
<1> QED BY <1>1, <1>2 DEF QueueFits, Once, Queued

\* No handler is lost to the lock: the queue holds exactly the handlers whose next
\* section needs it, each once (tokio's fair RwLock, one future per handler).
THEOREM HandlersQueueOnce == Spec => []QueueFits
BY InitQueue, QueueStep, TypeCorrect, PTL DEF Spec

-----------------------------------------------------------------------------
(* A closed document leaves no session: as long as it is closed, its last        *)
(* did_close is queued behind everything that could record a mark or a language  *)
(* id for it, or has already removed both.                                       *)

\* In the queue, a member of C has no member of O behind it.
EndsIn(q, C, O) ==
  \E j \in Places(q) : q[j] \in C /\ \A i \in Places(q) : i > j => q[i] \notin O

Closing(k) == {s \in Slots : task[s].pc = "close" /\ task[s].key = k}
Opening(k) == {s \in Slots : task[s].pc \in {"clear", "record"} /\ task[s].key = k}
ClosesLast(k) == EndsIn(lockq, Closing(k), Opening(k))
NoSession(k) == doc_versions[k] = None /\ k \notin document_language_ids /\ Opening(k) = {}

ClosedSessions == \A k \in Keys : bufText[k] = None => ClosesLast(k) \/ NoSession(k)

LEMMA TailEnds ==
  ASSUME NEW S, NEW q \in Seq(S), q # <<>>, Once(q), NEW C, NEW O, NEW C2, NEW O2,
         EndsIn(q, C, O), \A r : r # Head(q) => (r \in C => r \in C2) /\ (r \in O2 => r \in O)
  PROVE  \/ EndsIn(Tail(q), C2, O2)
         \/ Head(q) \in C /\ \A i \in Places(q) : i # 1 => q[i] \notin O
<1>1. PICK j \in Places(q) : q[j] \in C /\ \A i \in Places(q) : i > j => q[i] \notin O
  BY DEF EndsIn
<1>2. CASE j = 1
  BY <1>1, <1>2, TailPlaces, SMT DEF Places
<1>3. CASE j # 1
  <2>1. \A i \in Places(q) : i # 1 => q[i] # Head(q)
    <3>1. 1 \in Places(q) /\ Head(q) = q[1]
      BY TailPlaces, SMT DEF Places
    <3> QED BY <3>1 DEF Once
  <2>2. j - 1 \in Places(Tail(q)) /\ Tail(q)[j - 1] \in C2
    BY <1>1, <1>3, <2>1, TailPlaces
  <2>3. ASSUME NEW i \in Places(Tail(q)), i > j - 1 PROVE Tail(q)[i] \notin O2
    <3>1. i + 1 \in Places(q) /\ i + 1 > j /\ i + 1 # 1 /\ Tail(q)[i] = q[i + 1]
      BY <1>1, <2>3, TailPlaces, SMT DEF Places
    <3> QED BY <1>1, <2>1, <3>1
  <2> QED BY <2>2, <2>3 DEF EndsIn
<1> QED BY <1>2, <1>3

LEMMA AppendEnds ==
  ASSUME NEW S, NEW q \in Seq(S), NEW x \in S, NEW C, NEW O, EndsIn(q, C, O), x \notin O
  PROVE  EndsIn(Append(q, x), C, O)
<1>1. PICK j \in Places(q) : q[j] \in C /\ \A i \in Places(q) : i > j => q[i] \notin O
  BY DEF EndsIn
<1>2. j \in Places(Append(q, x)) /\ Append(q, x)[j] \in C
  BY <1>1, AppendProperties, LenProperties, SMT DEF Places
<1>3. \A i \in Places(Append(q, x)) : i > j => Append(q, x)[i] \notin O
  BY <1>1, AppendProperties, LenProperties, SMT DEF Places
<1> QED BY <1>2, <1>3 DEF EndsIn

LEMMA AppendedEnds ==
  ASSUME NEW S, NEW q \in Seq(S), NEW x \in S, NEW C, NEW O, x \in C
  PROVE  EndsIn(Append(q, x), C, O)
<1> DEFINE n == Len(q) + 1
<1>1. n \in Places(Append(q, x)) /\ Append(q, x)[n] = x
  BY AppendProperties, LenProperties, SMT DEF Places
<1>2. \A i \in Places(Append(q, x)) : ~(i > n)
  BY AppendProperties, LenProperties, SMT DEF Places
<1> QED BY <1>1, <1>2 DEF EndsIn

\* No handler comes back to the steps a message starts it with.
LEMMA StartsOnce ==
  ASSUME NEW s \in Slots, Moves(s), task[s].pc # "idle"
  PROVE  task'[s].pc \notin {"clear", "record", "close", "hold", "overlay"}
BY IdleType DEF Moves, Follows, Over, Again, Published, Refreshes

\* A step that starts no opening or change of k leaves the order for k, unless it is the
\* did_close itself.
LEMMA MovesClosesLast ==
  ASSUME SchedOK, SchedOK', QueueFits, NEW s \in Slots, Moves(s), NEW k \in Keys,
         ClosesLast(k), s \notin Opening(k)'
  PROVE  \/ ClosesLast(k)'
         \/ task[s].pc = "close" /\ task[s].key = k /\ Opening(k)' = {}
<1>0. lockq \in Seq(Slots) /\ \A r \in Slots : r # s => task'[r] = task[r]
  BY DEF SchedOK, Moves
<1>1. \A r : r # s => (r \in Closing(k) => r \in Closing(k)')
                      /\ (r \in Opening(k)' => r \in Opening(k))
  BY <1>0 DEF Closing, Opening
<1> DEFINE C2 == Closing(k)'
           O2 == Opening(k)'
<1>2. CASE task[s].pc \in Sections
  <2>1. lockq # <<>> /\ Head(lockq) = s /\ Once(lockq)
        /\ EndsIn(lockq, Closing(k), Opening(k))
    BY <1>2 DEF Moves, Runnable, QueueFits, ClosesLast
  <2>2. \/ EndsIn(Tail(lockq), C2, O2)
        \/ s \in Closing(k) /\ \A i \in Places(lockq) : i # 1 => lockq[i] \notin Opening(k)
    <3> HIDE DEF C2, O2
    <3> QED BY <1>0, <1>1, <2>1, TailEnds DEF C2, O2
  <2>3. CASE EndsIn(Tail(lockq), C2, O2)
    <3> HIDE DEF C2, O2
    <3>1. Tail(lockq) \in Seq(Slots)
      BY <1>0, <2>1, TailPlaces
    <3>2. s \notin O2
      BY DEF O2
    <3>3. EndsIn(lockq', C2, O2)
      BY <1>2, <2>3, <3>1, <3>2, AppendEnds DEF Moves
    <3> QED BY <3>3 DEF ClosesLast, C2, O2
  <2>4. CASE s \in Closing(k) /\ \A i \in Places(lockq) : i # 1 => lockq[i] \notin Opening(k)
    <3>1. ASSUME NEW r \in Opening(k)' PROVE FALSE
      <4>1. r \in Opening(k) /\ r # s
        BY <1>1, <3>1
      <4>2. PICK i \in Places(lockq) : lockq[i] = r
        BY <4>1 DEF Opening, QueueFits, Queued, Sections, WriteSections
      <4>3. i = 1
        BY <2>4, <4>1, <4>2
      <4> QED BY <1>0, <2>1, <4>1, <4>2, <4>3, TailPlaces
    <3> QED BY <2>4, <3>1 DEF Closing
  <2> QED BY <2>2, <2>3, <2>4
<1>3. CASE task[s].pc \notin Sections
  <2>1. ~Queued(lockq, s)
    BY <1>3 DEF QueueFits
  <2>2. EndsIn(lockq, C2, O2)
    BY <1>1, <2>1 DEF ClosesLast, EndsIn, Queued
  <2>3. EndsIn(lockq', C2, O2)
    <3> HIDE DEF C2, O2
    <3>1. s \notin O2
      BY DEF O2
    <3>2. lockq' = lockq \/ lockq' = Append(lockq, s)
      BY <1>3 DEF Moves
    <3>3. EndsIn(Append(lockq, s), C2, O2)
      BY <1>0, <2>2, <3>1, AppendEnds
    <3> QED BY <2>2, <3>2, <3>3
  <2> QED BY <2>3 DEF ClosesLast
<1> QED BY <1>2, <1>3

\* The steps that touch a mark or a language id.
LEMMA SessionWriters ==
  ASSUME NEW s \in Slots, Section(s)
  PROVE  UNCHANGED session \/ DidOpenClear(s) \/ DidChangeRecord(s) \/ DidClose(s)
         \/ ForgetDeleted(s)
<1>1. \/ DidOpenClear(s) \/ DidChangeRecord(s) \/ DidClose(s) \/ ForgetDeleted(s)
      \/ UNCHANGED session \/ UNCHANGED server
  BY DEF Section, Pass1, DidChangeIsLatest, ComputeDiagnostics, RepublishKeys, RefreshFlags,
     ClassifyEvent, SidecarBase, LocateFolder, DiscoverConfig, ProgressFlag, ScanInputs,
     HoldGuard, StoreAndPush, RefreshSidecar, ApplyConfig, ApplyOverlay, CommitScan
<1> QED BY <1>1 DEF server

\* The step a handler is at decides the section it runs.
LEMMA SectionAt ==
  ASSUME NEW s \in Slots, Section(s)
  PROVE  LET pc == task[s].pc IN
         /\ pc = "clear" => DidOpenClear(s)
         /\ pc = "index" => Pass1(s)
         /\ pc = "record" => DidChangeRecord(s)
         /\ pc = "latest" => DidChangeIsLatest(s)
         /\ pc = "close" => DidClose(s)
         /\ pc = "compute" => ComputeDiagnostics(s)
         /\ pc = "store" => StoreAndPush(s)
         /\ pc = "keys" => RepublishKeys(s)
         /\ pc = "forget" => ForgetDeleted(s)
         /\ pc = "discover" => DiscoverConfig(s)
         /\ pc = "config" => ApplyConfig(s)
         /\ pc = "commit" => CommitScan(s)
         /\ pc = "hold" => HoldGuard(s)
BY Zenon DEF Section, DidOpenClear, Pass1, DidChangeRecord, DidChangeIsLatest, DidClose,
   ComputeDiagnostics, StoreAndPush, RepublishKeys, RefreshFlags, ClassifyEvent, ForgetDeleted,
   SidecarBase, RefreshSidecar, LocateFolder, DiscoverConfig, ApplyConfig, ApplyOverlay,
   ProgressFlag, ScanInputs, CommitScan, HoldGuard, At

LEMMA SectionKeepsClosed ==
  ASSUME TypeOK, QueueFits, NEW s \in Slots, Section(s), NEW k \in Keys,
         ClosesLast(k) \/ NoSession(k)
  PROVE  ClosesLast(k)' \/ NoSession(k)'
<1>1. SchedOK /\ SchedOK' /\ Moves(s) /\ task[s].pc \in Sections
  BY NextType, SectionMoves DEF TypeOK, Next
<1>2. task[s].pc # "idle" /\ \A r \in Slots : r # s => task'[r] = task[r]
  BY <1>1 DEF Sections, ReadSections, WriteSections, Moves, SchedOK
<1>3. s \notin Opening(k)'
  BY <1>1, <1>2, StartsOnce DEF Opening
<1>4. /\ doc_versions \in [Keys -> Nat \cup {None}]
      /\ document_language_ids \subseteq Keys
  BY DEF TypeOK, ServerOK
<1>5. CASE ClosesLast(k)
  <2>1. CASE task[s].pc = "close" /\ task[s].key = k /\ Opening(k)' = {}
    <3>1. DidClose(s)
      BY <2>1, SectionAt
    <3> QED BY <1>4, <2>1, <3>1 DEF DidClose, NoSession
  <2> QED BY <1>1, <1>3, <1>5, <2>1, MovesClosesLast
<1>6. CASE NoSession(k)
  <2>1. Opening(k)' = {}
    BY <1>2, <1>3, <1>6 DEF NoSession, Opening
  <2>2. task[s].pc \in {"clear", "record"} => task[s].key # k
    BY <1>6 DEF NoSession, Opening
  <2>3. doc_versions'[k] = None /\ k \notin document_language_ids'
    <3>1. CASE UNCHANGED session
      BY <1>6, <3>1 DEF NoSession, session
    <3>2. CASE DidOpenClear(s)
      BY <1>4, <1>6, <2>2, <3>2 DEF NoSession, DidOpenClear, At
    <3>3. CASE DidChangeRecord(s)
      BY <1>4, <1>6, <2>2, <3>3 DEF NoSession, DidChangeRecord, At
    <3>4. CASE DidClose(s)
      BY <1>4, <1>6, <3>4 DEF NoSession, DidClose
    <3>5. CASE ForgetDeleted(s)
      BY <1>4, <1>6, <3>5 DEF NoSession, ForgetDeleted
    <3> QED BY <3>1, <3>2, <3>3, <3>4, <3>5, SessionWriters
  <2> QED BY <2>1, <2>3 DEF NoSession
<1> QED BY <1>5, <1>6

LEMMA WakeKeepsClosed ==
  ASSUME TypeOK, QueueFits, NEW s \in Slots, Wake(s), NEW k \in Keys,
         ClosesLast(k) \/ NoSession(k)
  PROVE  ClosesLast(k)' \/ NoSession(k)'
<1>1. SchedOK /\ SchedOK' /\ Moves(s) /\ task[s].pc \in Waits
  BY NextType, WakeMoves DEF TypeOK, Next
<1>2. /\ task[s].pc \notin {"idle", "close"}
      /\ \A r \in Slots : r # s => task'[r] = task[r]
  BY <1>1 DEF Waits, Moves, SchedOK
<1>3. s \notin Opening(k)'
  BY <1>1, <1>2, StartsOnce DEF Opening
<1>4. CASE ClosesLast(k)
  BY <1>1, <1>2, <1>3, <1>4, MovesClosesLast
<1>5. CASE NoSession(k)
  <2>1. Opening(k)' = {}
    BY <1>2, <1>3, <1>5 DEF NoSession, Opening
  <2>2. UNCHANGED session
    BY DEF Wake, Flushed, Refreshed, ReadFile, FileRead, WalkFolder, Walked, Logged,
       Greeted, ProgressCreated, Registered, MessageShown, server
  <2> QED BY <1>5, <2>1, <2>2 DEF NoSession, session
<1> QED BY <1>4, <1>5

\* What a message of the client starts, for a key that is closed after it.
LEMMA ClientBegins ==
  ASSUME TypeOK, Client, NEW k \in Keys, bufText'[k] = None
  PROVE  \/ UNCHANGED <<task, lockq>> /\ bufText[k] = None
         \/ EditorClose(k)
         \/ /\ bufText[k] = None
            /\ \E s \in Slots : /\ Moves(s) /\ task[s].pc = "idle"
                                /\ s \notin Opening(k)'
<1>1. ASSUME NEW j \in Keys, EditorOpen(j)
      PROVE  bufText[k] = None /\ \E s \in Slots :
                Moves(s) /\ task[s].pc = "idle" /\ s \notin Opening(k)'
  <2>1. bufText[k] = None
    BY <1>1 DEF EditorOpen, TypeOK, ClientOK
  <2>2. PICK s \in Slots, t \in Handlers :
          /\ Begins(s, t)
          /\ IF j \in Jinja
             THEN t.pc = "clear" /\ t.op = "open" /\ t.key = j /\ t.text = bufText'[j]
             ELSE t = Idle
    BY <1>1, OpenBegins
  <2>3. j # k
    <3>1. NewText # None
      <4>1. NewText \in Nat
        BY <1>1, ActRoom DEF EditorOpen, TypeOK
      <4> QED BY <4>1, NoneAssumption
    <3>2. bufText' = [bufText EXCEPT ![j] = IF disk[j] = None THEN NewText ELSE disk[j]]
      BY <1>1 DEF EditorOpen
    <3>3. bufText'[j] # None
      BY <3>1, <3>2 DEF TypeOK, ClientOK
    <3> QED BY <3>3
  <2>4. s \notin Opening(k)'
    BY <2>2, <2>3, IdleType DEF Opening, Begins
  <2> QED BY <2>1, <2>2, <2>4 DEF Begins
<1>2. ASSUME NEW j \in Keys, EditorChange(j)
      PROVE  bufText[k] = None /\ \E s \in Slots :
                Moves(s) /\ task[s].pc = "idle" /\ s \notin Opening(k)'
  <2>1. NewText # None
    <3>1. NewText \in Nat
      BY <1>2, ActRoom DEF EditorChange, TypeOK
    <3> QED BY <3>1, NoneAssumption
  <2>2. j # k /\ bufText[k] = None
    BY <1>2, <2>1 DEF EditorChange, TypeOK, ClientOK
  <2>3. PICK s \in Slots, t \in Handlers : Begins(s, t) /\ t.key = j
    BY <1>2, ChangeBegins
  <2>4. s \notin Opening(k)'
    BY <2>2, <2>3 DEF Opening, Begins
  <2> QED BY <2>2, <2>3, <2>4 DEF Begins
<1>3. ASSUME NEW j \in Keys, EditorClose(j), j # k
      PROVE  bufText[k] = None /\ \E s \in Slots :
                Moves(s) /\ task[s].pc = "idle" /\ s \notin Opening(k)'
  <2>1. bufText[k] = None
    BY <1>3 DEF EditorClose, TypeOK, ClientOK
  <2>2. PICK s \in Slots, t \in Handlers : Begins(s, t) /\ t.pc = "close"
    BY <1>3, CloseBegins
  <2>3. s \notin Opening(k)'
    BY <2>2 DEF Opening, Begins
  <2> QED BY <2>1, <2>2, <2>3 DEF Begins
<1>4. ASSUME NEW j \in Keys, EditorSave(j) \/ RenameRefused(j)
      PROVE  bufText[k] = None /\ \E s \in Slots :
                Moves(s) /\ task[s].pc = "idle" /\ s \notin Opening(k)'
  <2>1. bufText[k] = None
    BY <1>4 DEF EditorSave, RenameRefused, editor
  <2>2. PICK s \in Slots, t \in Handlers : Begins(s, t) /\ t.pc \in {"idle", "hold"}
    BY <1>4, SaveBegins, RenameBegins, IdleType
  <2>3. s \notin Opening(k)'
    BY <2>2 DEF Opening, Begins
  <2> QED BY <2>1, <2>2, <2>3 DEF Begins
<1>5. ASSUME DeliverEvents \/ SettingsChanged
      PROVE  bufText[k] = None /\ \E s \in Slots :
                Moves(s) /\ task[s].pc = "idle" /\ s \notin Opening(k)'
  <2>1. bufText[k] = None
    BY <1>5 DEF DeliverEvents, SettingsChanged, editor
  <2>2. PICK s \in Slots, t \in Handlers : Begins(s, t) /\ t.pc \in {"idle", "overlay", "classify"}
    BY <1>5, DeliverBegins, SettingsBegins, IdleType
  <2>3. s \notin Opening(k)'
    BY <2>2 DEF Opening, Begins
  <2> QED BY <2>1, <2>2, <2>3 DEF Begins
<1>6. ASSUME \/ \E j \in Keys : FileWritten(j) \/ FileDeleted(j) \/ HintsWritten(j)
             \/ \E f \in Folders : ConfigWritten(f)
      PROVE  UNCHANGED <<task, lockq>> /\ bufText[k] = None
  BY <1>6 DEF FileWritten, FileDeleted, HintsWritten, ConfigWritten, sched, editor
<1> QED BY <1>1, <1>2, <1>3, <1>4, <1>5, <1>6 DEF Client

LEMMA ClientKeepsClosed ==
  ASSUME TypeOK, QueueFits, ClosedSessions, Client, NEW k \in Keys, bufText'[k] = None
  PROVE  ClosesLast(k)' \/ NoSession(k)'
<1>1. SchedOK /\ SchedOK' /\ UNCHANGED session
  <2>1. UNCHANGED session
    BY DEF Client, EditorOpen, EditorChange, EditorClose, EditorSave, FileWritten,
       FileDeleted, HintsWritten, RenameRefused, ConfigWritten, DeliverEvents,
       SettingsChanged, server
  <2> QED BY <2>1, NextType DEF TypeOK, Next
<1>2. CASE UNCHANGED <<task, lockq>> /\ bufText[k] = None
  BY <1>1, <1>2 DEF ClosedSessions, ClosesLast, EndsIn, NoSession, Opening, Closing, session
<1>3. CASE EditorClose(k)
  <2>1. PICK s \in Slots, t \in Handlers : Begins(s, t) /\ t.pc = "close" /\ t.key = k
    BY <1>3, CloseBegins
  <2>2. lockq' = Append(lockq, s)
    BY <2>1 DEF Begins, Moves, Sections, ReadSections, WriteSections
  <2>3. s \in Closing(k)'
    BY <2>1 DEF Closing, Begins
  <2> DEFINE C == Closing(k)'
             O == Opening(k)'
  <2>4. EndsIn(Append(lockq, s), C, O)
    <3> HIDE DEF C, O
    <3> QED BY <1>1, <2>3, AppendedEnds DEF SchedOK, C
  <2> QED BY <2>2, <2>4 DEF ClosesLast
<1>4. CASE /\ bufText[k] = None
           /\ \E s \in Slots : Moves(s) /\ task[s].pc = "idle" /\ s \notin Opening(k)'
  <2>1. PICK s \in Slots : Moves(s) /\ task[s].pc = "idle" /\ s \notin Opening(k)'
    BY <1>4
  <2>2. CASE ClosesLast(k)
    BY <1>1, <2>1, <2>2, MovesClosesLast
  <2>3. CASE NoSession(k)
    <3>1. \A r \in Slots : r # s => task'[r] = task[r]
      BY <1>1, <2>1 DEF Moves, SchedOK
    <3>2. Opening(k)' = {}
      BY <2>1, <2>3, <3>1 DEF NoSession, Opening
    <3> QED BY <1>1, <2>3, <3>2 DEF NoSession, session
  <2> QED BY <1>4, <2>2, <2>3 DEF ClosedSessions
<1> QED BY <1>2, <1>3, <1>4, ClientBegins

LEMMA StepsKeepClient ==
  ASSUME NEW s \in Slots, Section(s) \/ Wake(s)
  PROVE  UNCHANGED client
BY DEF Wake, Flushed, Refreshed, ReadFile, FileRead, WalkFolder, Walked, Logged, Greeted,
   ProgressCreated, Registered, MessageShown, Section, DidOpenClear, Pass1, DidChangeRecord,
   DidChangeIsLatest, DidClose, ComputeDiagnostics, StoreAndPush, RepublishKeys, RefreshFlags,
   ClassifyEvent, ForgetDeleted, SidecarBase, RefreshSidecar, LocateFolder, DiscoverConfig,
   ApplyConfig, ApplyOverlay, ProgressFlag, ScanInputs, CommitScan, HoldGuard

LEMMA ClosedStep == TypeOK /\ QueueFits /\ ClosedSessions /\ [Next]_vars => ClosedSessions'
<1> SUFFICES ASSUME TypeOK, QueueFits, ClosedSessions, [Next]_vars, NEW k \in Keys,
                    bufText'[k] = None
             PROVE  ClosesLast(k)' \/ NoSession(k)'
  BY DEF ClosedSessions
<1>1. CASE UNCHANGED vars
  BY <1>1 DEF vars, client, editor, server, session, sched, ClosedSessions, ClosesLast, EndsIn,
     NoSession, Opening, Closing
<1>2. ASSUME NEW s \in Slots, Section(s) \/ Wake(s) PROVE bufText[k] = None
  <2>1. UNCHANGED client
    BY <1>2, StepsKeepClient
  <2> QED BY <2>1 DEF client, editor
<1>3. ASSUME NEW s \in Slots, Section(s) PROVE ClosesLast(k)' \/ NoSession(k)'
  BY <1>2, <1>3, SectionKeepsClosed DEF ClosedSessions
<1>4. ASSUME NEW s \in Slots, Wake(s) PROVE ClosesLast(k)' \/ NoSession(k)'
  BY <1>2, <1>4, WakeKeepsClosed DEF ClosedSessions
<1> QED BY <1>1, <1>3, <1>4, ClientKeepsClosed DEF Next, Rest

\* did_close ends the session: when everything has been handled, no closed document has
\* a version mark or a language id left, whatever was queued when it was closed.
THEOREM ClosedLeaveNoSession == Spec => []ClosedDocumentsLeaveNoSession
<1>1. Init => ClosedSessions
  <2>1. Init => \A k \in Keys : Opening(k) = {}
    <3>1. Handler("scan", "greet", None).pc = "greet"
      BY HandlerType DEF Ops, Pcs, Waits
    <3> QED BY <3>1, IdleType DEF Init, Opening
  <2> QED BY <2>1 DEF Init, ClosedSessions, NoSession
<1>2. TypeOK /\ ClosedSessions => ClosedDocumentsLeaveNoSession
  <2> SUFFICES ASSUME TypeOK, ClosedSessions, AllIdle, NEW k \in Keys, bufText[k] = None
               PROVE  doc_versions[k] = None /\ k \notin document_language_ids
    BY DEF ClosedDocumentsLeaveNoSession, Settled
  <2>1. ~ClosesLast(k)
    BY DEF ClosesLast, EndsIn, Closing, AllIdle
  <2> QED BY <2>1 DEF ClosedSessions, NoSession
<1> QED BY <1>1, <1>2, ClosedStep, HandlersQueueOnce, TypeCorrect, PTL DEF Spec

-----------------------------------------------------------------------------
(* Without a scan nothing parts a text from its facts.  There is no first scan when  *)
(* the workspace has been scanned before Init, and no rescan as long as every         *)
(* configuration that parses discovers the same files.                                *)

NoScans == "scan" \notin Kinds /\ \A c, d \in Configs \ Broken : Layout[c] = Layout[d]

ScanSteps == {"greet", "progress", "create", "inputs", "walk", "walked", "commit"}
NothingScans ==
  /\ \A f \in Folders : config[f] \notin Broken
  /\ \A s \in Slots : /\ task[s].pc \notin ScanSteps
                      /\ task[s].pc = "config" => task[s].cfg \notin Broken

LEMMA ConfigWriters ==
  ASSUME [Next]_vars
  PROVE  UNCHANGED config \/ \E s \in Slots : ApplyConfig(s)
<1>1. CASE UNCHANGED vars
  BY <1>1 DEF vars, server, settings
<1>2. CASE Client
  BY <1>2 DEF Client, EditorOpen, EditorChange, EditorClose, EditorSave, FileWritten,
     FileDeleted, HintsWritten, RenameRefused, ConfigWritten, DeliverEvents, SettingsChanged,
     server, settings
<1>3. ASSUME NEW s \in Slots, Wake(s) PROVE UNCHANGED config
  BY <1>3 DEF Wake, Flushed, Refreshed, ReadFile, FileRead, WalkFolder, Walked, Logged,
     Greeted, ProgressCreated, Registered, MessageShown, server, settings
<1>4. ASSUME NEW s \in Slots, Section(s) PROVE UNCHANGED config \/ ApplyConfig(s)
  <2>1. ApplyConfig(s) \/ UNCHANGED settings \/ UNCHANGED server \/ UNCHANGED config
    BY <1>4 DEF Section, DidOpenClear, Pass1, DidChangeRecord, DidChangeIsLatest, DidClose,
       ComputeDiagnostics, StoreAndPush, RepublishKeys, RefreshFlags, ClassifyEvent,
       ForgetDeleted, SidecarBase, RefreshSidecar, LocateFolder, DiscoverConfig, ApplyOverlay,
       ProgressFlag, ScanInputs, CommitScan, HoldGuard
  <2> QED BY <2>1 DEF server, settings
<1> QED BY <1>1, <1>2, <1>3, <1>4 DEF Next, Rest

\* A configuration that parses is applied without a walk.
LEMMA ApplyWithoutScan ==
  ASSUME NoScans, TypeOK, NothingScans, NEW s \in Slots, ApplyConfig(s)
  PROVE  task'[s].pc = "log" /\ \A f \in Folders : config'[f] \notin Broken
<1> DEFINE t == task[s]
<1>1. t \in Handlers /\ t.pc = "config" /\ SchedOK /\ config \in [Folders -> Configs]
  BY DEF ApplyConfig, At, TypeOK, SchedOK, ServerOK
<1>2. t.cfg \in Configs /\ t.folders \subseteq Folders
  BY <1>1, SMT DEF Handlers
<1>3. t.cfg \notin Broken
  BY <1>1 DEF NothingScans
<1>4. PICK f \in t.folders :
        /\ config' = [config EXCEPT ![f] = t.cfg]
        /\ Then(s, IF Layout[t.cfg] = Layout[config[f]]
                   THEN Goto([t EXCEPT !.cfg = 0, !.folders = {}], "log")
                   ELSE Goto([t EXCEPT !.cfg = 0, !.layout = Layout[t.cfg]], "walk"))
  BY DEF ApplyConfig
<1>5. f \in Folders /\ config[f] \in Configs \ Broken
  BY <1>1, <1>2 DEF NothingScans
<1>6. Layout[t.cfg] = Layout[config[f]]
  BY <1>2, <1>3, <1>5 DEF NoScans
<1>7. task'[s] = Goto([t EXCEPT !.cfg = 0, !.folders = {}], "log")
  BY <1>1, <1>4, <1>6 DEF Then, SchedOK
<1>8. Goto([t EXCEPT !.cfg = 0, !.folders = {}], "log").pc = "log"
  BY <1>1, SMT DEF Goto, Handlers
<1>9. \A g \in Folders : config'[g] \notin Broken
  BY <1>1, <1>3, <1>4 DEF NothingScans
<1> QED BY <1>7, <1>8, <1>9

\* A configuration that does not parse is never handed on.
LEMMA DiscoverParses ==
  ASSUME TypeOK, NEW s \in Slots, DiscoverConfig(s)
  PROVE  task'[s].pc = "config" => task'[s].cfg \notin Broken
<1> DEFINE t == task[s]
<1>1. t \in Handlers /\ SchedOK
  BY DEF TypeOK, SchedOK
<1>2. PICK f : Then(s, IF cfgDisk[f] \in Broken
                       THEN Goto([t EXCEPT !.op = "watch", !.folders = {}], "flush")
                       ELSE Goto([t EXCEPT !.cfg = cfgDisk[f]], "config"))
  BY DEF DiscoverConfig
<1>3. CASE cfgDisk[f] \in Broken
  <2>1. task'[s] = Goto([t EXCEPT !.op = "watch", !.folders = {}], "flush")
    BY <1>1, <1>2, <1>3 DEF Then, SchedOK
  <2>2. Goto([t EXCEPT !.op = "watch", !.folders = {}], "flush").pc = "flush"
    BY <1>1, SMT DEF Goto, Handlers
  <2> QED BY <2>1, <2>2
<1>4. CASE cfgDisk[f] \notin Broken
  <2>1. task'[s] = Goto([t EXCEPT !.cfg = cfgDisk[f]], "config")
    BY <1>1, <1>2, <1>4 DEF Then, SchedOK
  <2>2. Goto([t EXCEPT !.cfg = cfgDisk[f]], "config").cfg = cfgDisk[f]
    BY <1>1, SMT DEF Goto, Handlers
  <2> QED BY <1>4, <2>1, <2>2
<1> QED BY <1>3, <1>4

LEMMA NothingScansStep ==
  ASSUME NoScans, TypeOK, NothingScans, [Next]_vars
  PROVE  NothingScans'
<1>1. \A f \in Folders : config'[f] \notin Broken
  BY ConfigWriters, ApplyWithoutScan DEF NothingScans
<1>2. CASE UNCHANGED <<task, lockq>>
  BY <1>1, <1>2 DEF NothingScans
<1>3. ASSUME NEW s \in Slots, Moves(s)
      PROVE  /\ task'[s].pc \notin ScanSteps \/ task[s].pc = "config"
             /\ task'[s].pc = "config" => task[s].pc = "discover"
             /\ \A r \in Slots : r # s => task'[r] = task[r]
  <2>1. \A r \in Slots : r # s => task'[r] = task[r]
    BY <1>3 DEF TypeOK, SchedOK, Moves
  <2>2. Follows(task[s], task'[s]) /\ task[s].pc \notin ScanSteps
    BY <1>3 DEF Moves, NothingScans
  <2>3. \/ task'[s].pc \notin ScanSteps
        \/ task[s].pc = "config"
    BY <2>2, IdleType DEF Follows, ScanSteps, Starts, Over, Again, Published, Refreshes
  <2>4. task'[s].pc = "config" => task[s].pc = "discover"
    BY <2>2, IdleType DEF Follows, Starts, Over, Again, Published, Refreshes
  <2> QED BY <2>1, <2>3, <2>4
<1>4. ASSUME NEW s \in Slots, Section(s) PROVE NothingScans'
  <2>1. Moves(s)
    BY <1>4, SectionMoves
  <2>2. task[s].pc = "config" => task'[s].pc = "log"
    BY <1>4, SectionAt, ApplyWithoutScan
  <2>3. task'[s].pc = "config" => task'[s].cfg \notin Broken
    BY <1>3, <1>4, <2>1, SectionAt, DiscoverParses
  <2>4. task'[s].pc \notin ScanSteps
    BY <1>3, <2>1, <2>2 DEF ScanSteps
  <2> QED BY <1>1, <1>3, <2>1, <2>3, <2>4 DEF NothingScans
<1>5. ASSUME NEW s \in Slots, Moves(s), task[s].pc \notin Sections PROVE NothingScans'
  <2>1. task[s].pc \notin {"config", "discover"}
    BY <1>5 DEF Sections, ReadSections, WriteSections
  <2> QED BY <1>1, <1>3, <1>5, <2>1 DEF NothingScans
<1>6. ASSUME NEW s \in Slots, Wake(s) PROVE NothingScans'
  <2>1. Moves(s) /\ task[s].pc \notin Sections
    BY <1>6, WakeMoves DEF Waits, Sections, ReadSections, WriteSections
  <2> QED BY <1>5, <2>1
<1>7. CASE Client
  <2>1. "idle" \notin Sections
    BY DEF Sections, ReadSections, WriteSections
  <2> QED BY <1>2, <1>5, <1>7, <2>1, ClientMoves
<1>8. CASE UNCHANGED vars
  BY <1>2, <1>8 DEF vars, sched
<1> QED BY <1>4, <1>6, <1>7, <1>8 DEF Next, Rest

\* Where nothing is scanned, text and index entry of a document move together, which
\* what is delivered rests on; a scan parts them.
THEOREM IndexFollowsText == NoScans /\ Spec => []IndexTracksSource
<1> SUFFICES ASSUME NoScans PROVE Spec => []IndexTracksSource
  OBVIOUS
<1>1. Init => NothingScans /\ IndexTracksSource
  <2> SUFFICES ASSUME Init PROVE NothingScans /\ IndexTracksSource
    OBVIOUS
  <2>1. \A s \in Slots : task[s].pc = "idle"
    BY IdleType DEF Init, NoScans
  <2>2. \A f \in Folders : config[f] \notin Broken
    BY ConfigAssumption DEF Init
  <2> QED BY <2>1, <2>2 DEF Init, NothingScans, IndexTracksSource, ScanSteps
<1>2. TypeOK /\ NothingScans /\ IndexTracksSource /\ [Next]_vars
      => NothingScans' /\ IndexTracksSource'
  <2> SUFFICES ASSUME TypeOK, NothingScans, IndexTracksSource, [Next]_vars
               PROVE  NothingScans' /\ IndexTracksSource'
    OBVIOUS
  <2>1. \A s \in Slots : ~CommitScan(s)
    BY DEF CommitScan, At, NothingScans, ScanSteps
  <2> QED BY <2>1, IndexStep, NothingScansStep
<1> QED BY <1>1, <1>2, TypeCorrect, PTL DEF Spec
=============================================================================
