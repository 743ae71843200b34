---------------------------- MODULE DocumentSync ----------------------------
(***************************************************************************)
(* The document side of the language server (src/server/mod.rs and         *)
(* src/server/state.rs): the notifications that move text into the         *)
(* template index, and the diagnostics that leave it again.                *)
(*                                                                         *)
(* All handlers run on one task.  A handler keeps the processor until it   *)
(* really suspends: on the client channel, a client response, a file read, *)
(* a blocking scan, or a state lock it cannot have at once.  The lock is a *)
(* fair queue, `lockq`.  One critical section of the code is one step of   *)
(* the slot at its head; a slot with a further section to run goes back to *)
(* the tail.  Slots suspended elsewhere, and new messages, get the         *)
(* processor only when no queued section can run.                          *)
(*                                                                         *)
(* A text is a number, an index entry is the text it was extracted from,   *)
(* and a list of diagnostics is the record of everything it was computed   *)
(* from.  A configuration is a number; the parts of it that matter here    *)
(* are constants: the files it discovers and the registry it builds.  The  *)
(* editor's overlay is a counter that only lint settings depend on.        *)
(***************************************************************************)
EXTENDS Naturals, Sequences

CONSTANTS
    Keys,          \* template files, by workspace key
    Folders,       \* workspace folders; 0 is the primary one
    Owner,         \* [Keys -> Folders], the folder a key routes to
    Slots,         \* handlers in flight at once
    Jinja,         \* keys whose languageId did_open accepts
    Deps,          \* [Keys -> SUBSET Keys], templates a key's checks consult
    Configs,       \* the contents a configuration file can have
    Broken,        \* the contents that do not parse
    Layout,        \* [Configs -> SUBSET Keys], the files a scan discovers
    RegistryOf,    \* [Configs -> Configs], representative of equal registries
    ClientSupport, \* the client declared refresh and progress support
    Kinds,         \* what the client and the file system may do
    MaxMessages,   \* bound on what they do
    None, Empty    \* no entry; an explicit empty list of diagnostics

ASSUME FoldersAssumption == Folders \subseteq Nat /\ 0 \in Folders
ASSUME OwnerAssumption == Owner \in [Keys -> Folders]
ASSUME SlotsAssumption == Slots \subseteq Nat /\ 1 \in Slots
ASSUME ConfigAssumption ==
    /\ Configs \subseteq Nat /\ 0 \in Configs
    /\ Broken \subseteq Configs \ {0}
    /\ Layout \in [Configs -> SUBSET Keys]
    /\ RegistryOf \in [Configs -> Configs]
ASSUME DepsAssumption == Deps \in [Keys -> SUBSET Keys] /\ Jinja \subseteq Keys
ASSUME BoundAssumption == MaxMessages \in Nat /\ ClientSupport \in BOOLEAN
ASSUME NoneAssumption ==
    /\ None \notin Keys /\ None \notin Nat
    /\ None # Empty

VARIABLES
    disk, cfgDisk, hints,    \* file system: templates, config files, sidecars
    bufText, bufVer,         \* editor: open buffers and their versions
    events,                  \* watcher events not delivered yet
    sent,                    \* number of client and file-system actions so far
    templates, sources, doc_versions, document_language_ids,
    diagnostics, sidecar_registries, config, overlay,   \* ServerState
    published,               \* the last list each key's client was pushed
    task, lockq, guards      \* handlers, lock queue, guards held over an await

files  == <<disk, cfgDisk, hints>>
editor == <<bufText, bufVer>>
client == <<files, editor, events, sent>>
index  == <<templates, sources, sidecar_registries>>
session == <<doc_versions, document_language_ids>>
settings == <<config, overlay>>
findings == <<diagnostics, published>>
server == <<index, session, settings, findings>>
sched  == <<task, lockq, guards>>
vars   == <<client, server, sched>>

Texts == 0..MaxMessages

-----------------------------------------------------------------------------
(* Handlers in flight *)

ReadSections == {"latest", "compute", "flags", "classify", "locate", "discover",
                 "base", "keys", "progress", "inputs", "hold"}
WriteSections == {"clear", "index", "record", "close", "store", "forget",
                  "sidecar", "config", "overlay", "commit"}
Sections == ReadSections \cup WriteSections
Waits == {"flush", "refresh", "fsread", "fetched", "walk", "walked", "log",
          "greet", "create", "register", "message"}

Idle == [pc |-> "idle", op |-> "none", key |-> None, text |-> None, ver |-> 0,
         cfg |-> 0, batch |-> <<>>, todo |-> {}, folders |-> {}, layout |-> {},
         found |-> None, base |-> None, diag |-> None]

Handler(op, pc, key) == [Idle EXCEPT !.op = op, !.pc = pc, !.key = key]
Goto(t, pc) == [t EXCEPT !.pc = pc]

\* A queued section can run: a reader always, a writer when no guard is held.
Runnable == /\ lockq # <<>>
            /\ guards = {} \/ task[Head(lockq)].pc \in ReadSections

At(s, pc) == Runnable /\ Head(lockq) = s /\ task[s].pc = pc
Then(s, t) ==
    /\ task' = [task EXCEPT ![s] = t]
    /\ lockq' = IF t.pc \in Sections THEN Append(Tail(lockq), s) ELSE Tail(lockq)

Waiting(s, pc) == ~Runnable /\ task[s].pc = pc
Resume(s, t) ==
    /\ task' = [task EXCEPT ![s] = t]
    /\ lockq' = IF t.pc \in Sections THEN Append(lockq, s) ELSE lockq

FreeSlots == {s \in Slots : task[s].pc = "idle"}
Dispatch(t) ==
    /\ ~Runnable
    /\ \E s \in FreeSlots :
          /\ \A r \in FreeSlots : s <= r
          /\ Resume(s, t)
    /\ UNCHANGED guards

-----------------------------------------------------------------------------
(* Server state helpers *)

\* The registry a key's checks consult: its sidecar overlay if one was loaded.
BaseRegistry(k) == [base |-> RegistryOf[config[Owner[k]]], hints |-> 0]
RegistryFor(k) ==
    IF sidecar_registries[k] # None THEN sidecar_registries[k] ELSE BaseRegistry(k)

\* refresh_sidecar: the entry a rebuild from the files on disk leaves for k.
Sidecar(k, base) == IF hints[k] = 0 THEN None ELSE [base EXCEPT !.hints = hints[k]]

\* The slice of the folder's index that k's checks consult.
Facts(k) == [j \in Keys |-> IF j \in Deps[k] \cup {k} THEN templates[j] ELSE None]

Compute(k) ==
    IF sources[k] = None \/ templates[k] = None THEN None
    ELSE [text |-> sources[k], facts |-> Facts(k), registry |-> RegistryFor(k),
          config |-> config[Owner[k]],
          overlay |-> IF Owner[k] = 0 THEN overlay ELSE 0]

\* textDocument/diagnostic: the stored list, else a fresh one, else no findings.
Pull(k) == IF diagnostics[k] # None THEN diagnostics[k]
           ELSE IF Compute(k) # None THEN Compute(k) ELSE Empty

\* Mutant: a text that is already there is kept.
UpdateFileKeepsText(k, text) ==
    /\ sources' = [sources EXCEPT ![k] = IF @ = None THEN text ELSE @]
    /\ templates' = [templates EXCEPT ![k] = text]
    /\ sidecar_registries' = [sidecar_registries EXCEPT ![k] = Sidecar(k, BaseRegistry(k))]

\* update_file: text, index entry and sidecar overlay move in one write section.
UpdateFile(k, text) ==
    /\ sources' = [sources EXCEPT ![k] = text]
    /\ templates' = [templates EXCEPT ![k] = text]
    /\ sidecar_registries' = [sidecar_registries EXCEPT ![k] = Sidecar(k, BaseRegistry(k))]

\* Mutant: off by one at the end of the batch.
EventDoneOffByOne(t) ==
    IF Len(t.batch) = 0 THEN Idle
    ELSE [Handler("watch", "classify", None) EXCEPT !.batch = Tail(t.batch)]

\* The handler after the watcher event at the head of its batch.
EventDone(t) ==
    IF Len(t.batch) <= 1 THEN Idle
    ELSE [Handler("watch", "classify", None) EXCEPT !.batch = Tail(t.batch)]

\* The handler after its last refresh request.
Finished(t) == IF t.op = "reload" THEN EventDone(t) ELSE Idle

\* The republish loop takes the remaining keys in any order.
RepublishNext(t) ==
    IF t.todo = {}
    THEN {Goto(t, IF t.op = "scan" THEN "register" ELSE "flags")}
    ELSE {Goto([t EXCEPT !.key = k, !.todo = t.todo \ {k}], "compute") : k \in t.todo}

AfterPublish(t) ==
    CASE t.op = "open"   -> {Idle}
      [] t.op = "change" -> {Goto(t, "flags")}
      [] t.op = "watch"  -> {EventDone(t)}
      [] OTHER           -> RepublishNext(t)

-----------------------------------------------------------------------------
(* did_open: forget the old session, index the text, publish. *)

DidOpenClear(s) ==
    /\ At(s, "clear")
    /\ LET k == task[s].key IN
          /\ doc_versions' = [doc_versions EXCEPT ![k] = None]
          /\ document_language_ids' = document_language_ids \cup {k}
    /\ Then(s, Goto(task[s], "index"))
    /\ UNCHANGED <<client, index, settings, findings, guards>>

Pass1(s) ==
    /\ At(s, "index")
    /\ UpdateFile(task[s].key, task[s].text)
    /\ LET t == [task[s] EXCEPT !.text = None] IN
          Then(s, CASE t.op = "open"   -> Goto(t, "compute")
                    [] t.op = "change" -> Goto(t, "latest")
                    [] OTHER           -> EventDone(t))
    /\ UNCHANGED <<client, session, settings, findings, guards>>

(* did_change: record the version of a tracked document, index the text, and
   publish unless a newer version has been recorded. *)

\* Mutant: the version is recorded before the document is looked up.
DidChangeRecordFirst(s) ==
    /\ At(s, "record")
    /\ LET k == task[s].key  v == task[s].ver IN
          /\ doc_versions' =
                [doc_versions EXCEPT ![k] = IF @ # None /\ @ > v THEN @ ELSE v]
          /\ Then(s, IF sources[k] = None THEN Idle ELSE Goto(task[s], "index"))
    /\ UNCHANGED <<client, index, document_language_ids, settings, findings, guards>>

DidChangeRecord(s) ==
    /\ At(s, "record")
    /\ LET k == task[s].key  v == task[s].ver IN
          IF sources[k] = None
          THEN Then(s, Idle) /\ UNCHANGED doc_versions
          ELSE /\ doc_versions' =
                     [doc_versions EXCEPT ![k] = IF @ # None /\ @ > v THEN @ ELSE v]
               /\ Then(s, Goto(task[s], "index"))
    /\ UNCHANGED <<client, index, document_language_ids, settings, findings, guards>>

\* Mutant: publish only when a newer version is on its way.
DidChangeIsOutdated(s) ==
    /\ At(s, "latest")
    /\ Then(s, IF doc_versions[task[s].key] # task[s].ver
               THEN Goto(task[s], "compute") ELSE Idle)
    /\ UNCHANGED <<client, server, guards>>

DidChangeIsLatest(s) ==
    /\ At(s, "latest")
    /\ Then(s, IF doc_versions[task[s].key] = task[s].ver
               THEN Goto(task[s], "compute") ELSE Idle)
    /\ UNCHANGED <<client, server, guards>>

\* Mutant: one half of the session stays.
DidCloseKeepsLanguage(s) ==
    /\ At(s, "close")
    /\ doc_versions' = [doc_versions EXCEPT ![task[s].key] = None]
    /\ Then(s, Idle)
    /\ UNCHANGED <<client, index, document_language_ids, settings, findings, guards>>

DidClose(s) ==
    /\ At(s, "close")
    /\ LET k == task[s].key IN
          /\ doc_versions' = [doc_versions EXCEPT ![k] = None]
          /\ document_language_ids' = document_language_ids \ {k}
    /\ Then(s, Idle)
    /\ UNCHANGED <<client, index, settings, findings, guards>>

(* publish_file_diagnostics: compute under a read lock, store and push under a
   write lock, then wait for the client channel. *)

ComputeDiagnostics(s) ==
    /\ At(s, "compute")
    /\ LET d == Compute(task[s].key) IN
          IF d = None THEN \E t \in AfterPublish(task[s]) : Then(s, t)
          ELSE Then(s, Goto([task[s] EXCEPT !.diag = d], "store"))
    /\ UNCHANGED <<client, server, guards>>

\* Mutant: the store keeps the first list it was given.
StoreOnceAndPush(s) ==
    /\ At(s, "store")
    /\ LET k == task[s].key IN
          /\ diagnostics' = [diagnostics EXCEPT ![k] = IF @ = None THEN task[s].diag ELSE @]
          /\ published' = [published EXCEPT ![k] = task[s].diag]
    /\ Then(s, Goto([task[s] EXCEPT !.diag = None], "flush"))
    /\ UNCHANGED <<client, index, session, settings, guards>>

StoreAndPush(s) ==
    /\ At(s, "store")
    /\ LET k == task[s].key IN
          /\ diagnostics' = [diagnostics EXCEPT ![k] = task[s].diag]
          /\ published' = [published EXCEPT ![k] = task[s].diag]
    /\ Then(s, Goto([task[s] EXCEPT !.diag = None], "flush"))
    /\ UNCHANGED <<client, index, session, settings, guards>>

Flushed(s) ==
    /\ Waiting(s, "flush")
    /\ \E t \in AfterPublish(task[s]) : Resume(s, t)
    /\ UNCHANGED <<client, server, guards>>

(* republish_all_diagnostics and refresh_derived_ui *)

RepublishKeys(s) ==
    /\ At(s, "keys")
    /\ \E t \in RepublishNext([task[s] EXCEPT !.todo = {k \in Keys : sources[k] # None}]) :
          Then(s, t)
    /\ UNCHANGED <<client, server, guards>>

RefreshFlags(s) ==
    /\ At(s, "flags")
    /\ Then(s, IF ClientSupport THEN Goto(task[s], "refresh") ELSE Finished(task[s]))
    /\ UNCHANGED <<client, server, guards>>

Refreshed(s) ==
    /\ Waiting(s, "refresh")
    /\ Resume(s, Finished(task[s]))
    /\ UNCHANGED <<client, server, guards>>

-----------------------------------------------------------------------------
(* did_change_watched_files: one event of the batch after another. *)

ClassifyEvent(s) ==
    /\ At(s, "classify")
    /\ LET e == Head(task[s].batch)  t == task[s] IN
          Then(s, CASE e.type = "config"  -> Goto([t EXCEPT !.op = "reload"], "locate")
                    [] e.type = "hints"   -> Goto([t EXCEPT !.key = e.at], "base")
                    [] e.type = "changed" -> Goto([t EXCEPT !.key = e.at], "fsread")
                    [] e.type = "deleted" -> Goto([t EXCEPT !.key = e.at], "forget"))
    /\ UNCHANGED <<client, server, guards>>

\* A blocking thread reads the file some time while the handler is suspended.
ReadFile(s) ==
    /\ task[s].pc = "fsread"
    /\ task' = [task EXCEPT ![s] =
                   Goto([task[s] EXCEPT !.text = disk[task[s].key]], "fetched")]
    /\ UNCHANGED <<client, server, lockq, guards>>

FileRead(s) ==
    /\ Waiting(s, "fetched")
    /\ Resume(s, IF task[s].text = None THEN EventDone(task[s]) ELSE Goto(task[s], "index"))
    /\ UNCHANGED <<client, server, guards>>

\* Mutant: the version mark stays behind.
ForgetDeletedKeepsMark(s) ==
    /\ At(s, "forget")
    /\ LET k == task[s].key IN
          /\ templates' = [templates EXCEPT ![k] = None]
          /\ sources' = [sources EXCEPT ![k] = None]
          /\ document_language_ids' = document_language_ids \ {k}
          /\ sidecar_registries' = [sidecar_registries EXCEPT ![k] = None]
          /\ published' = [published EXCEPT ![k] = Empty]
    /\ Then(s, Goto(task[s], "flush"))
    /\ UNCHANGED <<client, doc_versions, diagnostics, settings, guards>>

\* A deleted file loses its per-file state and its pushed list; the stored list stays.
ForgetDeleted(s) ==
    /\ At(s, "forget")
    /\ LET k == task[s].key IN
          /\ templates' = [templates EXCEPT ![k] = None]
          /\ sources' = [sources EXCEPT ![k] = None]
          /\ document_language_ids' = document_language_ids \ {k}
          /\ sidecar_registries' = [sidecar_registries EXCEPT ![k] = None]
          /\ doc_versions' = [doc_versions EXCEPT ![k] = None]
          /\ published' = [published EXCEPT ![k] = Empty]
    /\ Then(s, Goto(task[s], "flush"))
    /\ UNCHANGED <<client, diagnostics, settings, guards>>

SidecarBase(s) ==
    /\ At(s, "base")
    /\ Then(s, Goto([task[s] EXCEPT !.base = BaseRegistry(task[s].key)], "sidecar"))
    /\ UNCHANGED <<client, server, guards>>

RefreshSidecar(s) ==
    /\ At(s, "sidecar")
    /\ LET k == task[s].key IN
          sidecar_registries' =
             [sidecar_registries EXCEPT ![k] = Sidecar(k, task[s].base)]
    /\ Then(s, Goto([task[s] EXCEPT !.base = None], "compute"))
    /\ UNCHANGED <<client, templates, sources, session, settings, findings, guards>>

(* reload_config_file *)

LocateFolder(s) ==
    /\ At(s, "locate")
    /\ Then(s, Goto([task[s] EXCEPT !.folders = {Head(task[s].batch).at}], "discover"))
    /\ UNCHANGED <<client, server, guards>>

DiscoverConfig(s) ==
    /\ At(s, "discover")
    /\ \E f \in task[s].folders :
          Then(s, IF cfgDisk[f] \in Broken
                  THEN Goto([task[s] EXCEPT !.op = "watch", !.folders = {}], "flush")
                  ELSE Goto([task[s] EXCEPT !.cfg = cfgDisk[f]], "config"))
    /\ UNCHANGED <<client, server, guards>>

ApplyConfig(s) ==
    /\ At(s, "config")
    /\ \E f \in task[s].folders :
          LET new == task[s].cfg IN
          /\ config' = [config EXCEPT ![f] = new]
          /\ Then(s, IF Layout[new] = Layout[config[f]]
                     THEN Goto([task[s] EXCEPT !.cfg = 0, !.folders = {}], "log")
                     ELSE Goto([task[s] EXCEPT !.cfg = 0, !.layout = Layout[new]], "walk"))
    /\ UNCHANGED <<client, index, session, overlay, findings, guards>>

(* did_change_configuration with a valid overlay of lint settings *)
ApplyOverlay(s) ==
    /\ At(s, "overlay")
    /\ overlay' = task[s].ver
    /\ Then(s, Goto([task[s] EXCEPT !.ver = 0], "keys"))
    /\ UNCHANGED <<client, index, session, config, findings, guards>>

-----------------------------------------------------------------------------
(* initialized / scan_workspaces: folder after folder, on blocking threads *)

Greeted(s) ==
    /\ Waiting(s, "greet")
    /\ Resume(s, Goto(task[s], "progress"))
    /\ UNCHANGED <<client, server, guards>>

ProgressFlag(s) ==
    /\ At(s, "progress")
    /\ Then(s, Goto(task[s], IF ClientSupport THEN "create" ELSE "inputs"))
    /\ UNCHANGED <<client, server, guards>>

ProgressCreated(s) ==
    /\ Waiting(s, "create")
    /\ Resume(s, Goto(task[s], "inputs"))
    /\ UNCHANGED <<client, server, guards>>

ScanInputs(s) ==
    /\ At(s, "inputs")
    /\ LET discovered == {k \in Keys : k \in Layout[config[Owner[k]]]} IN
          Then(s, Goto([task[s] EXCEPT !.folders = Folders, !.layout = discovered], "walk"))
    /\ UNCHANGED <<client, server, guards>>

\* build_workspace_abs: what the folder's files held at some moment of the walk.
WalkFolder(s) ==
    /\ task[s].pc = "walk"
    /\ LET files_read == [k \in Keys |-> IF k \in task[s].layout THEN disk[k] ELSE None] IN
          task' = [task EXCEPT ![s] = Goto([task[s] EXCEPT !.found = files_read], "walked")]
    /\ UNCHANGED <<client, server, lockq, guards>>

Walked(s) ==
    /\ Waiting(s, "walked")
    /\ Resume(s, Goto(task[s], "commit"))
    /\ UNCHANGED <<client, server, guards>>

\* Mutant: every folder's scan lands in the primary index.
CommitScanToPrimary(s) ==
    /\ At(s, "commit")
    /\ \E f \in task[s].folders :
          /\ \A g \in task[s].folders : f <= g
          /\ templates' = [k \in Keys |-> IF Owner[k] = 0 THEN task[s].found[k]
                                          ELSE templates[k]]
          /\ Then(s, IF task[s].folders = {f}
                     THEN Goto([task[s] EXCEPT !.found = None, !.folders = {},
                                               !.layout = {}], "log")
                     ELSE Goto([task[s] EXCEPT !.found = None,
                                               !.folders = task[s].folders \ {f}], "walk"))
    /\ UNCHANGED <<client, sources, sidecar_registries, session, settings, findings, guards>>

\* The folder's whole index is replaced by the scan's.
CommitScan(s) ==
    /\ At(s, "commit")
    /\ \E f \in task[s].folders :
          /\ \A g \in task[s].folders : f <= g
          /\ templates' = [k \in Keys |-> IF Owner[k] = f THEN task[s].found[k]
                                          ELSE templates[k]]
          /\ Then(s, IF task[s].folders = {f}
                     THEN Goto([task[s] EXCEPT !.found = None, !.folders = {},
                                               !.layout = {}], "log")
                     ELSE Goto([task[s] EXCEPT !.found = None,
                                               !.folders = task[s].folders \ {f}], "walk"))
    /\ UNCHANGED <<client, sources, sidecar_registries, session, settings, findings, guards>>

\* Mutant: nothing is published again after the commit.
LoggedWithoutRepublish(s) ==
    /\ Waiting(s, "log")
    /\ Resume(s, Goto(task[s], "flags"))
    /\ UNCHANGED <<client, server, guards>>

Logged(s) ==
    /\ Waiting(s, "log")
    /\ Resume(s, Goto(task[s], "keys"))
    /\ UNCHANGED <<client, server, guards>>

Registered(s) ==
    /\ Waiting(s, "register")
    /\ Resume(s, Idle)
    /\ UNCHANGED <<client, server, guards>>

-----------------------------------------------------------------------------
(* jinja-lsp.rename, refused: the read guard is held while the message to the
   client is sent.  A rename of a file the server does not track just returns. *)

HoldGuard(s) ==
    /\ At(s, "hold")
    /\ LET k == task[s].key IN
          IF Compute(k) = None
          THEN Then(s, Idle) /\ UNCHANGED guards
          ELSE Then(s, Goto(task[s], "message")) /\ guards' = guards \cup {s}
    /\ UNCHANGED <<client, server>>

\* Mutant: the guard is not released.
MessageShownGuardKept(s) ==
    /\ Waiting(s, "message")
    /\ Resume(s, Idle)
    /\ UNCHANGED <<client, server, guards>>

MessageShown(s) ==
    /\ Waiting(s, "message")
    /\ guards' = guards \ {s}
    /\ Resume(s, Idle)
    /\ UNCHANGED <<client, server>>

-----------------------------------------------------------------------------
(* The editor and the file system.  Each action counts against MaxMessages and,
   when it makes a new text, numbers the text by that count. *)

Act(kind) == kind \in Kinds /\ sent < MaxMessages /\ sent' = sent + 1
NewText == sent + 1
Event(type, at) == [type |-> type, at |-> at]

EditorOpen(k) ==
    /\ Act("open")
    /\ bufText[k] = None
    /\ bufText' = [bufText EXCEPT ![k] = IF disk[k] = None THEN NewText ELSE disk[k]]
    /\ bufVer' = [bufVer EXCEPT ![k] = 1]
    /\ Dispatch(IF k \in Jinja
                THEN [Handler("open", "clear", k) EXCEPT !.text = bufText'[k]]
                ELSE Idle)
    /\ UNCHANGED <<files, events, server>>

EditorChange(k) ==
    /\ Act("change")
    /\ bufText[k] # None
    /\ bufText' = [bufText EXCEPT ![k] = NewText]
    /\ bufVer' = [bufVer EXCEPT ![k] = @ + 1]
    /\ Dispatch([Handler("change", "record", k) EXCEPT !.text = NewText, !.ver = bufVer'[k]])
    /\ UNCHANGED <<files, events, server>>

EditorClose(k) ==
    /\ Act("close")
    /\ bufText[k] # None
    /\ bufText' = [bufText EXCEPT ![k] = None]
    /\ bufVer' = [bufVer EXCEPT ![k] = 0]
    /\ Dispatch(Handler("close", "close", k))
    /\ UNCHANGED <<files, events, server>>

\* did_save does nothing; the write itself is seen by the watchers.
EditorSave(k) ==
    /\ Act("save")
    /\ bufText[k] # None
    /\ disk' = [disk EXCEPT ![k] = bufText[k]]
    /\ events' = Append(events, Event("changed", k))
    /\ Dispatch(Idle)
    /\ UNCHANGED <<cfgDisk, hints, editor, server>>

FileWritten(k) ==
    /\ Act("write")
    /\ disk' = [disk EXCEPT ![k] = NewText]
    /\ events' = Append(events, Event("changed", k))
    /\ UNCHANGED <<cfgDisk, hints, editor, server, sched>>

FileDeleted(k) ==
    /\ Act("delete")
    /\ disk[k] # None
    /\ disk' = [disk EXCEPT ![k] = None]
    /\ events' = Append(events, Event("deleted", k))
    /\ UNCHANGED <<cfgDisk, hints, editor, server, sched>>

HintsWritten(k) ==
    /\ Act("hints")
    /\ \E h \in {0, NewText} :
          /\ h # hints[k]
          /\ hints' = [hints EXCEPT ![k] = h]
    /\ events' = Append(events, Event("hints", k))
    /\ UNCHANGED <<disk, cfgDisk, editor, server, sched>>

ConfigWritten(f) ==
    /\ Act("config")
    /\ \E c \in Configs \ {cfgDisk[f]} : cfgDisk' = [cfgDisk EXCEPT ![f] = c]
    /\ events' = Append(events, Event("config", f))
    /\ UNCHANGED <<disk, hints, editor, server, sched>>

\* The client reports the next n watcher events in one notification.
DeliverEvents ==
    /\ \E n \in 1..Len(events) :
          /\ events' = SubSeq(events, n + 1, Len(events))
          /\ Dispatch([Handler("watch", "classify", None)
                          EXCEPT !.batch = SubSeq(events, 1, n)])
    /\ UNCHANGED <<files, editor, sent, server>>

\* An overlay without any setting is dropped before the lock is taken.
SettingsChanged ==
    /\ Act("settings")
    /\ \E v \in {0, NewText} :
          Dispatch(IF v = 0 THEN Idle
                   ELSE [Handler("settings", "overlay", None) EXCEPT !.ver = v])
    /\ UNCHANGED <<files, editor, events, server>>

RenameRefused(k) ==
    /\ Act("rename")
    /\ Dispatch(Handler("rename", "hold", k))
    /\ UNCHANGED <<files, editor, events, server>>

-----------------------------------------------------------------------------
Init ==
    /\ disk \in [Keys -> {None, 0}]
    /\ cfgDisk = [f \in Folders |-> 0]
    /\ hints = [k \in Keys |-> 0]
    /\ bufText = [k \in Keys |-> None]
    /\ bufVer = [k \in Keys |-> 0]
    /\ events = <<>>
    /\ sent = 0
    /\ config = cfgDisk
    /\ overlay = 0
    /\ templates = [k \in Keys |-> IF "scan" \notin Kinds /\ k \in Layout[0]
                                   THEN disk[k] ELSE None]
    /\ sources = [k \in Keys |-> None]
    /\ doc_versions = [k \in Keys |-> None]
    /\ document_language_ids = {}
    /\ diagnostics = [k \in Keys |-> None]
    /\ sidecar_registries = [k \in Keys |-> None]
    /\ published = [k \in Keys |-> None]
    /\ task = [s \in Slots |-> IF s = 1 /\ "scan" \in Kinds
                               THEN Handler("scan", "greet", None) ELSE Idle]
    /\ lockq = <<>>
    /\ guards = {}

\* A queued critical section runs.
Section(s) ==
    \/ DidOpenClear(s) \/ Pass1(s) \/ DidChangeRecord(s) \/ DidChangeIsLatest(s)
    \/ DidClose(s) \/ ComputeDiagnostics(s) \/ StoreAndPush(s)
    \/ RepublishKeys(s) \/ RefreshFlags(s)
    \/ ClassifyEvent(s) \/ ForgetDeleted(s) \/ SidecarBase(s) \/ RefreshSidecar(s)
    \/ LocateFolder(s) \/ DiscoverConfig(s) \/ ApplyConfig(s) \/ ApplyOverlay(s)
    \/ ProgressFlag(s) \/ ScanInputs(s) \/ CommitScan(s) \/ HoldGuard(s)

\* A suspended handler goes on, or a blocking thread does its work.
Wake(s) ==
    \/ Flushed(s) \/ Refreshed(s) \/ ReadFile(s) \/ FileRead(s)
    \/ WalkFolder(s) \/ Walked(s) \/ Logged(s) \/ Greeted(s) \/ ProgressCreated(s)
    \/ Registered(s) \/ MessageShown(s)

Client ==
    \/ \E k \in Keys : \/ EditorOpen(k) \/ EditorChange(k) \/ EditorClose(k)
                       \/ EditorSave(k) \/ FileWritten(k) \/ FileDeleted(k)
                       \/ HintsWritten(k) \/ RenameRefused(k)
    \/ \E f \in Folders : ConfigWritten(f)
    \/ DeliverEvents
    \/ SettingsChanged

AllIdle == \A s \in Slots : task[s].pc = "idle"

\* The server waits for its client.
Rest == AllIdle /\ UNCHANGED vars

Next == (\E s \in Slots : Section(s) \/ Wake(s)) \/ Client \/ Rest

Spec == Init /\ [][Next]_vars

\* The executor runs what can run, the client and the threads answer.
Fairness ==
    /\ \A s \in Slots : WF_vars(Section(s)) /\ WF_vars(Wake(s))
    /\ WF_vars(DeliverEvents)

FairSpec == Spec /\ Fairness

-----------------------------------------------------------------------------
(* Types *)

Pcs == Sections \cup Waits \cup {"idle"}
Ops == {"none", "open", "change", "close", "watch", "reload", "settings", "scan", "rename"}
Registries == [base : Configs, hints : Nat]
Findings == [text : Texts, facts : [Keys -> Texts \cup {None}], registry : Registries,
             config : Configs, overlay : Nat]
ASSUME FindingsAssumption == None \notin Findings
Events == [type : {"changed", "deleted", "hints"}, at : Keys]
          \cup [type : {"config"}, at : Folders]
Handlers == [pc : Pcs, op : Ops, key : Keys \cup {None}, text : Texts \cup {None},
             ver : Nat, cfg : Configs, batch : Seq(Events), todo : SUBSET Keys,
             folders : SUBSET Folders, layout : SUBSET Keys,
             found : [Keys -> Texts \cup {None}] \cup {None},
             base : Registries \cup {None},
             diag : Findings \cup {None}]

\* What a handler must carry at the step it is about to take.
Carries(t) ==
    /\ t.pc \in {"clear", "index", "record", "latest", "close", "compute", "store",
                 "fsread", "fetched", "forget", "base", "sidecar", "hold"} => t.key \in Keys
    /\ t.pc \in {"clear", "index", "record"} => t.text \in Texts
    /\ t.pc \in {"classify", "locate"} => t.batch # <<>>
    /\ t.pc = "locate" => Head(t.batch).type = "config"
    /\ t.pc = "overlay" => t.ver \in Texts
    /\ t.pc = "store" => t.diag \in Findings
    /\ t.pc = "sidecar" => t.base \in Registries
    /\ t.pc \in {"walked", "commit"} => t.found \in [Keys -> Texts \cup {None}]

ClientOK ==
    /\ disk \in [Keys -> Texts \cup {None}]
    /\ cfgDisk \in [Folders -> Configs]
    /\ hints \in [Keys -> Texts]
    /\ bufText \in [Keys -> Texts \cup {None}]
    /\ bufVer \in [Keys -> Nat]
    /\ events \in Seq(Events)
    /\ sent \in Texts

ServerOK ==
    /\ templates \in [Keys -> Texts \cup {None}]
    /\ sources \in [Keys -> Texts \cup {None}]
    /\ sidecar_registries \in [Keys -> Registries \cup {None}]
    /\ doc_versions \in [Keys -> Nat \cup {None}]
    /\ document_language_ids \subseteq Keys
    /\ config \in [Folders -> Configs]
    /\ overlay \in Texts
    /\ diagnostics \in [Keys -> Findings \cup {None}]
    /\ published \in [Keys -> Findings \cup {None, Empty}]

SchedOK ==
    /\ task \in [Slots -> Handlers]
    /\ \A s \in Slots : Carries(task[s])
    /\ lockq \in Seq(Slots)
    /\ guards \subseteq Slots

\* The type invariant.
TypeOK == ClientOK /\ ServerOK /\ SchedOK

-----------------------------------------------------------------------------
(* Properties.  None speaks of a moment in which a handler is under way unless
   it says so: at rest is where the editor is left with what the server did. *)

Settled == AllIdle /\ events = <<>>

\* update_file moves a tracked file's text and its facts together, and a deletion
\* removes both: no request sees the facts of one text beside another text.
IndexTracksSource == \A k \in Keys : sources[k] # None => templates[k] = sources[k]

\* A version mark never outlives the document it was recorded for (jinja-lsp-wgi7):
\* a mark left behind would make every edit of a reopened document look stale.
MarksOnlyTracked == \A k \in Keys : doc_versions[k] # None => sources[k] # None

\* "Newest content wins" (did_change): at rest the server holds the text that the
\* editor shows, for every open document whose languageId it accepted.
NewestContentWins ==
    Settled => \A k \in Jinja : bufText[k] # None => sources[k] = bufText[k]

\* A recorded edit is never lost or overtaken, even when a refused rename makes the
\* handlers queue for the lock: at rest a version mark is the editor's version, and
\* the text and the pushed diagnostics are those of that version.
RecordedEditWins ==
    Settled => \A k \in Keys : doc_versions[k] # None =>
        /\ doc_versions[k] = bufVer[k]
        /\ sources[k] = bufText[k]
        /\ published[k] = Compute(k)

\* At rest the list the client was pushed for a tracked file is the one its text, the
\* index, the registry and the settings of now give: no publish was skipped, dropped
\* or overtaken.
PublishedIsCurrent ==
    Settled => \A k \in Keys : Compute(k) # None /\ sources[k] # None
                               => published[k] = Compute(k)

\* Push and pull cannot disagree (textDocument/diagnostic): at rest a pull for an open
\* document answers with the list last pushed.
PullAgreesWithPush ==
    Settled => \A k \in Jinja : bufText[k] # None => Pull(k) = published[k]

\* did_close ends the editing session: at rest a document that is not open has neither
\* a version mark nor a language id, whatever order its last edits were handled in.
ClosedDocumentsLeaveNoSession ==
    Settled => \A k \in Keys : bufText[k] = None =>
        doc_versions[k] = None /\ k \notin document_language_ids

\* Every discovered file that is on disk is in the index once the scans are over,
\* whichever folder it belongs to and whatever was opened meanwhile.
ScanIndexesWorkspace ==
    Settled => \A k \in Keys :
        disk[k] # None /\ k \in Layout[config[Owner[k]]] => templates[k] # None

\* Every handler ends: no lock queue, held guard, republish loop or file read keeps
\* one for ever when the client answers its requests.
EveryHandlerEnds == \A s \in Slots : task[s].pc # "idle" ~> task[s].pc = "idle"

\* What the editor shows for an accepted document ends up indexed and published,
\* unless it is edited again or closed.
EditsAreServed ==
    \A k \in Jinja : bufText[k] # None ~>
        \/ bufText[k] = None
        \/ sources[k] = bufText[k] /\ templates[k] = bufText[k] /\ published[k] = Compute(k)
=============================================================================
