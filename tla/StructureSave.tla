----------------------------- MODULE StructureSave -----------------------------
(***************************************************************************)
(* The structure of a canvas, its nodes and edges, under one version: a    *)
(* browser tab that saves it whole with a compare-and-swap (saveCanvas()   *)
(* of canvasStore.ts, structureScheduler.ts, structureSaveReconciliation   *)
(* .ts), the PUT of the server (canvas.route.ts), the agents and other     *)
(* tabs that write it too, and the sync stream on which the agents'        *)
(* updates come (sync.route.ts, canvas-sync.ts, canvasSyncStore.ts).       *)
(*                                                                         *)
(* A structure is the set of edits it contains.  The title travels in the  *)
(* same PUT but is renamed by a write of its own; of it the module keeps   *)
(* only that a taken title makes the PUT fail.                             *)
(***************************************************************************)
EXTENDS Naturals, Sequences, FiniteSets

CONSTANTS
    Local,       \* edits of the user in this tab
    Agent,       \* edits of agents, broadcast with the versions they lead between
    Other,       \* edits of other tabs, not broadcast
    MaxFaults,   \* bound on failing requests
    MaxBreaks,   \* bound on broken streams
    None

Edits == Local \cup Agent \cup Other
Canvas == [version : Nat, edits : SUBSET Edits]
Update == [type : {"update"}, fromVersion : Nat, toVersion : Nat, edit : Agent]
Snapshot == [type : {"snapshot"}, version : Nat]
Put == [phase : {"sent"}, version : Nat, edits : SUBSET Edits]
           \cup [phase : {"saved", "conflict"}, version : Nat] \cup [phase : {"failed"}]
Load == [phase : {"sent", "failed"}] \cup [phase : {"read"}, canvas : Canvas]

ASSUME StructureSaveAssumption ==
    /\ {MaxFaults, MaxBreaks} \subseteq Nat
    /\ Local \cap (Agent \cup Other) = {} /\ Agent \cap Other = {}
    /\ None \notin Nat \cup Put \cup Load

VARIABLES
    server,    \* the stored canvas: version and edits
    version,   \* the version the tab's state is based on
    shown,     \* the structure in the tab's store
    timer,     \* the debounced save is pending
    saving,    \* isSaving
    again,     \* pendingSave
    conflict,  \* versionConflictServerVersion while versionConflict, else None
    put,       \* the PUT in flight, or its answer
    load,      \* the GET of loadCanvas() in flight, or its answer
    stream,    \* "down", "subscribed" (the snapshot is yet to be read) or "up"
    events,    \* what the stream carries to the tab
    faults, breaks,  \* counts towards the bounds
    past,      \* history: the edits of every version so far, the first one at 1
    silent,    \* history: a PUT was not stored, or a reload failed, for another reason
    skipped,   \* history: edits of agents whose update raised the tab's version alone
    raced      \* history: a reload ended while a PUT was in flight, or a refusal came during one

saver == <<timer, saving, again, conflict, put>>
sync == <<stream, events>>
counts == <<faults, breaks>>
history == <<past, silent, skipped, raced>>
vars == <<server, version, shown, saver, load, sync, counts, history>>

TypeOK ==
    /\ server \in Canvas
    /\ version \in Nat
    /\ shown \subseteq Edits
    /\ timer \in BOOLEAN /\ saving \in BOOLEAN /\ again \in BOOLEAN
    /\ silent \in BOOLEAN /\ raced \in BOOLEAN
    /\ conflict \in Nat \cup {None}
    /\ put \in Put \cup {None}
    /\ load \in Load \cup {None}
    /\ stream \in {"down", "subscribed", "up"}
    /\ events \in Seq(Update \cup Snapshot)
    /\ {faults, breaks} \subseteq Nat
    /\ past \in Seq(SUBSET Edits)
    /\ skipped \subseteq Agent

\* A canvas just loaded; the stream is about to connect.
Init ==
    /\ server = [version |-> 0, edits |-> {}]
    /\ version = 0 /\ shown = {}
    /\ timer = FALSE /\ saving = FALSE /\ again = FALSE
    /\ conflict = None /\ put = None /\ load = None
    /\ stream = "down" /\ events = <<>>
    /\ faults = 0 /\ breaks = 0
    /\ past = <<{}>> /\ silent = FALSE /\ skipped = {} /\ raced = FALSE

-----------------------------------------------------------------------------
(* The user edits; a canvas that reloads shows a spinner instead *)

Edit ==
    /\ load = None
    /\ \E e \in Local \ (shown \cup server.edits) : shown' = shown \cup {e}
    /\ timer' = TRUE
    /\ UNCHANGED <<server, version, saving, again, conflict, put, load, sync, counts, history>>

-----------------------------------------------------------------------------
(* saveCanvas() *)

\* Its body while nothing is in flight, with the version and the gate it will find.
SendFrom(v, gate) ==
    IF gate # None THEN saving' = FALSE /\ put' = None
    ELSE saving' = TRUE /\ put' = [phase |-> "sent", version |-> v, edits |-> shown]

TimerFires ==
    /\ timer
    /\ timer' = FALSE
    /\ \/ conflict # None /\ UNCHANGED <<saving, again, put>>
       \/ conflict = None /\ saving /\ again' = TRUE /\ UNCHANGED <<saving, put>>
       \/ conflict = None /\ ~saving /\ SendFrom(version, None) /\ UNCHANGED again
    /\ UNCHANGED <<server, version, shown, conflict, load, sync, counts, history>>

\* The `finally`: a save asked for meanwhile starts now, through the gate.
FinishOnce(v, gate, resave) == again' = again /\ saving' = FALSE /\ put' = None
Finish(v, gate, resave) ==
    /\ again' = FALSE
    /\ IF resave THEN SendFrom(v, gate) ELSE saving' = FALSE /\ put' = None

\* reconcileCanvasVersion()
Reconcile(v, acknowledged) == IF v >= acknowledged THEN v ELSE acknowledged
StaysShut(v, gate) == gate
Resolved(v, gate) == IF gate # None /\ v >= gate THEN None ELSE gate

Saved ==
    /\ put # None /\ put.phase = "saved"
    /\ version' = Reconcile(version, put.version)
    /\ conflict' = Resolved(version', conflict)
    /\ Finish(version', conflict', again)
    /\ UNCHANGED <<server, shown, timer, load, sync, counts, history>>

\* A conflict the stream has already covered is retried; any other closes the gate.
ConflictWithoutFinally ==
    /\ put # None /\ put.phase = "conflict"
    /\ IF version >= put.version THEN again' = TRUE /\ UNCHANGED conflict
                                 ELSE conflict' = put.version /\ UNCHANGED again
    /\ put' = None
    /\ raced' = (raced \/ (version < put.version /\ load # None))
    /\ UNCHANGED <<server, version, shown, timer, saving, load, sync, counts, past, silent, skipped>>
Conflict ==
    /\ put # None /\ put.phase = "conflict"
    /\ LET covered == version >= put.version
           gate == IF covered \/ conflict # None THEN conflict ELSE put.version
       IN /\ conflict' = gate
          /\ Finish(version, gate, again \/ covered)
          /\ raced' = (raced \/ (~covered /\ load # None))
    /\ UNCHANGED <<server, version, shown, timer, load, sync, counts, past, silent, skipped>>

\* Any other error is logged, or thrown to the rename whose title is taken; neither is
\* tried again.
Failed ==
    /\ put # None /\ put.phase = "failed"
    /\ silent' = TRUE
    /\ Finish(version, conflict, again)
    /\ UNCHANGED <<server, version, shown, timer, conflict, load, sync, counts, past, skipped, raced>>

-----------------------------------------------------------------------------
(* The server *)

AnyVersion(v) == TRUE
VersionMatches(v) == v = server.version

\* Every write of the canvas leads to the next version.
Store(edits) ==
    /\ server' = [version |-> server.version + 1, edits |-> edits]
    /\ past' = Append(past, edits)
    /\ UNCHANGED <<silent, skipped, raced>>

Accept ==
    /\ put # None /\ put.phase = "sent"
    /\ VersionMatches(put.version)
    /\ Store(put.edits)
    /\ put' = [phase |-> "saved", version |-> server.version + 1]
    /\ UNCHANGED <<version, shown, timer, saving, again, conflict, load, sync, counts>>

Refuse ==
    /\ put # None /\ put.phase = "sent"
    /\ ~VersionMatches(put.version)
    /\ put' = [phase |-> "conflict", version |-> server.version]
    /\ UNCHANGED <<server, version, shown, timer, saving, again, conflict, load, sync,
                   counts, history>>

\* Another canvas has the title: nothing of the body is stored.
TitleTaken ==
    /\ put # None /\ put.phase = "sent"
    /\ VersionMatches(put.version)
    /\ faults < MaxFaults
    /\ faults' = faults + 1
    /\ put' = [phase |-> "failed"]
    /\ UNCHANGED <<server, version, shown, timer, saving, again, conflict, load, sync,
                   breaks, history>>

\* The write failed, or the answer is lost.
FailPut ==
    /\ put # None /\ put.phase # "failed"
    /\ faults < MaxFaults
    /\ faults' = faults + 1
    /\ put' = [phase |-> "failed"]
    /\ UNCHANGED <<server, version, shown, timer, saving, again, conflict, load, sync,
                   breaks, history>>

\* Edits and publishes under the mutex of the canvas; each edit is made once.
AgentWrites ==
    /\ \E e \in {a \in Agent : \A i \in DOMAIN past : a \notin past[i]} :
          /\ Store(server.edits \cup {e})
          /\ events' = IF stream = "down" THEN events
                       ELSE Append(events, [type |-> "update", edit |-> e,
                                            fromVersion |-> server.version,
                                            toVersion |-> server.version + 1])
    /\ UNCHANGED <<version, shown, saver, load, stream, counts>>

OtherTabWrites ==
    /\ \E e \in Other \ server.edits : Store(server.edits \cup {e})
    /\ UNCHANGED <<version, shown, saver, load, sync, counts>>

-----------------------------------------------------------------------------
(* The stream.  The server subscribes, reads the version and sends it, and  *)
(* then what was published meanwhile.                                       *)

Connect ==
    /\ stream = "down"
    /\ stream' = "subscribed"
    /\ UNCHANGED <<server, version, shown, saver, load, events, counts, history>>

SendSnapshot ==
    /\ stream = "subscribed"
    /\ stream' = "up"
    /\ events' = <<[type |-> "snapshot", version |-> server.version]>> \o events
    /\ UNCHANGED <<server, version, shown, saver, load, counts, history>>

Break ==
    /\ stream # "down"
    /\ breaks < MaxBreaks
    /\ breaks' = breaks + 1
    /\ stream' = "down"
    /\ events' = <<>>
    /\ UNCHANGED <<server, version, shown, saver, load, faults, history>>

Received == stream = "up" /\ events # <<>> /\ events' = Tail(events)

\* loadCanvas() opens the gate before it asks.
StartLoad ==
    /\ load' = [phase |-> "sent"]
    /\ conflict' = None

SnapshotArrives ==
    /\ Received /\ Head(events).type = "snapshot"
    /\ IF load = None /\ Head(events).version # version
       THEN StartLoad ELSE UNCHANGED <<load, conflict>>
    /\ UNCHANGED <<server, version, shown, timer, saving, again, put, stream, counts, history>>

\* applyDeltasFromAgent(): an edit of a node whose text waits to be saved is left out,
\* and an order of nodes is in no delta; the version is adopted all the same.  Reaching
\* the version of a conflict opens the gate and saves.
Apply ==
    /\ Received /\ Head(events).type = "update"
    /\ LET u == Head(events) IN
          /\ u.fromVersion = version
          /\ \/ shown' = shown \cup {u.edit} /\ UNCHANGED skipped
             \/ skipped' = skipped \cup {u.edit} /\ UNCHANGED shown
          /\ version' = Reconcile(version, u.toVersion)
    /\ conflict' = Resolved(version', conflict)
    /\ timer' = (timer \/ conflict' # conflict)
    /\ UNCHANGED <<server, saving, again, put, load, stream, counts, past, silent, raced>>

\* A gap is healed by a reload unless a text waits to be saved; reloads come one at
\* a time.
Gap ==
    /\ Received /\ Head(events).type = "update"
    /\ Head(events).fromVersion # version /\ Head(events).toVersion > version
    /\ \/ load = None /\ StartLoad
       \/ UNCHANGED <<load, conflict>>
    /\ UNCHANGED <<server, version, shown, timer, saving, again, put, stream, counts, history>>

Stale ==
    /\ Received /\ Head(events).type = "update"
    /\ Head(events).fromVersion # version /\ Head(events).toVersion <= version
    /\ UNCHANGED <<server, version, shown, saver, load, stream, counts, history>>

-----------------------------------------------------------------------------
(* The reload *)

ReadCanvas ==
    /\ load # None /\ load.phase = "sent"
    /\ \/ load' = [phase |-> "read", canvas |-> server] /\ UNCHANGED faults
       \/ /\ faults < MaxFaults
          /\ faults' = faults + 1
          /\ load' = [phase |-> "failed"]
    /\ UNCHANGED <<server, version, shown, saver, sync, breaks, history>>

\* The store is replaced, without a save; heights measured on the way ask for one.
Loaded ==
    /\ load # None /\ load.phase = "read"
    /\ version' = load.canvas.version
    /\ shown' = load.canvas.edits
    /\ timer' \in {timer, TRUE}
    /\ load' = None
    /\ raced' = (raced \/ put # None)
    /\ UNCHANGED <<server, saving, again, conflict, put, sync, counts, past, silent, skipped>>

LoadFails ==
    /\ load # None /\ load.phase = "failed"
    /\ load' = None
    /\ silent' = TRUE
    /\ UNCHANGED <<server, version, shown, saver, sync, counts, past, skipped, raced>>

-----------------------------------------------------------------------------
Next ==
    \/ Edit \/ TimerFires
    \/ Accept \/ Refuse \/ TitleTaken \/ FailPut
    \/ Saved \/ Conflict \/ Failed
    \/ AgentWrites \/ OtherTabWrites
    \/ Connect \/ SendSnapshot \/ Break
    \/ SnapshotArrives \/ Apply \/ Gap \/ Stale
    \/ ReadCanvas \/ Loaded \/ LoadFails

\* Requests are answered, or fail, and the stream delivers.
Fairness ==
    /\ WF_vars(TimerFires)
    /\ WF_vars(Accept \/ Refuse \/ TitleTaken \/ FailPut)
    /\ WF_vars(Saved \/ Conflict \/ Failed)
    /\ WF_vars(ReadCanvas)
    /\ WF_vars(Loaded \/ LoadFails)

Spec == Init /\ [][Next]_vars
FairSpec == Spec /\ Fairness

-----------------------------------------------------------------------------
(* Properties.  A reload that was read before a PUT was stored and arrives    *)
(* after it takes the tab's edits back and its version with them; then the    *)
(* answer of the PUT raises the version again.  `raced` says that both were   *)
(* in flight together.  `skipped` are the agents' edits that the tab left out *)
(* while it took the version they led to; nothing protects these.             *)

\* canvas.route.ts:1172: a save never drops an edit that is stored, its own or of
\* anybody else, whatever the stream missed or delivered late; the one exception is an
\* agent's edit that this tab left out when it took the version.
NoLostEdit == [][server.edits \subseteq server'.edits \cup skipped \/ raced]_vars

\* canvasStore.ts:2104: the gate is closed only while the tab is behind the version
\* that closed it, so reaching that version by any path opens it.
GateMeansBehind ==
    /\ TypeOK
    /\ conflict # None => version < conflict \/ raced

\* An edit that is not stored waits for its save, for a reload or behind the gate; the
\* exceptions are requests that failed or carried a taken title, which nothing sends
\* again, and the agents' edits that an earlier save of this tab took back.
UnsavedIsPending ==
    shown \subseteq server.edits \cup skipped
    \/ timer \/ saving \/ conflict # None \/ load # None \/ silent \/ raced

\* A save ends: isSaving is not left behind by a conflict, and retrying covered
\* conflicts comes to an end.
SavesEnd == saving ~> ~saving

===============================================================================
