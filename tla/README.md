# A TLA+ model of the Local Creative OS core and its canvas

Local Core (`src/apps/local-core/src`) is a single-process HTTP server on a synchronous SQLite
database. It keeps a creative project as artifacts with revisions, hands work to an agent behind
the *Light Bridge* (another process, reached over REST), reviews what comes back, and tells
connected clients what changed. The canvas (`src/huabu`) is a second client and server pair: a
browser tab that edits nodes and saves them to a server which agents and other tabs write too.
This directory models the parts of both where a wrong order of steps loses work.

Everything is translated from the code under `src/`. The Bridge, its agent, the browser's event
source and the user are not in the repository; they are modelled from how the code uses them, and
marked `external` in `PROJECT.json` where they have definitions of their own.

## 1. The system

| Component | State | Operations | What is hard |
|---|---|---|---|
| Revision ledger (`metadata-repository.ts`, `file-observation-service.ts`, `text-artifact-service.ts`) | `artifacts`, `artifact_revisions`, `artifact_returns` | register, draft, accept, reject, retry, text edit, adopt, refresh, restore, delete | callers read, await file I/O, then write |
| Run lifecycle (`runtime-*.ts`, `bridge-rest-client.ts`) | `runs`, `runtime_dispatches`, `runtime_bindings`, `run_input_requests`, `run_events`, evidence files | create, dispatch, recover, sync, answer, cancel, finalize, decide; auto-sync timer | no lock per run; lost answers, crashes, late polls, timeouts |
| Event stream (`project-events/`, `routes/project-events.ts`) | sequence, bounded buffer and listeners per project, in memory | publish, subscribe, reconnect | trims, restarts, reconnections |
| Mutation receipts (`project-mutation-coordinator.ts`) | receipts by operation id, in memory, with a lifetime and a limit | commit, lookup | a retry after the receipt expired |
| Presentations (`presentation-*.ts`, `routes/presentations.ts`) | versioned view state | save with compare-and-swap, delete, list | retries, deletion and re-creation, events |
| Change sets (`mutation-safety-service.ts`) | recorded changes, applied or reverted | record, revert, reapply | conflicts, partial undo |
| Curation commands (`curation-command-service.ts`) | composite mutation, idempotency receipt | plan, commit | concurrent retries, atomicity, notification |
| Canvas node content (web: `nodeContentQueue.ts`, `perKeyDebouncer.ts`, `canvasStore.ts`; server: `canvas.route.ts`, `write-coordinator.ts`) | text in the tab, baseline revision, frozen nodes, debounce and chain per node; the sidecar | type, flush, PUT, conflict, Keep mine, Load latest, retry, updates, reload | the tab, agents and other tabs write one text; lost answers; updates during a save |
| Canvas structure and sync (web: `canvasStore.ts`, `structureScheduler.ts`, `structureSaveReconciliation.ts`, `canvasSyncStore.ts`; server: `canvas.route.ts`, `canvas-executor.ts`, `sync.route.ts`, `canvas-sync.ts`) | version and structure in the tab and in storage, conflict gate, SSE stream | edit, save, update, snapshot, gap, reload | versions that three channels move |
| Session lifecycle (`session-lifecycle-service.ts`) | phase of each provider's session | observe run, mark disconnected/stale/fresh, recover | driven by concurrent runs |
| Result slots, active context, attention, receivers | small tables or stores | fulfil, save, select | second transaction after an accept |
| Containment rules (`packages/domain`) | none (pure) | `validateContainmentWrite` | cycles, depth, legacy data |
| Imports, resources, search, previews, voice | derived data, staging files | pipelines | mostly I/O |
| Web client of Local Core (`apps/web-gen2`) | reconciliation, drop, overlay machines | pure reducers | ordering of updates |
| Engine, editor and agents of `huabu` | nodes, documents, prompts | layout, rendering, text editing, model calls | geometry and I/O |

How they interact. In Local Core a route calls a service; services share the repository and
nothing else. JavaScript runs a handler without interruption up to its next `await`, so the unit of
interleaving is the segment between two awaits, and every SQLite transaction lies inside one
segment. (Continuations of an already settled promise run before any other handler does; such
awaits do not end a segment in the models.) The timer of `runtime-auto-sync-service.ts` runs
beside the handlers. Reviews write the ledger and the run in one transaction. Presentation saves,
session phases and other services publish to the event hub.

On the canvas the tab is one actor in the same sense, with timers and requests as its awaits. The
server holds a mutex per canvas across an agent's batch and across a write of a node's text, so each
is one step. The structure PUT takes no mutex and has only its compare-and-swap; its check and its
write are one step in the model too, and the rename of the canvas between them is a write of its own.
Node texts and structure are saved by two queues that share the update stream and the reload:
an agent's update moves the structure's version and replaces texts, a reload replaces everything.

What makes each part correct, in a sentence: the ledger always has one head per artifact and loses
none; a run claims only what happened at the provider; a connected client misses no event; a
retried save has one effect and undo restores what it recorded; what the user typed on the canvas
is saved or the user is told, and a save never silently replaces what somebody else wrote.

## 2. Modules

| Module | Models | Checked or proved by |
|---|---|---|
| `RevisionLedger` | the ledger, one action per transaction, workers for the callers with a snapshot; implements `ArtifactHistory` | `RevisionLedger`, `RevisionPointer`; `RevisionLedgerProofs` |
| `ArtifactHistory` | what the ledger promises: one line of history per artifact, each revision on top of the one it was made from | abstract specification |
| `RunLifecycle` | rows, suspended handlers, auto-sync, Bridge and agent, crashes; implements `RunPromise` | `RunLifecycle`, `RunRetry`, `RunAutoSync`, `RunLateResult`; `RunLifecycleProofs` |
| `RunPromise` | what Local Core promises of a run: a chain from the provider's task to the decided return, each link made once | abstract specification; `RunPromiseProofs` |
| `EventLog` | what the stream promises: views are prefixes of a log and only move forward | abstract specification |
| `ProjectEvents` | hub, SSE route, client; implements `EventLog` | `ProjectEvents`; `ProjectEventsProofs` |
| `Presentations` | one presentation with its saves, receipts, change sets and curation patches | `Presentations`, `CurationOnce`; `PresentationsProofs` |
| `NodeContent` | the texts of a canvas, the tab's queue, server, agents, other tabs, reloads | `NodeContent`, `FalseConflict`; `NodeContentProofs` |
| `StructureSave` | the structure of a canvas, its versioned save and the sync stream | `StructureSave`; `StructureSaveProofs` |
| `MC...` | the instances for TLC (model values, symmetry) | |

Some definitions are preceded by a variant of the same operation (`AcceptWithoutCas` before
`AcceptRevision`, `FailedQuietly` before `Failed`, ...). These are plausible mistakes;
`PROJECT.json` pairs each property with the one it catches. No specification uses them.

### RevisionLedger

An artifact row is a member of `exists` with its pointer in `current`; a revision row is a value
of `status`, `owner`, `parent`. A return and its draft share one identity hash, so `ret` is
indexed by the draft. The unique index `idx_revision_current` is the guard `IndexAllows`. A text
edit, an adoption and a refresh are two actions each: the read (`Begin`) and the transaction, with
`work[w]` as what the handler remembers. `commitManagedTextRevision` compares the pointer,
`adoptExternalChange` relies on the index, and `updateFileObservation` checks nothing.
`overwritten` is a history variable: the artifacts whose pointer a stale refresh put back. It
marks the one known exception of `PointerAgrees`, and finding 1 below shows it.
Demoting a row is a plain `UPDATE ... WHERE id = ?`, which does nothing to a row deleted meanwhile:
`Superseded`.
Views, file records and `graph_version` follow the same transactions and are left out. A deleted
revision id is not used again (ids are UUIDs or hashes of the content and path).

`History == INSTANCE ArtifactHistory WITH ...` maps the head of an artifact to its current *row*,
not to its pointer, so that the mapping does not depend on the pointer a stale refresh may move;
its past is the set of its superseded rows, and what a revision is made from is `parent`. A new
revision or an adopted draft must have the head as its parent, undo and redo bring one of the past
back, and everything else (reads, reject, retry, refresh) leaves the history alone.

### RunLifecycle

`call[c]` is a handler suspended in the operation `at`: a Bridge request (`createTask`, `getTask`,
...) or file I/O (`materialize`, `archive`, `settle`, `read`). It holds the review read first
(`before`, for the event comparison of `providerAction`), the binding snapshot, the cancelled flag
`ingest` read, and the reply. Each segment after an await is an action. A segment is several
transactions: each row is written in one of its own, and so is each event, after the status it
announces. Without a crash nothing comes between them; `CrashWithin` is a crash in the middle of a
segment (of `bind`, `answerInput`, a cancellation, a poll, an ingestion), and `CrashWhileDeciding`
and `CrashWhileAbandoning` one in the routes that await nothing. A crash between two events of one
comparison is left out. `unannounced` is history: the runs that were completed in a segment a crash
cut before the event, or by a retry, which announces only the new run. A successful run of the
Bridge is `BridgeServes`; `BridgeFails` is a request lost before or an answer lost after it was
served. `evidence[r]` is the status archived in the evidence file, whose exclusive creation makes it
immutable; the files of a result are a set of outputs. Accept is not guarded by the ledger's
conditions here: the run's side is checked for every order in which the ledger might allow it.

`Promise == INSTANCE RunPromise WITH ...` forgets handlers, replies and the statuses in between. It
keeps for each run whether the provider has its task, whether the binding is known, which answers
the provider has and the user is told of, what the agent submitted, the archived result, the
verdict on each output and whether the run is completed. `told` is the set of answered questions,
`done` the runs in `completed`; the other variables map to rows or to the Bridge directly.
`Reopen` is there because a late poll or answer may take a completed run back to `running`.

The Bridge is assumed to keep one task per run (idempotency key), to answer reads with its present
state, to accept an answer only for the question it asks, to cancel what is not over yet, a task
under review included, and to let an agent submit after a timeout.

### ProjectEvents

A frame carries a range of sequence numbers. `known` is history on the client's side: the events
it accounts for, one by one for a replay or an event, all at once for a snapshot. Trimming by age
may drop any prefix short of the newest event. Subscription and the answer to the reconnect
parameters are one segment in the route, hence one action. A runtime is a number that stands for
the random `runtimeId`; the sequence numbers of dead processes stay in `seq` as history.
`Log == INSTANCE EventLog WITH ...` is the refinement mapping: a client's view is what it has
accounted for, whatever its connection and the buffer do, and `ImplementsLog` is its `Spec`.

### Presentations

`row` is the one row of `presentation_views` that a capability and a scope determine. Its identity
is a function of these two, so after a deletion the next presentation has the same id and starts
again at version 0; `era` is history that tells the incarnations apart. A state is its members and
a `layout` that stands for hidden views, positions and edges. `req[c]` is the PUT a client waits
for or will send again with the same operation id; an answer may be lost (`Answer`). A PUT is one
segment in the route: `before` is read, the coordinator replays the receipt or commits, and the
membership change is recorded, which is why `PutReplayed` and `PutStored` record too. The row is committed before its change set
and its receipt, and an undo saves the presentation, deletes the text and marks the set in three
commits: `CrashWhileStoring` and `CrashWhileToggling` are crashes in between. `Expire`
covers lifetime and eviction, `Restart` the loss of all receipts and of suspended calls.
`Workspaces` are the members that are workspaces: `DeleteWorkspace` takes one out of the row in
place, under the version the row has, as `#removePresentationEntityRefs` does, and `stripped`
remembers which were lost so since the last save.
`ran` and `forgotten` are history for `OneEffect`: how often an operation was stored in the
present era, and which operations created the presentation and then lost their receipt.

`call[a]` is an `applyPatch()` suspended while it writes the drafts of new texts. Its receipt check
is in `StartPatch`, its commit in `FinishPatch`, and nothing in between looks again. The commit is
one transaction: text, presentation, change set, receipt. `views` follows the texts that patches
make, since an undo of a patch deletes the text it made unless somebody edited it.

### NodeContent

The revision of a text is its hash, so here it is the text. `timer`, `chain`, `put` are the stages
of a save in `perKeyDebouncer.ts` and `nodeContentQueue.ts`: the debounce, the flushes chained
behind the one in flight, and the request with the text read when its turn came. `base`, `frozen`,
`prompts` and `alerted` are the queue's `baselineRev`, `frozen`, and the nodes of its two toasts
(conflict and failed save). `fetch` is the GET of *Load latest*, `load` the reload of the canvas.
`updates` are broadcasts of agents: whether one fits the tab's version is the matter of
`StructureSave`, so here each update that arrives may be applied, leave a gap or be dropped. That
over-approximates the stream: every order of the real one is among them. Other tabs write without
a broadcast, as `PUT /nodes/:id` does. An empty body never wipes a stored text (`Resolved`).
`missing` are the nodes that a reload found without a sidecar; the queue drops their saves, and
a banner stands over them. A PUT that carries a label may be refused for the label, and any PUT for
duplicate files (`Reject`): the second raises a banner, the first nothing that speaks of the text.

`mine`, `told`, `known` and `touched` are history: which texts are the user's own and not
confirmed, for which a toast has said so, what the tab has held or was told to collide with, and
what others wrote. A toast counts as telling until the node is saved, even if the user dismissed
it, and the node's entry in `alerted` counts too: a failure of a background save is silent while an
earlier toast of the node may still stand. `misnamed` marks a text that went down with its label.

### StructureSave

A structure is the set of edits it contains: an edit is a change of nodes or edges that one
actor makes once, and a save replaces the stored set by the tab's. `version`, `saving`, `again` and
`conflict` are `version`, `isSaving`, `pendingSave` and `versionConflictServerVersion` of the
store. The `finally` of `saveCanvas()` runs in the same segment as the answer's branch and is part
of `Saved`, `Conflict` and `Failed`. `reconcileCanvasVersion()` is `Reconcile` and `Resolved`.
`sync.route.ts` subscribes, reads the version and sends it ahead of what was published meanwhile:
`Connect` and `SendSnapshot`. Only agents publish; a PUT of another tab does not, and the tab
learns of it from a refusal or a reconnection. `Apply` brings the agent's edit or skips it: the
tab leaves out changes to nodes whose text waits to be saved, and a batch that only reorders nodes
comes without deltas, yet the tab takes the new version in both cases. `TitleTaken` is the refusal
of the title that travels in the PUT; the title itself is no part of the structure.

`past` (the edits of every version) is history for the proofs. `silent` marks that a request
failed and only the console knows, `raced` that a reload and a PUT overlapped, `skipped` holds the
agents' edits that the tab left out; all three are known exceptions of the properties and are
described in section 5.

## 3. Runs

| Run | Instance | Shows |
|---|---|---|
| `RevisionLedger` | 2 artifacts, 4 revisions, 2 workers | one current row per artifact; pointer and returns agree with it; never headless; accept replaces its base; refinement of `ArtifactHistory` |
| `RunLifecycle` | 1 run (create or analyze), 2 handlers, 1 question, 1 output, 1 crash, between two segments or within one | bindings, answers, returns, completions and evidence have the cause they claim; completion is announced unless a crash cut it off; refinement of `RunPromise` |
| `RunRetry` | 2 revise runs, 1 handler | refinement of `RunPromise` across a retry |
| `RunAutoSync` | 1 create run, 1 handler and the loop | results and questions reach the user |
| `ProjectEvents` | 2 clients, buffer of 2, 2 processes, 3 events each | no gap, caught up, refinement of `EventLog`, delivery |
| `Presentations` | 2 clients, 2 operations, 1 agent, 2 patches (1 makes a text), 2 change sets, 2 members (1 a workspace, 1 a text), versions 0 to 2, 1 deletion | a version names one state; one effect per operation; exact undo and redo; announcements; atomic patches |
| `NodeContent` | 1 node, 3 texts (one empty), 2 typings, 1 foreign write, 2 faults, 2 replies of the user, chain of 2 | no blind overwrite, no write while frozen, updates spare pending texts, unsaved texts are on their way or announced |
| `StructureSave` | 2 edits of the user, 1 of an agent, 1 of another tab, 1 failed request or taken title, 1 broken stream | no lost edit, the gate opens again, no forgotten edit, saves end |
| `RevisionPointer`, `RunLateResult`, `CurationOnce`, `FalseConflict` | as small as shows it | four disagreements of section 5 |

Why the bounds are enough to be interesting. Four revisions allow an import, a draft from it, an
edit or adoption that makes its base stale, and a second draft; two workers race each other. Every
handler of the code works on one run, so one run with two handlers has every race; the second run
matters only to retry. One question is enough to ask, answer, lose the answer and poll late. The
buffer of two against three events makes a client fall behind, just reach, or stay inside it.
`Tracked` limits which event types are recorded, since only those a property mentions matter.

A presentation of three versions, with two change sets, can be created, changed by a second author,
undone and redone in every order, and deleted and created again with old requests, receipts and
change sets still around; its workspace can be deleted under any version and restored. Two agents
with one drafting patch overlap in `CurationOnce`. Two typings of one node put
one edit in a PUT and the next behind it, and a foreign write makes either stale; two
faults can hit the PUT, its answer, the refetch, the reload or the stream, so that a save fails
again while the toast of the first failure stands. Saves of different nodes
do not interact except through `Apply`, which re-seeds all of them, and `FalseConflict` has two
nodes for that reason. Two local edits give an edit in flight and one behind it; the other tab's
edit causes the conflict the stream cannot cover, the agent's the one it can.

Deadlock is not checked: a ledger whose revision ids are used up, a run that is over, a log that
is full, a tab whose user and agents have finished all stop, as they do in the program.

Fairness. `RunAutoSync` assumes what the loop is given: the interval timer fires, handlers are
resumed (weak fairness), and the Bridge and the file system do not fail the loop at the same point
for ever (strong fairness). The HTTP client has no timeout, so the last is an assumption about
the Bridge, not a guarantee of the code. Nothing is assumed of the other handler or of the agent.
`ProjectEvents` assumes that what was written to a connection that stays open arrives.
`NodeContent` assumes that the user pauses, so that the debounce timer fires, that chained
flushes run, and that a request is answered, by success, refusal or failure. `StructureSave`
assumes the same of its timer, requests and reloads. Nothing is assumed of the stream, of agents
or of the user's answers to toasts.

## 4. Proofs

Seven modules hold theorems. They hold for every value of the constants that satisfies the
assumption named in the module: essentially that `None` is none of the values it stands beside,
that kinds of ids do not overlap, and that bounds are numbers. Every safety property of the passing
runs is proved; liveness is not (it is beyond the proof system) and stays with TLC:
`ResultsAreCollected`, `QuestionsAreShown`, `EventsArrive`, `SavedOrTold`, `SavesEnd`.

Each proof module has an inductive invariant, one lemma per action (or group of actions) that
keeps it, and one theorem per property.

`RevisionLedgerProofs`: `LedgerInv`. The properties alone are not inductive: a stale adoption could
install a revision in an artifact that does not own it, an undo could promote a draft, a deletion
could leave a row that an accept brings back. `RowsOwned` (a present row belongs to an existing
artifact; an absent one carries no return) and `PointersOwned` (a pointer, and a snapshot of one,
names a row of its artifact that once was current) close this. `NeverHeadless` and
`AcceptReplacesItsBase` follow step by step from the invariant.

`RefinesHistory` shows that the ledger implements `ArtifactHistory`. It needs one thing more,
`HistoryHasAHead`: an artifact with superseded rows has a current one, and a draft belongs to a
return. Without the first an artifact that lost its head could be given a second history on top of
its old rows; without the second the undo of a creation could delete a draft of the history along
with the artifact. Each action then maps to one action of the history or to a stutter, and what
holds of every step of the history holds of the ledger: `EveryHeadBuildsOnTheLast` (whoever writes,
with however old a snapshot, builds on the row it replaces) and `ThePastIsKept`.

`ProjectEventsProofs`: `StreamInv`. The frames of a connection continue the client's view one after
the other, and those of a live connection end at the head of the log. `NoGap` and `CaughtUp` are
parts of it, and with it each step maps to a step of `EventLog` or a stutter (`RefinesLog`).

`RunLifecycleProofs`: what a suspended handler remembers was true when it was read, and rows may
have moved since. The argument therefore has two halves. Facts about the outside only grow: a
provider's task is never withdrawn, a heard answer stays heard, archived evidence, bindings,
recorded events, decided returns and answers stay (`BridgeGrows`, `EvidenceGrows`, `BindingGrows`,
...). And a call moves in few ways, stated once (`CallStep`), so whatever it remembers stays true:
it is bound to the task of its run (`CallsAreBound`), a reply fits what the Bridge has
(`RepliesFit`, `FoundTasksExist`, `AcknowledgedIsHeard`), and a handler past the archive holds a
review that is archived (`ReviewIsArchived`). The properties of the rows follow. That completions
are announced needs in addition that whatever completion a handler has seen was announced or is
excused (`SeenIsAnnounced`): later handlers find the run `completed` in `before`, so one that a crash
cut off from its event stays without it. It also needs that completions are tracked.

`RefinesPromise` shows that the life of each run is one of `RunPromise`, through every crash and
lost reply. It adds `ChainInv` to the invariant: handlers work on runs that exist, only such runs
are bound, and only bound runs have evidence. Most segments of a handler stutter; those that write
a row are one link each, and so are the segments a crash cuts, since no prefix of one holds two
links. `RunPromiseProofs` proves of the abstract run what the chain is worth:
every link rests on the links before it (`LinksStandOnEachOther`) and, completion apart, none is
taken back (`LinksAreKept`). Their only assumption is that `None` is not the status `"review"`.
`ActiveRunsAreVisited` is the safety half of `ResultsAreCollected`: a bound run that is not over is
always in the list that a tick works through.

`PresentationsProofs`: `Lineage` says that a version names one state. It needs to know which
operations are still in use (`IdsAreUsedOnce`), that a receipt of the present incarnation is not
ahead of the row (`ReceiptIsRecent`), and that the request a client sends again is built on a
version behind its own receipt (`RetryIsBehind`), which is why storing it twice is refused, except
for the version 0 that a creation expects and leaves behind. A deleted workspace changes the
state of a version, so what is remembered is the row's state less `stripped`; that what was stripped
is not in the row (`StrippedIsGone`) keeps this equation through the next deletion.
`NoUpdateIsLost` and `TogglesAreExact` inherit it: a save or an undo also replaces a state that has
lost a workspace since its author saw it.
`CurationIsOnceApart` assumes that no two calls work on one operation id at the same time, and shows
that each id is then committed at most once: a committed id has its receipt and no call left
(`CommittedIsOver`). The assumption is part of the theorem because the code does not enforce it.

`NodeContentProofs`: a baseline is a known text, in the queue and in a request
(`BaselinesAreKnown`); a node with a save on its way to the server is not frozen (`SavesAreThawed`);
a frozen node was announced (`FrozenIsTold`); an edit made while a save is in flight waits in the
timer or in the chain (`LaterEditsWait`); a node without a sidecar shows what was
loaded, not what was typed (`MissingIsNotMine`), which is why its dropped saves cost no text.

`StructureSaveProofs`: wherever a version is remembered (tab, PUT, answer, reload, update), what is
remembered with it covers the edits that version stored; so a PUT whose version matches replaces a
subset of what it contains, unless `raced`, and except what the tab `skipped`. From the same invariant: a tab that claims a version
holds what that version stored (`TabHoldsWhatItClaims`); `isSaving` and the gate admit one PUT at a
time (`OneSaveAtATime`); and a tab with nothing due that has the server's version shows exactly
what is stored (`QuietTabShowsTheCanvas`), which is what the stream's snapshot relies on when it
compares versions only. The first and the last except `raced`
and are to be read less `skipped`, and the last excepts `silent` too.

Three of the four violation runs have a theorem that names the one cause of the violation, so that
the counterexample is not one of many: see section 5.

Not proved: the four violation runs (they are counterexamples), liveness, and that the assumed
Bridge is the real one.

## 5. Where the code disagrees with what it says

With a run; `PROJECT.json` gives the lines and quotes:

1. `RevisionPointer`: a file refresh writes back the artifact row it read before `stat`, pointer
   included; the repository's own guard says the pointer only moves by the revision lifecycle.
   `PointerMovesOnlyByLifecycleUntilRefreshed`: on an artifact no stale refresh has overwritten,
   the guard's rule holds.
2. `RunLateResult`: the quarantine of late results tests a run read before the file I/O.
   `LateReturnsWereUnderway`: only a handler that read the run before its cancellation does this.
3. `CurationOnce`: a patch retried while the first call writes its drafts is committed twice.
   `CurationIsOnceApart`: without such an overlap it is committed once.
4. `FalseConflict`: an agent's update to one node re-seeds the save baseline of the others with
   what the tab shows, unsaved texts included, so a node nobody else wrote collides.
   It has no such theorem: a lost answer and a reload that raced a save lead to the same conflict,
   and a statement that excludes all three says little.

Met while modelling, without a run of their own. In Local Core:

- A cancellation sets the run to `cancelled` after the Bridge call without looking again, and so
  overwrites a run that completed during the call (`runtime-adapter.ts:459`).
- A poll writes back the binding it read before the request and drops a `finalize_pending` set
  meanwhile.
- A provider error skips the comparison that emits `run.failed`, `run.cancelled` and
  `run.review_ready` (`runtime-application-service.ts:346`).
- A completion and its `run.completed` are two transactions (`runtime-review-service.ts:68`,
  `runtime-application-service.ts:333`). A crash in between loses the event for ever: every later
  handler finds the run completed already. A retry completes a run without the event by design.
  `CompletionAnnounced` excepts these two, and no interleaving without a crash is a third.
- A PUT that is replayed from its receipt records a change set from the state before the replay to
  the state of the receipt, a change nobody made (`routes/presentations.ts:147`). Undo refuses it
  in most cases, because the version check fails.
- Two authors who saw no presentation both save with `expectedVersion` 0, and the second replaces
  what the first created: a row at version 0 and an absent row look alike. For the same reason the
  retry of a creation whose receipt is gone is stored again.
- After a deletion and re-creation versions start again at 0, so an old request may match. The
  properties are stated within one incarnation.
- `afterVersion` of a change set is fixed while redo moves the version, so undo, redo and undo
  again is refused (`mutation-safety-service.ts:522`).
- Deleting a workspace takes it out of every presentation without a new version and without a
  `presentation.changed` event (`metadata-repository.ts:5445`), and deletes the workspace's own
  presentation as silently (not modelled). The compare-and-swap, receipts and undo look at the
  version only: a save or an undo goes through over a state its author never saw. It cannot bring
  back a workspace that is gone, since members must exist, but one that was restored meanwhile.
- A crash within an undo leaves the presentation restored and the change set `applied`
  (`mutation-safety-service.ts:600`), with the text deleted or not. It can no longer be undone,
  because the version moved on: a text that stayed is orphaned. The same holds within a redo.
- A curation patch commits versions no `presentation.changed` event announces, and a late `fail()`
  may overwrite the receipt of a patch that was applied meanwhile.

On the canvas:

- `applyDeltasFromAgent` skips an agent's move, reparenting or deletion of a node whose text waits to
  be saved, and the order-only batches of agents carry no deltas, but the tab takes the version they
  led to (`canvasStore.ts:1572`, `1659`; `canvas-executor.ts:916`, `1068`). The next structure PUT
  passes the version check and drops the agent's change. `skipped` excludes this case.
- A refused or failing structure PUT may have renamed the canvas already (`canvas.route.ts:1211`), and a
  title that is taken leaves the structure edits of the same PUT unsent until the next edit.
- `NODE_LABEL_CONFLICT` refuses the text that shares the PUT with the label. The queue rethrows it for
  the rename path and swallows it for an autosave (`nodeContentQueue.ts:587`, `793`), so the text
  is not stored, not sent again and not announced. `misnamed` excludes this case.
- Background failures after the first are silent until a save succeeds or the user clicks Retry
  (`nodeContentQueue.ts:726`), also when the toast was dismissed, or a reload, *Load latest* or an
  update has replaced the text it was about. The model counts the first toast for the later ones.
- Only nodes with a pending save are spared by an agent's update. A node that is frozen, or whose
  save failed, has unsaved text and no pending save, so the update replaces it
  (`canvasStore.ts:1567` says an incoming write never clobbers a node the user is editing).
  A reload replaces every unsaved text in any state. In the model both end `mine`.
- A *Load latest* that fails, or a conflict toast that is dismissed, leaves the node frozen with no
  prompt on the screen, and a save that starts while a node is frozen is dropped without a word.
- Emptying a node is answered with success although the server keeps the old text.
- A refusal that arrives while a reload is in flight closes the gate after `loadCanvas()` opened
  it, and the reload that reaches the version does not open it again (`canvasStore.ts:2107`).
- A reload read before a PUT was stored and delivered after it takes back the tab's edits and its
  version; the PUT's answer then raises the version again, and the next save drops the edits
  (`canvasStore.ts:2009`). `raced` excludes this case and the one before.
- A structure PUT or a reload that fails is only logged, and tried again with the next edit;
  `silent` excludes this case.

## 6. Plan

1. Done: `RevisionLedger` with `ArtifactHistory`, `RunLifecycle` with `RunPromise`, `ProjectEvents`
   with `EventLog`, `Presentations`, `NodeContent`, `StructureSave`, and proofs of all safety
   properties and of the three refinements.
2. `NodeContent` and `StructureSave` composed over one stream, so that the version of an update
   decides what happens to the texts; deletion of nodes with a save in flight; the forced saves at
   unload.
3. `SessionLifecycle`: the phase machine under runs of two providers, with result slots.
4. `Containment`: `validateContainmentWrite` against a definition by paths.
5. The reducers of the web client that order updates.

## 7. Not modelled

- Ledger: views, file records, `graph_version`. Runs: session phase and continuity intake that
  hang on each handler, provider selection, composer columns, result slots.
- Presentations: several presentations at once, change sets of entities, relations, containment and
  viewpoints (the same check-then-apply scheme), planning of curation commands, patches that add
  and remove in several steps.
- Canvas: the labels and titles themselves (`FlushNow` stands for the flush a rename causes, `Reject`
  and `TitleTaken` for the refusal of a taken one), deletion and
  duplication of nodes, the keepalive flush at unload, leaving the canvas, and overlapping explicit
  reloads. A write of an agent and its broadcast are one step, as they are under the mutex; the
  route that reverts a change broadcasts a few continuations after it released the mutex.
- The session lifecycle, active context, attention and receivers, which keep small states of their
  own; containment rules, which are pure.
- Search, previews, OCR, voice, imports and capture are I/O around derived or foreign data. Routes
  validate and dispatch. The engine, editor, layout and agents of the canvas are geometry, text
  editing and calls of language models. The content of files, prompts, manifests and envelopes
  never matters to the properties and is abstracted to identity.
