----------------------------- MODULE RunLifecycle -----------------------------
(***************************************************************************)
(* The life of a Run in Local Core: the runs, runtime_dispatches,          *)
(* runtime_bindings, run_input_requests, artifact_returns and run_events   *)
(* rows, the result evidence on disk, and the HTTP handlers that move them *)
(* while the Bridge executes the task elsewhere.                           *)
(*                                                                         *)
(* A handler runs without interruption between two awaits, so each segment *)
(* is one action and `call` holds what a suspended handler still remembers *)
(* of the rows it read.  Nothing serialises the handlers of one run: the   *)
(* routes take no lock, and the auto-sync timer runs beside them.          *)
(*                                                                         *)
(* The Bridge and its agent are outside the repository; they are modelled  *)
(* from bridge-rest-client.ts and from the results the ingestion expects.  *)
(***************************************************************************)
EXTENDS Naturals, FiniteSets

CONSTANTS
    Runs,        \* run ids
    Callers,     \* concurrent handlers: one HTTP request each, or the auto-sync loop
    Loop,        \* the auto-sync loop; not a caller when the timer is not started
    Questions,   \* input-request ids a provider may ask within a run
    Outputs,     \* (path, content hash) identities of the files a run may return
    Kinds,       \* the output intents considered
    Tracked,     \* the run_events types considered
    MaxCrashes,  \* bound on process crashes
    None         \* SQL NULL / undefined

TaskStatus == {"absent", "queued", "running", "waiting_input", "review", "failed",
               "timeout", "cancelled", "finalized"}   \* finalized: completed or retrying

ASSUME LifecycleAssumption ==
    /\ None \notin Runs \cup Questions \cup TaskStatus \cup {"ok", "none", "error"}
    /\ Kinds \subseteq {"revise", "create", "analyze"}
    /\ Tracked \subseteq {"completed", "failed", "cancelled", "review_ready"}
    /\ MaxCrashes \in Nat

VARIABLES
    run, intent,      \* runs.status and runs.output_intent
    dispatch,         \* runtime_dispatches.status
    binding,          \* runtime_bindings row by finalize_pending; no code reads provider_status
    question,         \* run_input_requests.status
    evidence,         \* providerStatus archived in result-envelope-v0.json
    ret,              \* artifact_returns.status by output
    events,           \* the types in run_events
    call, queue,      \* suspended handlers; what the auto-sync tick still has to visit
    crashes, unannounced,   \* history: the runs a crash or a retry completed with no event
    task, asked, heard, files   \* the Bridge: status, open question, answers, changed files

rows == <<run, intent, dispatch, binding, question, evidence, ret, events>>
bridge == <<task, asked, heard, files>>
faults == <<crashes, unannounced>>
vars == <<rows, call, queue, faults, bridge>>

Clients == Callers \ {Loop}

RunStatus == {"absent", "created", "queued", "running", "waiting_input",
              "completed", "failed", "cancelled"}
Remote == {"createTask", "findTask", "getTask", "getResult", "answerInput", "cancelTask",
           "finalizeReview"}
Binding == {"none", "clear", "pending"}
Reported == {"review", "waiting_input", "failed", "cancelled", "timeout"}   \* states with a result
Idle == [at |-> "idle", run |-> None, before |-> {}, binding |-> "none",
         cancelled |-> FALSE, arg |-> None, reply |-> None]
Call == [at : Remote \cup {"materialize", "archive", "settle", "read"},
         run : Runs,
         before : SUBSET Tracked,
         binding : Binding,
         cancelled : BOOLEAN,
         arg : Questions \cup {None},
         reply : TaskStatus \cup {"ok", "none", "error", None}]

TypeOK ==
    /\ run \in [Runs -> RunStatus] /\ intent \in [Runs -> Kinds]
    /\ dispatch \in [Runs -> {"none", "planned", "dispatching", "bound", "recovery_required"}]
    /\ binding \in [Runs -> Binding]
    /\ question \in [Runs -> [Questions -> {"none", "pending", "answered"}]]
    /\ evidence \in [Runs -> TaskStatus \cup {None}]
    /\ ret \in [Runs -> [Outputs -> {"none", "pending_review", "adopted", "rejected"}]]
    /\ events \in [Runs -> SUBSET Tracked]
    /\ call \in [Callers -> Call \cup {Idle}]
    /\ queue \subseteq Runs /\ crashes \in 0..MaxCrashes /\ unannounced \subseteq Runs
    /\ task \in [Runs -> TaskStatus] /\ asked \in [Runs -> Questions \cup {None}]
    /\ heard \in [Runs -> SUBSET Questions] /\ files \in [Runs -> SUBSET Outputs]

Init ==
    /\ run = [r \in Runs |-> "absent"]
    /\ intent \in [Runs -> Kinds]
    /\ dispatch = [r \in Runs |-> "none"]
    /\ binding = [r \in Runs |-> "none"]
    /\ question = [r \in Runs |-> [q \in Questions |-> "none"]]
    /\ evidence = [r \in Runs |-> None]
    /\ ret = [r \in Runs |-> [o \in Outputs |-> "none"]]
    /\ events = [r \in Runs |-> {}]
    /\ call = [c \in Callers |-> Idle]
    /\ queue = {} /\ crashes = 0 /\ unannounced = {}
    /\ task = [r \in Runs |-> "absent"]
    /\ asked = [r \in Runs |-> None]
    /\ heard = [r \in Runs |-> {}]
    /\ files = [r \in Runs |-> {}]

-----------------------------------------------------------------------------
(* Reading and writing the rows *)

IsTerminalRunStatus(s) == s \in {"completed", "failed", "cancelled"}
Reviewing(returns) == \E o \in Outputs : returns[o] = "pending_review"
ListWithoutWaiting == {r \in Runs : binding[r] # "none" /\ run[r] \in {"created", "queued", "running"}}
ListRunsNeedingSync ==
    {r \in Runs : binding[r] # "none" /\ run[r] \in {"created", "queued", "running", "waiting_input"}}

\* What canonicalStatus makes of a provider status; the others leave the run alone.
CanonicalRaw(s, r) == s
CanonicalReview(s, r) == IF s = "review" THEN "completed" ELSE s
CanonicalStatus(s, r) ==
    IF s \in {"queued", "running", "waiting_input", "failed", "cancelled"} THEN s ELSE run[r]

SetRun(r, s) == run' = [run EXCEPT ![r] = s]
SetBinding(r, b) == binding' = [binding EXCEPT ![r] = b]

Return(c) == call' = [call EXCEPT ![c] = Idle]
Record(r, types) == events' = [events EXCEPT ![r] = @ \cup (types \cap Tracked)]

\* providerAction compares the review it read first with the one it reads last; a
\* RuntimeAdapterError skips the comparison.
Phase(status, returns) ==
    {s \in Tracked : s = status \/ (s = "review_ready" /\ Reviewing(returns))}
Emit(c, r) == Record(r, Phase(run'[r], ret'[r]) \ call[c].before)

CompletesQuietly ==
    unannounced' = unannounced \cup {r \in Runs : run[r] # "completed" /\ run'[r] = "completed"}

Begin(c, r, at, b, arg) ==
    /\ call[c] = Idle
    /\ run[r] # "absent"
    /\ call' = [call EXCEPT ![c] =
          [at |-> at, run |-> r, before |-> Phase(run[r], ret[r]), binding |-> b, cancelled |-> FALSE, arg |-> arg, reply |-> None]]
    /\ UNCHANGED <<rows, faults, bridge>>

Await(c, at) == call' = [call EXCEPT ![c].at = at, ![c].reply = None, ![c].binding = "none"]

At(c, point) == call[c].at = point
Got(c) == call[c].reply \notin {None, "error"}

-----------------------------------------------------------------------------
(* Creating and dispatching *)

CreateRunWithDispatch(r) ==
    /\ run[r] = "absent"
    /\ SetRun(r, "created")
    /\ dispatch' = [dispatch EXCEPT ![r] = "planned"]
    /\ UNCHANGED <<intent, binding, question, evidence, ret, events, call, queue, faults, bridge>>

\* Both return at once when the run is already bound.
Dispatch(c, r) == binding[r] = "none" /\ Begin(c, r, "materialize", "none", None) /\ UNCHANGED queue
Recover(c, r) == binding[r] = "none" /\ Begin(c, r, "findTask", "none", None) /\ UNCHANGED queue

Materialized(c) ==
    /\ At(c, "materialize")
    /\ dispatch' = [dispatch EXCEPT ![call[c].run] = "dispatching"]
    /\ Await(c, "createTask")
    /\ UNCHANGED <<run, intent, binding, question, evidence, ret, events, queue, faults, bridge>>

\* recover() found no task for the run and creates one.
NotFound(c) ==
    /\ At(c, "findTask") /\ call[c].reply = "absent"
    /\ Await(c, "createTask")
    /\ UNCHANGED <<rows, queue, faults, bridge>>

BindBeforeInsert(c) ==
    LET r == call[c].run IN
    /\ At(c, "createTask") \/ At(c, "findTask")
    /\ Got(c) /\ call[c].reply # "absent"
    /\ dispatch' = [dispatch EXCEPT ![r] = "bound"]
    /\ Return(c)
    /\ UNCHANGED <<run, intent, binding, question, evidence, ret, events, queue, faults, bridge>>

Bind(c) ==
    LET r == call[c].run IN
    /\ At(c, "createTask") \/ At(c, "findTask")
    /\ Got(c) /\ call[c].reply # "absent"
    /\ binding[r] = "none"
    /\ SetBinding(r, "clear")
    /\ dispatch' = [dispatch EXCEPT ![r] = "bound"]
    /\ SetRun(r, CanonicalStatus(call[c].reply, r))
    /\ Return(c)
    /\ UNCHANGED <<intent, question, evidence, ret, queue, faults, bridge>>
    /\ Emit(c, r)

\* The Bridge failed, or another handler bound the run first and the INSERT throws.
DispatchFails(c) ==
    LET r == call[c].run IN
    /\ At(c, "createTask") \/ At(c, "findTask")
    /\ \/ call[c].reply = "error"
       \/ Got(c) /\ call[c].reply # "absent" /\ binding[r] # "none"
    /\ dispatch' = [dispatch EXCEPT ![r] = "recovery_required"]
    /\ Return(c)
    /\ UNCHANGED <<run, intent, binding, question, evidence, ret, events, queue, faults, bridge>>

-----------------------------------------------------------------------------
(* Synchronising: poll the task, fetch its result, archive it, apply it *)

Sync(c, r) == binding[r] # "none" /\ Begin(c, r, "getTask", binding[r], None)

TaskPolled(c) ==
    LET r == call[c].run IN
    /\ At(c, "getTask") /\ Got(c)
    /\ SetBinding(r, call[c].binding)
    /\ SetRun(r, CanonicalStatus(call[c].reply, r))
    /\ Await(c, "getResult")
    /\ UNCHANGED <<intent, dispatch, question, evidence, ret, events, queue, faults, bridge>>

NoResult(c) ==
    /\ At(c, "getResult") /\ call[c].reply = "none"
    /\ Return(c)
    /\ UNCHANGED <<run, intent, dispatch, binding, question, evidence, ret, queue, faults, bridge>>
    /\ Emit(c, call[c].run)

\* ingest() reads the run and its binding, then awaits the file system.
ResultPolled(c) ==
    LET r == call[c].run IN
    /\ At(c, "getResult") /\ Got(c) /\ call[c].reply # "none"
    /\ call' = [call EXCEPT ![c].at = "archive", ![c].binding = binding[r],
                            ![c].cancelled = (run[r] = "cancelled")]
    /\ UNCHANGED <<rows, queue, faults, bridge>>

ArchiveOverwriting(c) ==
    /\ At(c, "archive")
    /\ evidence' = [evidence EXCEPT ![call[c].run] = call[c].reply]
    /\ call' = [call EXCEPT ![c].at = "settle"]
    /\ UNCHANGED <<run, intent, dispatch, binding, question, ret, events, queue, faults, bridge>>

ArchiveOnce(c) ==
    /\ At(c, "archive")
    /\ \/ call[c].reply = "waiting_input" /\ UNCHANGED evidence
       \/ /\ call[c].reply # "waiting_input" /\ evidence[call[c].run] = None
          /\ evidence' = [evidence EXCEPT ![call[c].run] = call[c].reply]
    /\ call' = [call EXCEPT ![c].at = "settle"]
    /\ UNCHANGED <<run, intent, dispatch, binding, question, ret, events, queue, faults, bridge>>

\* Exclusive create of the evidence file; an input request has a file of its own.
ArchiveEvidence(c) ==
    LET r == call[c].run IN
    /\ At(c, "archive")
    /\ \/ call[c].reply = "waiting_input" /\ UNCHANGED evidence
       \/ /\ call[c].reply # "waiting_input"
          /\ evidence[r] \in {None, call[c].reply}
          /\ evidence' = [evidence EXCEPT ![r] = call[c].reply]
    /\ call' = [call EXCEPT ![c].at = "settle"]
    /\ UNCHANGED <<run, intent, dispatch, binding, question, ret, events, queue, faults, bridge>>

EvidenceConflict(c) ==
    /\ At(c, "archive") /\ call[c].reply # "waiting_input"
    /\ evidence[call[c].run] \notin {None, call[c].reply}
    /\ Return(c)
    /\ UNCHANGED <<rows, queue, faults, bridge>>

\* Every branch after the archive writes the binding it read before it.
Settles(c, kinds) ==
    /\ At(c, "settle") /\ call[c].reply \in kinds
    /\ SetBinding(call[c].run, call[c].binding)
    /\ UNCHANGED <<intent, dispatch, evidence, ret, queue, faults, bridge>>

WellFormed(r) ==
    CASE intent[r] = "analyze" -> files[r] = {}
      [] intent[r] = "create" -> files[r] # {}
      [] intent[r] = "revise" -> Cardinality(files[r]) = 1

\* LATE_RESULT_AFTER_CANCEL, decided on the run as ingest() first read it.
Quarantine(c) ==
    /\ Settles(c, TaskStatus) /\ call[c].cancelled
    /\ Return(c)
    /\ UNCHANGED <<run, question, events>>

\* saveRunInputRequest: a delayed sync must not reopen an answered question.
ReopeningRequest(c) ==
    LET r == call[c].run IN
    /\ Settles(c, {"waiting_input"}) /\ ~call[c].cancelled
    /\ question' = [question EXCEPT ![r][call[c].arg] = "pending"]
    /\ SetRun(r, "waiting_input")
    /\ Return(c)
    /\ UNCHANGED events
Ask(r, q) ==
    question' = [question EXCEPT ![r][q] = IF @ = "answered" THEN @ ELSE "pending"]
SaveRunInputRequest(c) ==
    LET r == call[c].run IN
    /\ Settles(c, {"waiting_input"}) /\ ~call[c].cancelled
    /\ Ask(r, call[c].arg)
    /\ SetRun(r, "waiting_input")
    /\ Return(c)
    /\ Emit(c, r)

\* updateRunOutcome, then a RuntimeAdapterError: no event.
ProviderFailed(c) ==
    /\ Settles(c, {"failed", "timeout", "cancelled"}) /\ ~call[c].cancelled
    /\ SetRun(call[c].run, IF call[c].reply = "cancelled" THEN "cancelled" ELSE "failed")
    /\ Return(c)
    /\ UNCHANGED <<question, events>>

ContractUnsupported(c) ==
    /\ Settles(c, {"review"}) /\ ~call[c].cancelled
    /\ ~WellFormed(call[c].run)
    /\ Return(c)
    /\ UNCHANGED <<run, question, events>>

Analysed(c) ==
    LET r == call[c].run IN
    /\ call[c].reply = "review" /\ ~call[c].cancelled
    /\ WellFormed(r) /\ intent[r] = "analyze"
    /\ SetRun(r, "completed")
AnalysisCompletedQuietly(c) ==
    /\ Settles(c, {"review"}) /\ Analysed(c)
    /\ Return(c)
    /\ UNCHANGED <<question, events>>
AnalysisCompleted(c) ==
    /\ Settles(c, {"review"}) /\ Analysed(c)
    /\ Return(c)
    /\ UNCHANGED question
    /\ Emit(c, call[c].run)

ReadAnyOutputs(c) ==
    /\ Settles(c, {"review"}) /\ ~call[c].cancelled
    /\ call' = [call EXCEPT ![c].at = "read", ![c].binding = "none"]
    /\ UNCHANGED <<run, question, events>>
ReadOutputs(c) ==
    LET r == call[c].run IN
    /\ Settles(c, {"review"}) /\ ~call[c].cancelled
    /\ WellFormed(r) /\ intent[r] # "analyze"
    /\ call' = [call EXCEPT ![c].at = "read", ![c].binding = "none"]
    /\ UNCHANGED <<run, question, events>>

\* createRuntimeDraft / createRuntimeCreatedArtifact, one awaited file at a time;
\* a return that exists under the same identity is replayed as it is.
CreateReturnAgain(c, o) ==
    LET r == call[c].run IN
    /\ At(c, "read") /\ o \in files[r]
    /\ ret' = [ret EXCEPT ![r][o] = "pending_review"]
    /\ Return(c)
    /\ UNCHANGED <<run, intent, dispatch, binding, question, evidence, events, queue, faults, bridge>>
Collect(c, o) ==
    LET r == call[c].run IN
    /\ At(c, "read") /\ o \in files[r]
    /\ ret[r][o] = "none"
    /\ ret' = [ret EXCEPT ![r][o] = "pending_review"]
CreateReturn(c, o) ==
    LET r == call[c].run IN
    /\ Collect(c, o)
    /\ UNCHANGED <<run, intent, dispatch, binding, question, evidence, queue, faults, bridge>>
    /\ \/ (\A p \in files[r] : ret'[r][p] # "none") /\ Return(c) /\ Emit(c, r)
       \/ (\E p \in files[r] : ret'[r][p] = "none") /\ UNCHANGED <<call, events>>

Replayed(c) ==
    LET r == call[c].run IN
    /\ At(c, "read") /\ \A p \in files[r] : ret[r][p] # "none"
    /\ Return(c)
    /\ UNCHANGED <<run, intent, dispatch, binding, question, evidence, ret, queue, faults, bridge>>
    /\ Emit(c, r)

-----------------------------------------------------------------------------
(* Answering, cancelling, finalising *)

AnswerInput(c, r, q) ==
    /\ question[r][q] = "pending" /\ run[r] = "waiting_input" /\ binding[r] # "none"
    /\ Begin(c, r, "answerInput", binding[r], q)
    /\ UNCHANGED queue

AnsweredAnyway(c) ==
    LET r == call[c].run IN
    /\ At(c, "answerInput") /\ call[c].reply # None
    /\ SetRun(r, "queued")
    /\ SetBinding(r, call[c].binding)
    /\ question' = [question EXCEPT ![r][call[c].arg] = "answered"]
    /\ Return(c)
    /\ UNCHANGED <<intent, dispatch, evidence, ret, events, queue, faults, bridge>>

Answered(c) ==
    LET r == call[c].run IN
    /\ At(c, "answerInput") /\ Got(c)
    /\ SetRun(r, "queued")
    /\ SetBinding(r, call[c].binding)
    /\ question' = [question EXCEPT ![r][call[c].arg] = "answered"]
    /\ Return(c)
    /\ UNCHANGED <<intent, dispatch, evidence, ret, queue, faults, bridge>>
    /\ Emit(c, r)

\* A run that was never bound is cancelled locally, in one segment.
Abandoned(r) ==
    /\ run[r] # "absent" /\ ~IsTerminalRunStatus(run[r]) /\ binding[r] = "none"
    /\ SetRun(r, "cancelled")
    /\ UNCHANGED <<intent, dispatch, binding, question, evidence, ret, bridge>>
CancelUnbound(r) == Abandoned(r) /\ Record(r, {"cancelled"}) /\ UNCHANGED <<call, queue, faults>>

Cancel(c, r) ==
    /\ ~IsTerminalRunStatus(run[r]) /\ binding[r] # "none"
    /\ Begin(c, r, "cancelTask", binding[r], None)
    /\ UNCHANGED queue

Cancelled(c) ==
    LET r == call[c].run IN
    /\ At(c, "cancelTask") /\ Got(c)
    /\ SetRun(r, "cancelled")
    /\ SetBinding(r, call[c].binding)
    /\ Return(c)
    /\ UNCHANGED <<intent, dispatch, question, evidence, ret, queue, faults, bridge>>
    /\ Emit(c, r)

Finalize(c, r) ==
    /\ binding[r] # "none"
    /\ Begin(c, r, "finalizeReview", binding[r], None)
    /\ UNCHANGED queue

Finalized(c) ==
    LET r == call[c].run IN
    /\ At(c, "finalizeReview") /\ Got(c)
    /\ SetBinding(r, "clear")
    /\ Return(c)
    /\ UNCHANGED <<run, intent, dispatch, question, evidence, ret, queue, faults, bridge>>
    /\ Emit(c, r)

\* A provider error, or file I/O that throws, ends the handler with no write and no event.
Fails(c) ==
    /\ \/ call[c].reply = "error" /\ ~At(c, "createTask") /\ ~At(c, "findTask")
       \/ At(c, "materialize") \/ At(c, "archive") \/ At(c, "read")
    /\ Return(c)
    /\ UNCHANGED <<rows, queue, faults, bridge>>

-----------------------------------------------------------------------------
(* Review decisions: a transaction, then the event in one of its own *)

DecideAgain(r, o, d) ==
    /\ ret[r][o] # "none"
    /\ ret' = [ret EXCEPT ![r][o] = d]
    /\ SetRun(r, "completed")
    /\ UNCHANGED <<intent, dispatch, binding, question, evidence, events, call, queue, faults, bridge>>
DecideLeavingRun(r, o, d) ==
    /\ ret[r][o] = "pending_review"
    /\ ret' = [ret EXCEPT ![r][o] = d]
    /\ binding' = [binding EXCEPT ![r] = IF @ = "none" THEN @ ELSE "pending"]
    /\ Record(r, {"completed"})
    /\ UNCHANGED <<run, intent, dispatch, question, evidence, call, queue, faults, bridge>>
Decided(r, o, d) ==
    /\ ret[r][o] = "pending_review"
    /\ ret' = [ret EXCEPT ![r][o] = d]
    /\ SetRun(r, "completed")
    /\ binding' = [binding EXCEPT ![r] = IF @ = "none" THEN @ ELSE "pending"]
    /\ UNCHANGED <<intent, dispatch, question, evidence, bridge>>
Decide(r, o, d) ==
    Decided(r, o, d) /\ Record(r, {"completed"}) /\ UNCHANGED <<call, queue, faults>>

Accept(r, o) == Decide(r, o, "adopted")
Reject(r, o) == Decide(r, o, "rejected")

\* retryArtifactReturn rejects the return and queues a new run of the same kind.
RetryKeepingReturn(r, o, n) ==
    /\ ret[r][o] = "pending_review" /\ intent[r] = "revise"
    /\ run[n] = "absent" /\ intent[n] = "revise"
    /\ run' = [run EXCEPT ![r] = "completed", ![n] = "created"]
    /\ dispatch' = [dispatch EXCEPT ![n] = "planned"]
    /\ UNCHANGED <<intent, binding, question, evidence, ret, events, call, queue, faults, bridge>>
Retry(r, o, n) ==
    /\ ret[r][o] = "pending_review" /\ intent[r] = "revise"
    /\ run[n] = "absent" /\ intent[n] = "revise"
    /\ ret' = [ret EXCEPT ![r][o] = "rejected"]
    /\ run' = [run EXCEPT ![r] = "completed", ![n] = "created"]
    /\ dispatch' = [dispatch EXCEPT ![n] = "planned"]
    /\ binding' = [binding EXCEPT ![r] = IF @ = "none" THEN @ ELSE "pending"]
    /\ CompletesQuietly
    /\ UNCHANGED <<intent, question, evidence, events, call, queue, crashes, bridge>>

-----------------------------------------------------------------------------
(* The auto-sync timer: one tick at a time, one run at a time *)

AutoTick ==
    /\ Loop \in Callers /\ call[Loop] = Idle /\ queue = {} /\ ListRunsNeedingSync # {}
    /\ queue' = ListRunsNeedingSync
    /\ UNCHANGED <<rows, call, faults, bridge>>

AutoSync(r) == r \in queue /\ queue' = queue \ {r} /\ Sync(Loop, r)

-----------------------------------------------------------------------------
(* The Bridge and its agent *)

Reply(c, v) == call' = [call EXCEPT ![c].reply = v]

\* Requests are idempotent by run: one task per run.
ServeCreate(c) ==
    LET r == call[c].run
        s == IF task[r] = "absent" THEN "queued" ELSE task[r] IN
    /\ At(c, "createTask")
    /\ task' = [task EXCEPT ![r] = s]
    /\ Reply(c, s)
    /\ UNCHANGED <<asked, heard, files>>

ServeRead(c) ==
    LET r == call[c].run IN
    /\ \/ (At(c, "findTask") \/ At(c, "getTask")) /\ Reply(c, task[r])
       \/ /\ At(c, "getResult")
          /\ IF task[r] \in Reported
             THEN call' = [call EXCEPT ![c].reply = task[r], ![c].arg = asked[r]]
             ELSE Reply(c, "none")
    /\ UNCHANGED bridge

ServeAnswer(c) ==
    LET r == call[c].run
        q == call[c].arg IN
    /\ At(c, "answerInput")
    /\ \/ /\ task[r] = "waiting_input" /\ asked[r] = q
          /\ task' = [task EXCEPT ![r] = "queued"]
          /\ asked' = [asked EXCEPT ![r] = None]
          /\ heard' = [heard EXCEPT ![r] = @ \cup {q}]
          /\ Reply(c, "ok")
       \/ asked[r] # q /\ UNCHANGED <<task, asked, heard>> /\ Reply(c, "error")
       \/ q \in heard[r] /\ UNCHANGED <<task, asked, heard>> /\ Reply(c, "ok")
    /\ UNCHANGED files

ServeCancel(c) ==
    LET r == call[c].run IN
    /\ At(c, "cancelTask")
    /\ IF task[r] \in {"queued", "running", "waiting_input", "review", "cancelled"}
       THEN /\ task' = [task EXCEPT ![r] = "cancelled"]
            /\ asked' = [asked EXCEPT ![r] = None]
            /\ Reply(c, "ok")
       ELSE UNCHANGED <<task, asked>> /\ Reply(c, "error")
    /\ UNCHANGED <<heard, files>>

ServeFinalize(c) ==
    LET r == call[c].run IN
    /\ At(c, "finalizeReview")
    /\ IF task[r] = "review"
       THEN task' = [task EXCEPT ![r] = "finalized"] /\ Reply(c, "ok")
       ELSE UNCHANGED task /\ Reply(c, "error")
    /\ UNCHANGED <<asked, heard, files>>

BridgeServes(c) ==
    /\ call[c].reply = None
    /\ ServeCreate(c) \/ ServeRead(c) \/ ServeAnswer(c) \/ ServeCancel(c) \/ ServeFinalize(c)
    /\ UNCHANGED <<rows, queue, faults>>

\* The request is lost, or it was served and its answer is lost.
BridgeFails(c) ==
    /\ call[c].at \in Remote /\ call[c].reply # "error"
    /\ Reply(c, "error")
    /\ UNCHANGED <<rows, queue, faults, bridge>>

AgentRuns(r) ==
    /\ task[r] = "queued"
    /\ task' = [task EXCEPT ![r] = "running"]
    /\ UNCHANGED <<asked, heard, files>>

AgentAsks(r, q) ==
    /\ task[r] = "running" /\ q \notin heard[r]
    /\ task' = [task EXCEPT ![r] = "waiting_input"]
    /\ asked' = [asked EXCEPT ![r] = q]
    /\ UNCHANGED <<heard, files>>

\* An agent may still submit after the Bridge has declared the task timed out.
AgentSubmits(r, fs) ==
    /\ task[r] \in {"running", "timeout"}
    /\ task' = [task EXCEPT ![r] = "review"]
    /\ files' = [files EXCEPT ![r] = fs]
    /\ UNCHANGED <<asked, heard>>

AgentFails(r, s) ==
    /\ task[r] = "running"
    /\ task' = [task EXCEPT ![r] = s]
    /\ UNCHANGED <<asked, heard, files>>

AgentStep ==
    /\ \E r \in Runs :
          \/ AgentRuns(r)
          \/ \E q \in Questions : AgentAsks(r, q)
          \/ \E fs \in SUBSET Outputs : AgentSubmits(r, fs)
          \/ \E s \in {"failed", "timeout"} : AgentFails(r, s)
    /\ UNCHANGED <<rows, call, queue, faults>>

-----------------------------------------------------------------------------
(* Crashes: the rows survive, the handlers do not *)

\* A handler writes each row, and each event, in a transaction of its own: a crash
\* keeps those written before it.
ForgetCalls ==
    /\ crashes < MaxCrashes /\ crashes' = crashes + 1
    /\ call' = [c \in Callers |-> Idle]
    /\ queue' = {}
    /\ CompletesQuietly

Crash == UNCHANGED <<rows, bridge>> /\ ForgetCalls

CrashWhileBinding(c) ==
    LET r == call[c].run IN
    /\ At(c, "createTask") \/ At(c, "findTask")
    /\ Got(c) /\ call[c].reply # "absent" /\ binding[r] = "none"
    /\ SetBinding(r, "clear")
    /\ \/ UNCHANGED <<dispatch, run>>
       \/ /\ dispatch' = [dispatch EXCEPT ![r] = "bound"]
          /\ UNCHANGED run \/ SetRun(r, CanonicalStatus(call[c].reply, r))
    /\ UNCHANGED <<question, ret, events>>

CrashWhileAnswering(c) ==
    LET r == call[c].run IN
    /\ At(c, "answerInput") /\ Got(c)
    /\ SetRun(r, "queued")
    /\ UNCHANGED <<dispatch, question, ret>>
    /\ \/ UNCHANGED <<binding, events>>
       \/ SetBinding(r, call[c].binding) /\ (UNCHANGED events \/ Emit(c, r))

CrashWhileCancelling(c) ==
    LET r == call[c].run IN
    /\ At(c, "cancelTask") /\ Got(c)
    /\ SetRun(r, "cancelled")
    /\ UNCHANGED binding \/ SetBinding(r, call[c].binding)
    /\ UNCHANGED <<dispatch, question, ret, events>>

\* A poll writes the binding before the run, finalize() before its event.
CrashAfterBinding(c) ==
    LET r == call[c].run IN
    /\ \/ At(c, "getTask") /\ Got(c) /\ SetBinding(r, call[c].binding)
       \/ At(c, "finalizeReview") /\ Got(c) /\ SetBinding(r, "clear")
    /\ UNCHANGED <<run, dispatch, question, ret, events>>

CrashWhileSettling(c) ==
    LET r == call[c].run IN
    /\ At(c, "settle")
    /\ SetBinding(r, call[c].binding)
    /\ \/ UNCHANGED <<run, question>>
       \/ /\ call[c].reply = "waiting_input" /\ ~call[c].cancelled
          /\ Ask(r, call[c].arg)
          /\ UNCHANGED run \/ SetRun(r, "waiting_input")
       \/ Analysed(c) /\ UNCHANGED question
    /\ UNCHANGED <<dispatch, ret, events>>

CrashWhileCollecting(c) ==
    /\ \E o \in Outputs : Collect(c, o)
    /\ UNCHANGED <<run, dispatch, binding, question, events>>

CrashWithin(c) ==
    /\ \/ CrashWhileBinding(c) \/ CrashWhileAnswering(c) \/ CrashWhileCancelling(c)
       \/ CrashAfterBinding(c) \/ CrashWhileSettling(c) \/ CrashWhileCollecting(c)
    /\ UNCHANGED <<intent, evidence, bridge>>
    /\ ForgetCalls

\* The routes that await nothing have one event to lose.
CrashWhileDeciding(r, o, d) == Decided(r, o, d) /\ UNCHANGED events /\ ForgetCalls
CrashWhileAbandoning(r) == Abandoned(r) /\ UNCHANGED events /\ ForgetCalls

-----------------------------------------------------------------------------
Request(c, r) ==
    \/ Dispatch(c, r) \/ Recover(c, r) \/ Cancel(c, r)
    \/ Sync(c, r) /\ UNCHANGED queue
    \/ \E q \in Questions : AnswerInput(c, r, q)
    \/ Finalize(c, r)

Resume(c) ==
    \/ Materialized(c) \/ NotFound(c) \/ Bind(c) \/ DispatchFails(c)
    \/ TaskPolled(c) \/ NoResult(c) \/ ResultPolled(c)
    \/ ArchiveEvidence(c) \/ EvidenceConflict(c)
    \/ Quarantine(c) \/ SaveRunInputRequest(c) \/ ProviderFailed(c)
    \/ ContractUnsupported(c) \/ AnalysisCompleted(c) \/ ReadOutputs(c)
    \/ (\E o \in Outputs : CreateReturn(c, o)) \/ Replayed(c)
    \/ Answered(c) \/ Cancelled(c) \/ Finalized(c) \/ Fails(c)

Review(r, o) == Accept(r, o) \/ Reject(r, o) \/ \E n \in Runs : Retry(r, o, n)

Next ==
    \/ \E r \in Runs : CreateRunWithDispatch(r) \/ CancelUnbound(r) \/ AutoSync(r)
    \/ \E c \in Clients, r \in Runs : Request(c, r)
    \/ \E c \in Callers : Resume(c) \/ BridgeServes(c) \/ BridgeFails(c)
    \/ \E r \in Runs, o \in Outputs : Review(r, o)
    \/ AutoTick
    \/ AgentStep
    \/ Crash
    \/ \E c \in Callers : CrashWithin(c)
    \/ \E r \in Runs : CrashWhileAbandoning(r)
    \/ \E r \in Runs, o \in Outputs, d \in {"adopted", "rejected"} : CrashWhileDeciding(r, o, d)

Spec == Init /\ [][Next]_vars

\* What the auto-sync loop is given: the timer keeps firing, the process keeps
\* running, every request of the loop is answered some day, and neither the Bridge
\* nor the file system fails it at the same point for ever.
Fairness ==
    /\ WF_vars(AutoTick) /\ \A r \in Runs : WF_vars(AutoSync(r))
    /\ WF_vars(Resume(Loop))
    /\ SF_vars(At(Loop, "getTask") /\ BridgeServes(Loop))
    /\ SF_vars(At(Loop, "getResult") /\ BridgeServes(Loop))
    /\ SF_vars(TaskPolled(Loop))
    /\ SF_vars(NoResult(Loop) \/ ResultPolled(Loop))
    /\ SF_vars(ArchiveEvidence(Loop))
    /\ SF_vars(Replayed(Loop) \/ \E o \in Outputs : CreateReturn(Loop, o))

FairSpec == Spec /\ Fairness

-----------------------------------------------------------------------------
(* Safety *)

\* A run is bound only to a task the Bridge has, and a dispatch is called bound
\* only when the binding row is there, through lost replies, crashes inside bind()
\* and recovery by lookup.
BoundToATask ==
    \A r \in Runs :
        /\ binding[r] # "none" => task[r] # "absent"
        /\ dispatch[r] = "bound" => binding[r] # "none"

\* A question marked answered was delivered: the local row follows the Bridge's
\* acknowledgement, never a lost or refused request.
AnswerReachedTheProvider ==
    \A r \in Runs, q \in Questions : question[r][q] = "answered" => q \in heard[r]

\* Returns come only from an archived review result that declares the file, and an
\* analyze run, which may change nothing, has none.
ReturnsComeFromReview ==
    \A r \in Runs, o \in Outputs :
        ret[r][o] # "none" =>
            evidence[r] = "review" /\ o \in files[r] /\ intent[r] # "analyze"

\* A run is completed only by a decision on one of its returns or by an archived
\* analysis, whatever the polls in flight report.
CompletedHasACause ==
    \A r \in Runs : run[r] = "completed" =>
        \/ \E o \in Outputs : ret[r][o] \in {"adopted", "rejected"}
        \/ intent[r] = "analyze" /\ evidence[r] = "review"

\* A completed run has its event, though the event is a transaction of its own and
\* each handler only compares what it read first with what it reads last.  Excepted
\* are the runs completed by a retry, which announces the new run alone, or in a
\* segment that a crash cut.
CompletionAnnounced ==
    \A r \in Runs : run[r] = "completed" => "completed" \in events[r] \/ r \in unannounced

-----------------------------------------------------------------------------
(* What a step may never do *)

\* "A delayed provider sync must never reopen a question the user already answered"
\* (saveRunInputRequest).
AnswersStay ==
    [][\A r \in Runs, q \in Questions :
          question[r][q] = "answered" => question'[r][q] = "answered"]_vars

\* A decided return is never put back under review by a replayed or late ingestion.
DecisionsStay ==
    [][\A r \in Runs, o \in Outputs :
          ret[r][o] \in {"adopted", "rejected"} => ret'[r][o] = ret[r][o]]_vars

\* Archived result evidence is immutable, also when a task that timed out is
\* submitted after all.
EvidenceStays == [][\A r \in Runs : evidence[r] # None => evidence'[r] = evidence[r]]_vars

\* The life of a run as its user sees it, whatever handlers, polls, lost replies and
\* crashes interleave: handed over, bound, asked and answered, archived, proposed and
\* decided, each once, each on the one before; a decision completes its run at once.
handedOver == {r \in Runs : task[r] # "absent"}
bound == {r \in Runs : binding[r] # "none"}
told == [r \in Runs |-> {q \in Questions : question[r][q] = "answered"}]
done == {r \in Runs : run[r] = "completed"}

Promise == INSTANCE RunPromise WITH
    Results <- Reported \ {"waiting_input"}, handed <- handedOver, result <- evidence, verdict <- ret

ImplementsPromise == Promise!Spec

-----------------------------------------------------------------------------
(* Liveness: what the auto-sync loop is for *)

Active(r) == binding[r] # "none" /\ ~IsTerminalRunStatus(run[r])

\* A well-formed result under review is collected without anyone asking, unless
\* the run ends or other evidence was archived first.
ResultsAreCollected ==
    \A r \in Runs :
        task[r] = "review" /\ WellFormed(r) /\ Active(r)
          ~> \/ \E o \in Outputs : ret[r][o] # "none"
             \/ ~Active(r)
             \/ task[r] # "review"
             \/ evidence[r] \notin {None, "review"}

\* A question the agent is blocked on reaches the user, unless the run ends or the
\* agent stops waiting.
QuestionsAreShown ==
    \A r \in Runs, q \in Questions :
        asked[r] = q /\ Active(r) ~> question[r][q] # "none" \/ ~Active(r) \/ asked[r] # q

-----------------------------------------------------------------------------
(* What the repository says of itself and the code does not do *)

\* "Cancelled Run result was archived but cannot create a Draft."
\* (runtime-result-ingestion.ts)
LateResultQuarantined ==
    [][\A r \in Runs, o \in Outputs :
          run[r] = "cancelled" /\ ret[r][o] = "none" => ret'[r][o] = "none"]_vars

=============================================================================
