---------------------------- MODULE RevisionLedger ----------------------------
(***************************************************************************)
(* The revision ledger of Local Core: the artifacts, artifact_revisions    *)
(* and artifact_returns tables of metadata-repository.ts and every         *)
(* transaction that moves an artifact's current revision.                  *)
(*                                                                         *)
(* A transaction (BEGIN IMMEDIATE ... COMMIT on a synchronous SQLite       *)
(* handle) is one action.  Three callers read the artifact, await file     *)
(* I/O, and only then open their transaction: managed text edits           *)
(* (text-artifact-service.ts), adoption of an external change, and the     *)
(* refresh of an observed file (file-observation-service.ts).  They are    *)
(* Workers here, and what they read before the await is their snapshot.    *)
(*                                                                         *)
(* An ArtifactReturn and its draft revision share one identity hash        *)
(* (runtime-result-ingestion.ts), so a return is indexed by its draft.     *)
(***************************************************************************)
EXTENDS Naturals, FiniteSets

CONSTANTS
    Artifacts,   \* artifact ids
    Revisions,   \* revision ids
    Workers,     \* requests that hold a snapshot across an await
    None         \* SQL NULL / undefined

ASSUME LedgerAssumption == None \notin Artifacts \cup Revisions

VARIABLES
    exists,      \* the artifacts rows present
    current,     \* artifacts.current_revision_id
    status,      \* artifact_revisions.status, or absent / deleted
    owner,       \* artifact_revisions.artifact_id
    parent,      \* artifact_revisions.parent_revision_id
    ret,         \* artifact_returns.status of the return that carries this draft
    work,        \* what each worker read before its await
    overwritten  \* history: artifacts whose pointer a stale refresh put back

ledger == <<exists, current, status, owner, parent, ret>>
vars == <<exists, current, status, owner, parent, ret, work, overwritten>>

RevisionStatus == {"absent", "draft", "current", "superseded", "deleted"}
ReturnStatus == {"none", "pending_review", "adopted", "rejected"}
Idle == [op |-> "idle", artifact |-> None, seen |-> None]
Work == [op : {"idle", "revise", "adopt", "refresh"},
         artifact : Artifacts \cup {None}, seen : Revisions \cup {None}]

TypeOK ==
    /\ exists \subseteq Artifacts
    /\ current \in [Artifacts -> Revisions \cup {None}]
    /\ status \in [Revisions -> RevisionStatus]
    /\ owner \in [Revisions -> Artifacts \cup {None}]
    /\ parent \in [Revisions -> Revisions \cup {None}]
    /\ ret \in [Revisions -> ReturnStatus]
    /\ work \in [Workers -> Work]
    /\ overwritten \subseteq Artifacts

Init ==
    /\ exists = {}
    /\ current = [a \in Artifacts |-> None]
    /\ status = [v \in Revisions |-> "absent"]
    /\ owner = [v \in Revisions |-> None]
    /\ parent = [v \in Revisions |-> None]
    /\ ret = [v \in Revisions |-> "none"]
    /\ work = [w \in Workers |-> Idle]
    /\ overwritten = {}

-----------------------------------------------------------------------------
(* Rows *)

Present(v) == status[v] \in {"draft", "current", "superseded"}
CurrentRows(a) == {v \in Revisions : owner[v] = a /\ status[v] = "current"}

\* baseRevisionId: the parent of a revise draft, the draft itself of a created one.
Base(v) == IF parent[v] = None THEN v ELSE parent[v]

Insert(v, a, p) ==
    /\ status[v] = "absent"
    /\ owner' = [owner EXCEPT ![v] = a]
    /\ parent' = [parent EXCEPT ![v] = p]

\* The partial unique index idx_revision_current: outside `leaving`, no other
\* row of the artifact may be current when a row becomes current.
IndexAllowsAll(a, leaving) == TRUE
IndexAllows(a, leaving) == CurrentRows(a) \subseteq leaving

\* UPDATE artifact_revisions SET status = 'superseded' WHERE id = v: a row that
\* was deleted stays deleted.
Superseded(v) == IF Present(v) THEN "superseded" ELSE status[v]

-----------------------------------------------------------------------------
(* Registration of sources and results *)

\* registerSource, registerImportedSource, registerTextArtifactComposite.
RegisterArtifact(a, v) ==
    /\ a \notin exists
    /\ Insert(v, a, None)
    /\ IndexAllows(a, {})
    /\ status' = [status EXCEPT ![v] = "current"]
    /\ exists' = exists \cup {a}
    /\ current' = [current EXCEPT ![a] = v]
    /\ UNCHANGED <<ret, work, overwritten>>

\* A revise result. The base was pinned when the run was created and need not
\* be the artifact's current revision any more.
CreateRuntimeDraft(v, b) ==
    /\ Present(b)
    /\ owner[b] \in exists
    /\ Insert(v, owner[b], b)
    /\ status' = [status EXCEPT ![v] = "draft"]
    /\ ret' = [ret EXCEPT ![v] = "pending_review"]
    /\ UNCHANGED <<exists, current, work, overwritten>>

\* A create result: the artifact is born without a current revision.
CreateRuntimeCreatedArtifact(a, v) ==
    /\ a \notin exists
    /\ Insert(v, a, None)
    /\ status' = [status EXCEPT ![v] = "draft"]
    /\ exists' = exists \cup {a}
    /\ current' = [current EXCEPT ![a] = None]
    /\ ret' = [ret EXCEPT ![v] = "pending_review"]
    /\ UNCHANGED <<work, overwritten>>

-----------------------------------------------------------------------------
(* Review decisions. `expected` is the client's expectedBaseRevisionId. *)

AcceptCreated(v, expected) ==
    LET a == owner[v] IN
    /\ ret[v] = "pending_review"
    /\ a \in exists
    /\ current[a] = None
    /\ parent[v] = None
    /\ expected = Base(v)
    /\ status[v] = "draft"
    /\ IndexAllows(a, {})
    /\ status' = [status EXCEPT ![v] = "current"]
    /\ current' = [current EXCEPT ![a] = v]
    /\ ret' = [ret EXCEPT ![v] = "adopted"]
    /\ UNCHANGED <<exists, owner, parent, work, overwritten>>

AcceptWithoutCas(v, expected) ==
    LET a == owner[v] IN
    /\ ret[v] = "pending_review"
    /\ a \in exists
    /\ status[v] = "draft"
    /\ status' = [x \in Revisions |-> IF x = v THEN "current"
                    ELSE IF x \in CurrentRows(a) THEN "superseded" ELSE status[x]]
    /\ current' = [current EXCEPT ![a] = v]
    /\ ret' = [ret EXCEPT ![v] = "adopted"]
    /\ UNCHANGED <<exists, owner, parent, work, overwritten>>

AcceptLeavingPointer(v, expected) ==
    LET a == owner[v] IN
    /\ ret[v] = "pending_review"
    /\ expected = Base(v)
    /\ current[a] = expected
    /\ status[expected] = "current"
    /\ status[v] = "draft"
    /\ status' = [status EXCEPT ![expected] = "superseded", ![v] = "current"]
    /\ ret' = [ret EXCEPT ![v] = "adopted"]
    /\ UNCHANGED <<exists, current, owner, parent, work, overwritten>>

AcceptRevision(v, expected) ==
    LET a == owner[v] IN
    /\ ret[v] = "pending_review"
    /\ a \in exists
    /\ expected = Base(v)
    /\ current[a] = expected
    /\ status[expected] = "current"
    /\ status[v] = "draft"
    /\ parent[v] = expected
    /\ IndexAllows(a, {expected})
    /\ status' = [status EXCEPT ![expected] = "superseded", ![v] = "current"]
    /\ current' = [current EXCEPT ![a] = v]
    /\ ret' = [ret EXCEPT ![v] = "adopted"]
    /\ UNCHANGED <<exists, owner, parent, work, overwritten>>

RejectMarksRevision(v) ==
    /\ ret[v] = "pending_review"
    /\ ret' = [ret EXCEPT ![v] = "rejected"]
    /\ status' = [status EXCEPT ![v] = "rejected"]
    /\ UNCHANGED <<exists, current, owner, parent, work, overwritten>>

Reject(v) ==
    /\ ret[v] = "pending_review"
    /\ status[v] = "draft"
    /\ ret' = [ret EXCEPT ![v] = "rejected"]
    /\ UNCHANGED <<exists, current, status, owner, parent, work, overwritten>>

RetryAnyReturn(v) ==
    /\ ret[v] # "none"
    /\ parent[v] # None
    /\ ret' = [ret EXCEPT ![v] = "rejected"]
    /\ UNCHANGED <<exists, current, status, owner, parent, work, overwritten>>

\* The ledger's half of retryArtifactReturn: the old return is rejected, its
\* draft stays. Only a revise run can be retried: the new run row copies a
\* target the create and analyze runs do not have.
Retry(v) ==
    /\ ret[v] = "pending_review"
    /\ parent[v] # None
    /\ ret' = [ret EXCEPT ![v] = "rejected"]
    /\ UNCHANGED <<exists, current, status, owner, parent, work, overwritten>>

-----------------------------------------------------------------------------
(* Undo and redo of a managed text edit (mutation-safety-service.ts).  The *)
(* target was recorded by a change set, so it once was current.            *)

RestoreForgetsTarget(a, target, expected) ==
    /\ a \in exists
    /\ current[a] = expected
    /\ expected # None
    /\ owner[target] = a
    /\ status' = [status EXCEPT ![expected] = "superseded"]
    /\ current' = [current EXCEPT ![a] = target]
    /\ UNCHANGED <<exists, owner, parent, ret, work, overwritten>>

RestoreArtifactCurrentRevision(a, target, expected) ==
    /\ a \in exists
    /\ current[a] = expected
    /\ expected # None
    /\ target # expected
    /\ owner[target] = a
    /\ status[target] \in {"current", "superseded"}
    /\ IndexAllows(a, {expected, target})
    /\ status' = [status EXCEPT ![expected] = Superseded(expected), ![target] = "current"]
    /\ current' = [current EXCEPT ![a] = target]
    /\ UNCHANGED <<exists, owner, parent, ret, work, overwritten>>

\* Undo of a text creation. The foreign keys of artifact_returns refuse it
\* while a return names the artifact.
DeleteArtifact(a) ==
    /\ a \in exists
    /\ current[a] # None
    /\ Present(current[a])
    /\ \A v \in Revisions : owner[v] = a => ret[v] = "none"
    /\ exists' = exists \ {a}
    /\ current' = [current EXCEPT ![a] = None]
    /\ status' = [v \in Revisions |->
                    IF owner[v] = a /\ Present(v) THEN "deleted" ELSE status[v]]
    /\ UNCHANGED <<owner, parent, ret, work, overwritten>>

-----------------------------------------------------------------------------
(* Callers that await between the read and the write *)

Begin(w, op, a) ==
    /\ work[w] = Idle
    /\ a \in exists
    /\ current[a] # None
    /\ Present(current[a])
    /\ work' = [work EXCEPT ![w] = [op |-> op, artifact |-> a, seen |-> current[a]]]
    /\ UNCHANGED <<exists, current, status, owner, parent, ret, overwritten>>

\* reviseManagedTextArtifact, FileObservationService.adopt and .refresh, up to
\* their first await.
ReviseManagedText(w, a) == Begin(w, "revise", a)
Adopt(w, a) == Begin(w, "adopt", a)
Refresh(w, a) == Begin(w, "refresh", a)

Finish(w) == work' = [work EXCEPT ![w] = Idle]

\* commitManagedTextRevision: compare-and-set on the current pointer.
CommitManagedTextRevision(w, v) ==
    LET a == work[w].artifact
        seen == work[w].seen IN
    /\ work[w].op = "revise"
    /\ a \in exists
    /\ current[a] = seen
    /\ IndexAllows(a, {seen})
    /\ Insert(v, a, seen)
    /\ status' = [status EXCEPT ![seen] = Superseded(seen), ![v] = "current"]
    /\ current' = [current EXCEPT ![a] = v]
    /\ Finish(w)
    /\ UNCHANGED <<exists, ret, overwritten>>

AdoptOverAnyRow(w, v) ==
    LET a == work[w].artifact IN
    /\ work[w].op = "adopt"
    /\ a \in exists
    /\ Insert(v, a, work[w].seen)
    /\ status' = [x \in Revisions |-> IF x = v THEN "current"
                    ELSE IF x \in CurrentRows(a) THEN "superseded" ELSE status[x]]
    /\ current' = [current EXCEPT ![a] = v]
    /\ Finish(w)
    /\ UNCHANGED <<exists, ret, overwritten>>

\* adoptExternalChange: no compare-and-set, only the index and the foreign key
\* on artifact_id stand between a stale snapshot and the ledger. Both revisions
\* are upserted, so the one it read comes back if it was deleted.
AdoptExternalChange(w, v) ==
    LET a == work[w].artifact
        seen == work[w].seen IN
    /\ work[w].op = "adopt"
    /\ a \in exists
    /\ IndexAllows(a, {seen})
    /\ Insert(v, a, seen)
    /\ status' = [status EXCEPT ![seen] = "superseded", ![v] = "current"]
    /\ current' = [current EXCEPT ![a] = v]
    /\ Finish(w)
    /\ UNCHANGED <<exists, ret, overwritten>>

\* updateFileObservation: upserts the whole artifact row it read before the
\* await, current_revision_id included; an upsert also brings a deleted row back.
UpdateFileObservation(w) ==
    LET a == work[w].artifact
        seen == work[w].seen IN
    /\ work[w].op = "refresh"
    /\ exists' = exists \cup {a}
    /\ current' = [current EXCEPT ![a] = seen]
    /\ overwritten' = IF a \in exists /\ current[a] = seen
                      THEN overwritten ELSE overwritten \cup {a}
    /\ Finish(w)
    /\ UNCHANGED <<status, owner, parent, ret>>

\* The I/O failed, or the transaction threw and rolled back, or the process died.
Abandon(w) ==
    /\ work[w] # Idle
    /\ Finish(w)
    /\ UNCHANGED <<exists, current, status, owner, parent, ret, overwritten>>

-----------------------------------------------------------------------------
Next ==
    \/ \E a \in Artifacts, v \in Revisions :
          RegisterArtifact(a, v) \/ CreateRuntimeCreatedArtifact(a, v)
    \/ \E v, b \in Revisions :
          CreateRuntimeDraft(v, b) \/ AcceptCreated(v, b) \/ AcceptRevision(v, b)
    \/ \E v \in Revisions : Reject(v) \/ Retry(v)
    \/ \E a \in Artifacts, t, e \in Revisions : RestoreArtifactCurrentRevision(a, t, e)
    \/ \E a \in Artifacts : DeleteArtifact(a)
    \/ \E w \in Workers, a \in Artifacts :
          ReviseManagedText(w, a) \/ Adopt(w, a) \/ Refresh(w, a)
    \/ \E w \in Workers, v \in Revisions :
          CommitManagedTextRevision(w, v) \/ AdoptExternalChange(w, v)
    \/ \E w \in Workers : UpdateFileObservation(w) \/ Abandon(w)

Spec == Init /\ [][Next]_vars

-----------------------------------------------------------------------------
(* Properties *)

\* An artifact has at most one row with status 'current', whatever the snapshots
\* of the concurrent writers (the unique index and the order of the updates).
OneCurrentRow ==
    \A a \in Artifacts : \A v, w \in CurrentRows(a) : v = w

\* artifacts.current_revision_id names the row whose status is 'current', and is
\* null only when there is none, unless a stale file refresh wrote the artifact row:
\* accept, undo, redo, text edits and adoption keep the two in step between them.
PointerAgrees ==
    \A a \in exists \ overwritten :
        /\ current[a] = None => CurrentRows(a) = {}
        /\ current[a] # None => CurrentRows(a) = {current[a]}

\* A return and its draft move together: a pending or rejected return keeps its
\* draft, an adopted one was promoted and never falls back to draft.
ReturnMatchesDraft ==
    \A v \in Revisions :
        /\ ret[v] \in {"pending_review", "rejected"} => status[v] = "draft"
        /\ ret[v] = "adopted" => status[v] \in {"current", "superseded"}

\* An artifact that has a current row never loses it without the same step
\* installing another, as long as the artifact itself is not deleted.
NeverHeadless ==
    [][\A a \in exists \cap exists' : CurrentRows(a) # {} => CurrentRows(a)' # {}]_vars

\* Accept never adopts a draft over work its author had not seen: the revision it
\* replaces is the draft's own parent, current until that very step.
AcceptReplacesItsBase ==
    [][\A v \in Revisions : ret[v] = "pending_review" /\ ret'[v] = "adopted" =>
          /\ CurrentRows(owner[v]) = {parent[v]} \ {None}
          /\ CurrentRows(owner[v])' = {v}
          /\ current'[owner[v]] = v]_vars

\* "currentRevisionId may only change through an explicit Revision lifecycle"
\* (metadata-repository.ts, #assertArtifactCurrentRevisionUnchanged): a step that
\* moves the pointer from one revision to another promotes the one it moves to.
PointerMovesOnlyByLifecycle ==
    [][\A a \in exists \cap exists' :
          current'[a] \notin {None, current[a]} =>
             status[current'[a]] # "current" /\ status'[current'[a]] = "current"]_vars

\* The history an author relies on: whoever writes (a review, an edit, an adoption
\* with a snapshot taken before its await), a revision enters an artifact once and
\* replaces the very row it was made from, and no row of the past is lost.
OneOf(S) == IF S = {} THEN None ELSE CHOOSE v \in S : TRUE
HeadOf(a) == OneOf(CurrentRows(a))
PastOf(a) == {v \in Revisions : owner[v] = a /\ status[v] = "superseded"}
headOf == [a \in Artifacts |-> HeadOf(a)]
pastOf == [a \in Artifacts |-> PastOf(a)]
drafts == {v \in Revisions : status[v] = "draft"}
written == {v \in Revisions : status[v] # "absent"}

History == INSTANCE ArtifactHistory WITH
    head <- headOf, past <- pastOf, draft <- drafts, made <- written, base <- parent

ImplementsHistory == History!Spec

-----------------------------------------------------------------------------
(* The inductive invariant behind the properties above *)

\* Rows are owned; a row that is present belongs to an artifact that exists, and
\* a row that is not present carries no return.
RowsOwned ==
    \A v \in Revisions :
        /\ status[v] # "absent" => owner[v] \in Artifacts
        /\ Present(v) => owner[v] \in exists
        /\ ~Present(v) => ret[v] = "none"

\* A pointer, and a snapshot of one, names a row of its artifact that has been
\* current at some time, so it is no draft.
PointersOwned ==
    /\ \A a \in Artifacts : current[a] # None =>
          owner[current[a]] = a /\ status[current[a]] \notin {"absent", "draft"}
    /\ \A w \in Workers : work[w].op # "idle" =>
          /\ work[w].artifact \in Artifacts
          /\ work[w].seen \in Revisions
          /\ owner[work[w].seen] = work[w].artifact
          /\ status[work[w].seen] \notin {"absent", "draft"}

\* An artifact with superseded rows has a current one, and every draft belongs to a
\* return, so that no undo of a creation takes a draft with it.
HistoryHasAHead ==
    \A v \in Revisions :
        /\ status[v] = "superseded" => CurrentRows(owner[v]) # {}
        /\ status[v] = "draft" => ret[v] \in {"pending_review", "rejected"}

RowsInv ==
    TypeOK /\ RowsOwned /\ PointersOwned /\ OneCurrentRow /\ PointerAgrees /\ ReturnMatchesDraft

LedgerInv == RowsInv /\ HistoryHasAHead

=============================================================================
