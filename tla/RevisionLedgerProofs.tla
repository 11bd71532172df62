------------------------- MODULE RevisionLedgerProofs -------------------------
(***************************************************************************)
(* LedgerInv is an invariant of RevisionLedger for every set of artifacts, *)
(* revisions and concurrent writers, and with it the two action properties *)
(* that the runs check on a small instance.                                *)
(***************************************************************************)
EXTENDS RevisionLedger, TLAPS

\* The tables start empty.
LEMMA InitRows == Init => RowsInv
BY LedgerAssumption DEF Init, RowsInv, TypeOK, RowsOwned, PointersOwned, OneCurrentRow,
      PointerAgrees, ReturnMatchesDraft, CurrentRows, Present, RevisionStatus, ReturnStatus,
      Idle, Work

\* Each transaction preserves the invariant: registration of a source.
LEMMA RegisterArtifactInv ==
    ASSUME RowsInv, NEW a \in Artifacts, NEW v \in Revisions, RegisterArtifact(a, v)
    PROVE  RowsInv'
BY LedgerAssumption DEF RegisterArtifact, Insert, IndexAllows, RowsInv, TypeOK, RowsOwned,
      PointersOwned, OneCurrentRow, PointerAgrees, ReturnMatchesDraft, CurrentRows, Present,
      RevisionStatus, ReturnStatus

\* A revise result enters as a draft and leaves every current row alone.
LEMMA CreateRuntimeDraftInv ==
    ASSUME RowsInv, NEW v \in Revisions, NEW b \in Revisions, CreateRuntimeDraft(v, b)
    PROVE  RowsInv'
BY LedgerAssumption DEF CreateRuntimeDraft, Insert, RowsInv, TypeOK, RowsOwned, PointersOwned, OneCurrentRow,
      PointerAgrees, ReturnMatchesDraft, CurrentRows, Present, RevisionStatus, ReturnStatus

\* A create result makes an artifact without a current row.
LEMMA CreateRuntimeCreatedArtifactInv ==
    ASSUME RowsInv, NEW a \in Artifacts, NEW v \in Revisions, CreateRuntimeCreatedArtifact(a, v)
    PROVE  RowsInv'
BY LedgerAssumption DEF CreateRuntimeCreatedArtifact, Insert, RowsInv, TypeOK, RowsOwned, PointersOwned, OneCurrentRow,
      PointerAgrees, ReturnMatchesDraft, CurrentRows, Present, RevisionStatus, ReturnStatus

\* Accepting a created artifact gives it its first current row.
LEMMA AcceptCreatedInv ==
    ASSUME RowsInv, NEW v \in Revisions, NEW e \in Revisions, AcceptCreated(v, e)
    PROVE  RowsInv'
BY LedgerAssumption DEF AcceptCreated, IndexAllows, Base, RowsInv, TypeOK, RowsOwned, PointersOwned, OneCurrentRow,
      PointerAgrees, ReturnMatchesDraft, CurrentRows, Present, RevisionStatus, ReturnStatus

\* Accepting a revise result replaces the one current row by the draft.
LEMMA AcceptRevisionInv ==
    ASSUME RowsInv, NEW v \in Revisions, NEW e \in Revisions, AcceptRevision(v, e)
    PROVE  RowsInv'
BY LedgerAssumption DEF AcceptRevision, IndexAllows, Base, RowsInv, TypeOK, RowsOwned, PointersOwned, OneCurrentRow,
      PointerAgrees, ReturnMatchesDraft, CurrentRows, Present, RevisionStatus, ReturnStatus

\* Reject touches the return only.
LEMMA RejectInv ==
    ASSUME RowsInv, NEW v \in Revisions, Reject(v)
    PROVE  RowsInv'
BY LedgerAssumption DEF Reject, RowsInv, TypeOK, RowsOwned, PointersOwned, OneCurrentRow,
      PointerAgrees, ReturnMatchesDraft, CurrentRows, Present, RevisionStatus, ReturnStatus

\* Retry touches the return only.
LEMMA RetryInv ==
    ASSUME RowsInv, NEW v \in Revisions, Retry(v)
    PROVE  RowsInv'
BY LedgerAssumption DEF Retry, RowsInv, TypeOK, RowsOwned, PointersOwned, OneCurrentRow,
      PointerAgrees, ReturnMatchesDraft, CurrentRows, Present, RevisionStatus, ReturnStatus

\* Undo and redo move the pointer and the current row together.
LEMMA RestoreArtifactCurrentRevisionInv ==
    ASSUME RowsInv, NEW a \in Artifacts, NEW t \in Revisions, NEW e \in Revisions, RestoreArtifactCurrentRevision(a, t, e)
    PROVE  RowsInv'
BY LedgerAssumption DEF RestoreArtifactCurrentRevision, Superseded, IndexAllows, RowsInv, TypeOK, RowsOwned, PointersOwned, OneCurrentRow,
      PointerAgrees, ReturnMatchesDraft, CurrentRows, Present, RevisionStatus, ReturnStatus

\* Undoing a creation removes the artifact with all its rows.
LEMMA DeleteArtifactInv ==
    ASSUME RowsInv, NEW a \in Artifacts, DeleteArtifact(a)
    PROVE  RowsInv'
BY LedgerAssumption DEF DeleteArtifact, RowsInv, TypeOK, RowsOwned, PointersOwned, OneCurrentRow,
      PointerAgrees, ReturnMatchesDraft, CurrentRows, Present, RevisionStatus, ReturnStatus

\* A text edit commits only over the revision it read.
LEMMA CommitManagedTextRevisionInv ==
    ASSUME RowsInv, NEW w \in Workers, NEW v \in Revisions, CommitManagedTextRevision(w, v)
    PROVE  RowsInv'
<1> USE LedgerAssumption DEF RowsInv
<1>1. PICK a \in Artifacts, seen \in Revisions :
        /\ a = work[w].artifact /\ seen = work[w].seen
        /\ owner[seen] = a
        /\ status[seen] \notin {"absent", "draft"}
  BY DEF CommitManagedTextRevision, PointersOwned
<1>2. /\ a \in exists /\ current[a] = seen /\ status[v] = "absent" /\ v # seen
      /\ CurrentRows(a) \subseteq {seen}
      /\ status' = [status EXCEPT ![seen] = Superseded(seen), ![v] = "current"]
      /\ current' = [current EXCEPT ![a] = v]
      /\ owner' = [owner EXCEPT ![v] = a]
      /\ parent' = [parent EXCEPT ![v] = seen]
      /\ work' = [work EXCEPT ![w] = Idle]
      /\ exists' = exists /\ ret' = ret /\ overwritten' = overwritten
  BY <1>1 DEF CommitManagedTextRevision, IndexAllows, Insert, Finish
<1>. /\ Superseded(seen) \in {"superseded", "deleted"}
     /\ Superseded(seen) = "superseded" <=> status[seen] \in {"current", "superseded"}
  BY <1>1 DEF Superseded, Present, TypeOK, RevisionStatus
<1>3. TypeOK'
  BY <1>1, <1>2 DEF TypeOK, RevisionStatus, Work, Idle
<1>4. RowsOwned' /\ ReturnMatchesDraft'
  BY <1>1, <1>2 DEF TypeOK, RowsOwned, ReturnMatchesDraft, Present, RevisionStatus
<1>5. PointersOwned'
  BY <1>1, <1>2 DEF TypeOK, PointersOwned, Idle
<1>6. CurrentRows(a)' = {v} /\ \A b \in Artifacts \ {a} : CurrentRows(b)' = CurrentRows(b)
  BY <1>1, <1>2 DEF TypeOK, CurrentRows
<1>7. OneCurrentRow'
  BY <1>1, <1>6 DEF OneCurrentRow
<1>8. PointerAgrees'
  BY <1>1, <1>2, <1>6 DEF TypeOK, PointerAgrees
<1> QED BY <1>3, <1>4, <1>5, <1>7, <1>8

\* An adoption commits only when the index lets its row become current.
LEMMA AdoptExternalChangeInv ==
    ASSUME RowsInv, NEW w \in Workers, NEW v \in Revisions, AdoptExternalChange(w, v)
    PROVE  RowsInv'
BY LedgerAssumption DEF AdoptExternalChange, IndexAllows, Insert, Finish, Work, Idle, RowsInv, TypeOK, RowsOwned, PointersOwned, OneCurrentRow,
      PointerAgrees, ReturnMatchesDraft, CurrentRows, Present, RevisionStatus, ReturnStatus

\* A refresh may put an old pointer back, and the history records it.
LEMMA UpdateFileObservationInv ==
    ASSUME RowsInv, NEW w \in Workers, UpdateFileObservation(w)
    PROVE  RowsInv'
BY LedgerAssumption DEF UpdateFileObservation, Finish, Work, Idle, RowsInv, TypeOK, RowsOwned, PointersOwned, OneCurrentRow,
      PointerAgrees, ReturnMatchesDraft, CurrentRows, Present, RevisionStatus, ReturnStatus

\* A request that fails leaves the ledger alone.
LEMMA AbandonInv ==
    ASSUME RowsInv, NEW w \in Workers, Abandon(w)
    PROVE  RowsInv'
BY LedgerAssumption DEF Abandon, Finish, Work, Idle, RowsInv, TypeOK, RowsOwned, PointersOwned, OneCurrentRow,
      PointerAgrees, ReturnMatchesDraft, CurrentRows, Present, RevisionStatus, ReturnStatus

\* A request takes its snapshot.
LEMMA BeginInv ==
    ASSUME RowsInv, NEW w \in Workers, NEW a \in Artifacts,
           NEW op \in {"revise", "adopt", "refresh"}, Begin(w, op, a)
    PROVE  RowsInv'
BY LedgerAssumption DEF Begin, Work, Idle, RowsInv, TypeOK, RowsOwned, PointersOwned, OneCurrentRow,
      PointerAgrees, ReturnMatchesDraft, CurrentRows, Present, RevisionStatus, ReturnStatus

-----------------------------------------------------------------------------
(* The rows of the tables agree *)

\* A step that changes no variable preserves the invariant.
LEMMA StutterInv == RowsInv /\ UNCHANGED vars => RowsInv'
BY DEF vars, RowsInv, TypeOK, RowsOwned, PointersOwned, OneCurrentRow, PointerAgrees,
       ReturnMatchesDraft, CurrentRows, Present

\* Every step of the ledger preserves the invariant: one case per transaction.
LEMMA NextRows == RowsInv /\ [Next]_vars => RowsInv'
<1> SUFFICES ASSUME RowsInv, [Next]_vars PROVE RowsInv'
  OBVIOUS
<1>1. ASSUME NEW a \in Artifacts, NEW v \in Revisions,
             RegisterArtifact(a, v) \/ CreateRuntimeCreatedArtifact(a, v)
      PROVE  RowsInv'
  BY <1>1, RegisterArtifactInv, CreateRuntimeCreatedArtifactInv
<1>2. ASSUME NEW v \in Revisions, NEW b \in Revisions,
             CreateRuntimeDraft(v, b) \/ AcceptCreated(v, b) \/ AcceptRevision(v, b)
      PROVE  RowsInv'
  BY <1>2, CreateRuntimeDraftInv, AcceptCreatedInv, AcceptRevisionInv
<1>3. ASSUME NEW v \in Revisions, Reject(v) \/ Retry(v)
      PROVE  RowsInv'
  BY <1>3, RejectInv, RetryInv
<1>4. ASSUME NEW a \in Artifacts, NEW t \in Revisions, NEW e \in Revisions,
             RestoreArtifactCurrentRevision(a, t, e)
      PROVE  RowsInv'
  BY <1>4, RestoreArtifactCurrentRevisionInv
<1>5. ASSUME NEW a \in Artifacts, DeleteArtifact(a)
      PROVE  RowsInv'
  BY <1>5, DeleteArtifactInv
<1>6. ASSUME NEW w \in Workers, NEW a \in Artifacts,
             ReviseManagedText(w, a) \/ Adopt(w, a) \/ Refresh(w, a)
      PROVE  RowsInv'
  BY <1>6, BeginInv DEF ReviseManagedText, Adopt, Refresh
<1>7. ASSUME NEW w \in Workers, NEW v \in Revisions,
             CommitManagedTextRevision(w, v) \/ AdoptExternalChange(w, v)
      PROVE  RowsInv'
  BY <1>7, CommitManagedTextRevisionInv, AdoptExternalChangeInv
<1>8. ASSUME NEW w \in Workers, UpdateFileObservation(w) \/ Abandon(w)
      PROVE  RowsInv'
  BY <1>8, UpdateFileObservationInv, AbandonInv
<1> QED
  BY <1>1, <1>2, <1>3, <1>4, <1>5, <1>6, <1>7, <1>8, StutterInv DEF Next

-----------------------------------------------------------------------------
(* No step leaves an artifact without a current row *)

\* What one step may do to the current rows of an artifact that survives it.
KeepsHead ==
    \A a \in exists \cap exists' : CurrentRows(a) # {} => CurrentRows(a)' # {}

\* A step that keeps the status and the owner of every row keeps the current rows.
LEMMA SameRows ==
    ASSUME status' = status, owner' = owner
    PROVE  KeepsHead
BY DEF KeepsHead, CurrentRows

\* A step that promotes some row of every artifact whose current rows it demotes
\* leaves no artifact headless.
LEMMA StepKeepsHead == RowsInv /\ [Next]_vars => KeepsHead
<1> SUFFICES ASSUME RowsInv, [Next]_vars PROVE KeepsHead
  OBVIOUS
<1> USE LedgerAssumption
<1>1. ASSUME NEW a \in Artifacts, NEW v \in Revisions, RegisterArtifact(a, v)
      PROVE  KeepsHead
  BY <1>1 DEF RegisterArtifact, Insert, KeepsHead, CurrentRows, RowsInv, TypeOK
<1>2. ASSUME NEW a \in Artifacts, NEW v \in Revisions, CreateRuntimeCreatedArtifact(a, v)
      PROVE  KeepsHead
  BY <1>2 DEF CreateRuntimeCreatedArtifact, Insert, KeepsHead, CurrentRows, RowsInv, TypeOK
<1>3. ASSUME NEW v \in Revisions, NEW b \in Revisions, CreateRuntimeDraft(v, b)
      PROVE  KeepsHead
  BY <1>3 DEF CreateRuntimeDraft, Insert, KeepsHead, CurrentRows, RowsInv, TypeOK
<1>4. ASSUME NEW v \in Revisions, NEW b \in Revisions, AcceptCreated(v, b)
      PROVE  KeepsHead
  BY <1>4 DEF AcceptCreated, KeepsHead, CurrentRows, RowsInv, TypeOK
<1>5. ASSUME NEW v \in Revisions, NEW b \in Revisions, AcceptRevision(v, b)
      PROVE  KeepsHead
  BY <1>5 DEF AcceptRevision, Base, KeepsHead, CurrentRows, RowsInv, TypeOK,
        RowsOwned, Present, PointersOwned
<1>6. ASSUME NEW v \in Revisions, Reject(v) \/ Retry(v)
      PROVE  KeepsHead
  BY <1>6, SameRows DEF Reject, Retry
<1>7. ASSUME NEW a \in Artifacts, NEW t \in Revisions, NEW e \in Revisions,
             RestoreArtifactCurrentRevision(a, t, e)
      PROVE  KeepsHead
  BY <1>7 DEF RestoreArtifactCurrentRevision, KeepsHead, CurrentRows, RowsInv, TypeOK,
        PointersOwned
<1>8. ASSUME NEW a \in Artifacts, DeleteArtifact(a)
      PROVE  KeepsHead
  BY <1>8 DEF DeleteArtifact, KeepsHead, CurrentRows, RowsInv, TypeOK
<1>9. ASSUME NEW w \in Workers, NEW v \in Revisions,
             CommitManagedTextRevision(w, v) \/ AdoptExternalChange(w, v)
      PROVE  KeepsHead
  <2>1. PICK a \in Artifacts, seen \in Revisions :
          /\ owner[seen] = a
          /\ \E x : status' = [status EXCEPT ![seen] = x, ![v] = "current"]
          /\ owner' = [owner EXCEPT ![v] = a]
          /\ status[v] = "absent"
    BY <1>9 DEF CommitManagedTextRevision, AdoptExternalChange, Insert, RowsInv, PointersOwned
  <2> QED
    BY <2>1 DEF KeepsHead, CurrentRows, RowsInv, TypeOK
<1>10. ASSUME NEW w \in Workers,
              \/ UpdateFileObservation(w) \/ Abandon(w)
              \/ \E a \in Artifacts : ReviseManagedText(w, a) \/ Adopt(w, a) \/ Refresh(w, a)
       PROVE  KeepsHead
  BY <1>10, SameRows DEF UpdateFileObservation, Abandon, ReviseManagedText, Adopt, Refresh, Begin
<1>11. CASE UNCHANGED vars
  BY <1>11, SameRows DEF vars
<1> QED
  BY <1>1, <1>2, <1>3, <1>4, <1>5, <1>6, <1>7, <1>8, <1>9, <1>10, <1>11 DEF Next

-----------------------------------------------------------------------------
(* The past has a head *)

\* The step leaves the artifact of v with a current row.
HeadAfter(v) == \E u \in Revisions : owner'[u] = owner'[v] /\ status'[u] = "current"

\* What one step may do to the rows of the past.
KeepsRows ==
    \A v \in Revisions :
        /\ status[v] # "absent" => owner'[v] = owner[v] /\ parent'[v] = parent[v]
        /\ status'[v] = "superseded" => status[v] = "superseded" \/ HeadAfter(v)
        /\ status'[v] = "draft" => status[v] = "draft" \/ ret'[v] = "pending_review"
        /\ ret[v] \in {"pending_review", "rejected"} =>
              ret'[v] \in {"pending_review", "rejected"} \/ status'[v] = "current"

\* Rows keep their owner and their parent, one becomes superseded only with another
\* becoming current, and a draft comes with its return and keeps it until it is adopted.
LEMMA StepKeepsRows == RowsInv /\ [Next]_vars => KeepsRows
<1> SUFFICES ASSUME RowsInv, [Next]_vars PROVE KeepsRows
  OBVIOUS
<1> USE LedgerAssumption
<1>1. ASSUME NEW a \in Artifacts, NEW v \in Revisions, RegisterArtifact(a, v)
      PROVE  KeepsRows
  BY <1>1 DEF RegisterArtifact, Insert, KeepsRows, HeadAfter, RowsInv, TypeOK
<1>2. ASSUME NEW a \in Artifacts, NEW v \in Revisions, CreateRuntimeCreatedArtifact(a, v)
      PROVE  KeepsRows
  BY <1>2 DEF CreateRuntimeCreatedArtifact, Insert, KeepsRows, HeadAfter, RowsInv, TypeOK
<1>3. ASSUME NEW v \in Revisions, NEW b \in Revisions, CreateRuntimeDraft(v, b)
      PROVE  KeepsRows
  BY <1>3 DEF CreateRuntimeDraft, Insert, KeepsRows, HeadAfter, RowsInv, TypeOK
<1>4. ASSUME NEW v \in Revisions, NEW b \in Revisions, AcceptCreated(v, b)
      PROVE  KeepsRows
  BY <1>4 DEF AcceptCreated, KeepsRows, HeadAfter, RowsInv, TypeOK
<1>5. ASSUME NEW v \in Revisions, NEW b \in Revisions, AcceptRevision(v, b)
      PROVE  KeepsRows
  BY <1>5 DEF AcceptRevision, Base, RowsOwned, Present, PointersOwned, KeepsRows, HeadAfter, RowsInv, TypeOK
<1>6. ASSUME NEW v \in Revisions, Reject(v)
      PROVE  KeepsRows
  BY <1>6 DEF Reject, KeepsRows, HeadAfter, RowsInv, TypeOK
<1>7. ASSUME NEW v \in Revisions, Retry(v)
      PROVE  KeepsRows
  BY <1>7 DEF Retry, KeepsRows, HeadAfter, RowsInv, TypeOK
<1>8. ASSUME NEW a \in Artifacts, NEW t \in Revisions, NEW e \in Revisions, RestoreArtifactCurrentRevision(a, t, e)
      PROVE  KeepsRows
  BY <1>8 DEF RestoreArtifactCurrentRevision, Superseded, Present, PointersOwned, KeepsRows, HeadAfter, RowsInv, TypeOK
<1>9. ASSUME NEW a \in Artifacts, DeleteArtifact(a)
      PROVE  KeepsRows
  BY <1>9 DEF DeleteArtifact, KeepsRows, HeadAfter, RowsInv, TypeOK
<1>10. ASSUME NEW w \in Workers, NEW v \in Revisions,
              CommitManagedTextRevision(w, v) \/ AdoptExternalChange(w, v)
       PROVE  KeepsRows
  <2>1. PICK a \in Artifacts, seen \in Revisions :
          /\ a = work[w].artifact /\ seen = work[w].seen
          /\ owner[seen] = a /\ status[seen] \notin {"absent", "draft"}
    BY <1>10 DEF CommitManagedTextRevision, AdoptExternalChange, RowsInv, PointersOwned
  <2>2. /\ owner' = [owner EXCEPT ![v] = a]
        /\ parent' = [parent EXCEPT ![v] = seen]
        /\ status[v] = "absent"
        /\ ret' = ret
    BY <1>10, <2>1 DEF CommitManagedTextRevision, AdoptExternalChange, Insert
  <2>3. Superseded(seen) # "draft"
    BY <2>1 DEF Superseded
  <2>4. CASE status' = [status EXCEPT ![seen] = "superseded", ![v] = "current"]
    BY <2>1, <2>2, <2>4 DEF KeepsRows, HeadAfter, RowsInv, TypeOK
  <2>5. CASE status' = [status EXCEPT ![seen] = Superseded(seen), ![v] = "current"]
    BY <2>1, <2>2, <2>3, <2>5 DEF KeepsRows, HeadAfter, RowsInv, TypeOK
  <2> QED
    BY <1>10, <2>1, <2>4, <2>5 DEF CommitManagedTextRevision, AdoptExternalChange
<1>11. ASSUME NEW w \in Workers,
              \/ UpdateFileObservation(w) \/ Abandon(w)
              \/ \E a \in Artifacts : ReviseManagedText(w, a) \/ Adopt(w, a) \/ Refresh(w, a)
       PROVE  KeepsRows
  BY <1>11 DEF UpdateFileObservation, Abandon, ReviseManagedText, Adopt, Refresh, Begin, KeepsRows, HeadAfter
<1>12. CASE UNCHANGED vars
  BY <1>12 DEF vars, KeepsRows, HeadAfter
<1> QED
  BY <1>1, <1>2, <1>3, <1>4, <1>5, <1>6, <1>7, <1>8, <1>9, <1>10, <1>11, <1>12 DEF Next

\* The past of an artifact goes with its head: a superseded row was superseded before
\* and its artifact kept a head, or the step that superseded it installed one.
LEMMA NextHistory == LedgerInv /\ [Next]_vars => HistoryHasAHead'
<1> SUFFICES ASSUME LedgerInv, [Next]_vars, NEW v \in Revisions
             PROVE  /\ status'[v] = "superseded" => HeadAfter(v)
                    /\ status'[v] = "draft" => ret'[v] \in {"pending_review", "rejected"}
  BY DEF HistoryHasAHead, CurrentRows, HeadAfter
<1>1. RowsInv' /\ KeepsHead /\ KeepsRows
  BY NextRows, StepKeepsHead, StepKeepsRows DEF LedgerInv
<1>2. ASSUME status'[v] = "superseded", status[v] = "superseded"
      PROVE  HeadAfter(v)
  <2>1. owner'[v] = owner[v] /\ owner[v] \in exists /\ CurrentRows(owner[v]) # {}
    BY <1>1, <1>2 DEF KeepsRows, LedgerInv, RowsInv, RowsOwned, Present, HistoryHasAHead
  <2>2. owner'[v] \in exists'
    BY <1>1, <1>2 DEF RowsInv, RowsOwned, Present
  <2>3. \A a \in exists \cap exists' : CurrentRows(a) # {}
           => {u \in Revisions : owner'[u] = a /\ status'[u] = "current"} # {}
    BY <1>1 DEF KeepsHead, CurrentRows
  <2> QED BY <2>1, <2>2, <2>3 DEF HeadAfter
<1>3. status'[v] = "draft" => ret'[v] \in {"pending_review", "rejected"}
  BY <1>1 DEF KeepsRows, LedgerInv, HistoryHasAHead
<1> QED BY <1>1, <1>2, <1>3 DEF KeepsRows

-----------------------------------------------------------------------------
(* The invariant and the properties *)

LEMMA InitLedger == Init => LedgerInv
BY InitRows DEF LedgerInv, Init, HistoryHasAHead

LEMMA NextLedger == LedgerInv /\ [Next]_vars => LedgerInv'
BY NextRows, NextHistory DEF LedgerInv

\* The inductive invariant holds in every reachable state.
THEOREM LedgerInvariant == Spec => []LedgerInv
BY InitLedger, NextLedger, PTL DEF Spec

\* No interleaving of writers gives an artifact two current revisions.
THEOREM OneCurrentRowHolds == Spec => []OneCurrentRow
<1>1. LedgerInv => OneCurrentRow
  BY DEF LedgerInv, RowsInv
<1> QED
  BY <1>1, LedgerInvariant, PTL

\* The pointer column and the status column agree on every artifact that no stale
\* refresh has written.
THEOREM PointerAgreesHolds == Spec => []PointerAgrees
<1>1. LedgerInv => PointerAgrees
  BY DEF LedgerInv, RowsInv
<1> QED
  BY <1>1, LedgerInvariant, PTL

\* A return never disagrees with the status of the draft it carries.
THEOREM ReturnMatchesDraftHolds == Spec => []ReturnMatchesDraft
<1>1. LedgerInv => ReturnMatchesDraft
  BY DEF LedgerInv, RowsInv
<1> QED
  BY <1>1, LedgerInvariant, PTL

-----------------------------------------------------------------------------
(* Action properties *)

\* What a step that adopts a return does to the artifact of its draft.
AdoptsOverItsBase ==
    \A v \in Revisions : ret[v] = "pending_review" /\ ret'[v] = "adopted" =>
        /\ CurrentRows(owner[v]) = {parent[v]} \ {None}
        /\ CurrentRows(owner[v])' = {v}
        /\ current'[owner[v]] = v

\* NeverHeadless: an artifact that has a current row keeps one until it is deleted.
THEOREM NeverHeadlessHolds == Spec => NeverHeadless
<1>1. LedgerInv /\ [Next]_vars
        => [\A a \in exists \cap exists' : CurrentRows(a) # {} => CurrentRows(a)' # {}]_vars
  BY StepKeepsHead DEF KeepsHead, LedgerInv
<1> QED
  BY <1>1, LedgerInvariant, PTL DEF Spec, NeverHeadless

\* Only the two accept transactions adopt a return.
LEMMA StepAdopts == LedgerInv /\ [Next]_vars => AdoptsOverItsBase
<1> SUFFICES ASSUME LedgerInv, [Next]_vars,
                    NEW v \in Revisions, ret[v] = "pending_review", ret'[v] = "adopted"
             PROVE  /\ CurrentRows(owner[v]) = {parent[v]} \ {None}
                    /\ CurrentRows(owner[v])' = {v}
                    /\ current'[owner[v]] = v
  BY DEF AdoptsOverItsBase
<1> USE LedgerAssumption
<1>1. ASSUME NEW e \in Revisions, AcceptCreated(v, e)
      PROVE  /\ CurrentRows(owner[v]) = {parent[v]} \ {None}
             /\ CurrentRows(owner[v])' = {v}
             /\ current'[owner[v]] = v
  BY <1>1 DEF AcceptCreated, IndexAllows, CurrentRows, LedgerInv, RowsInv, TypeOK
<1>2. ASSUME NEW e \in Revisions, AcceptRevision(v, e)
      PROVE  /\ CurrentRows(owner[v]) = {parent[v]} \ {None}
             /\ CurrentRows(owner[v])' = {v}
             /\ current'[owner[v]] = v
  BY <1>2 DEF AcceptRevision, IndexAllows, Base, CurrentRows, LedgerInv, RowsInv, TypeOK,
        RowsOwned, Present, PointersOwned
<1>3. \E u, e \in Revisions : AcceptCreated(u, e) \/ AcceptRevision(u, e)
  BY DEF Next, vars, LedgerInv, RowsInv, TypeOK, RegisterArtifact, CreateRuntimeCreatedArtifact,
         CreateRuntimeDraft, Reject, Retry, RestoreArtifactCurrentRevision, DeleteArtifact,
         ReviseManagedText, Adopt, Refresh, Begin, CommitManagedTextRevision,
         AdoptExternalChange, UpdateFileObservation, Abandon
<1>4. PICK u \in Revisions, e \in Revisions : AcceptCreated(u, e) \/ AcceptRevision(u, e)
  BY <1>3
<1>5. u = v
  BY <1>4 DEF AcceptCreated, AcceptRevision, LedgerInv, RowsInv, TypeOK
<1> QED
  BY <1>1, <1>2, <1>4, <1>5

\* AcceptReplacesItsBase: accept promotes a draft over its own parent and nothing else.
THEOREM AcceptReplacesItsBaseHolds == Spec => AcceptReplacesItsBase
<1>1. LedgerInv /\ [Next]_vars
        => [\A v \in Revisions : ret[v] = "pending_review" /\ ret'[v] = "adopted" =>
              /\ CurrentRows(owner[v]) = {parent[v]} \ {None}
              /\ CurrentRows(owner[v])' = {v}
              /\ current'[owner[v]] = v]_vars
  BY StepAdopts DEF AdoptsOverItsBase
<1> QED
  BY <1>1, LedgerInvariant, PTL DEF Spec, AcceptReplacesItsBase

-----------------------------------------------------------------------------
(* Refinement *)

history == <<headOf, pastOf, drafts, written, parent>>

\* An artifact with no current row has no head, one with a single row has it.
LEMMA HeadOfRows ==
    ASSUME NEW a \in Artifacts
    PROVE  /\ CurrentRows(a) = {} => HeadOf(a) = None
           /\ \A v : CurrentRows(a) = {v} => HeadOf(a) = v
BY DEF HeadOf, OneOf

\* The same of the state after a step.
LEMMA HeadOfRowsNext ==
    ASSUME NEW a \in Artifacts
    PROVE  /\ CurrentRows(a)' = {} => HeadOf(a)' = None
           /\ \A v : CurrentRows(a)' = {v} => HeadOf(a)' = v
BY DEF HeadOf, OneOf

\* The current row of an artifact is its head.
LEMMA HeadOfCurrent ==
    ASSUME RowsInv, NEW a \in Artifacts, NEW v \in CurrentRows(a)
    PROVE  headOf[a] = v
<1>1. CurrentRows(a) = {v}
  BY DEF RowsInv, OneCurrentRow
<1> QED BY <1>1, HeadOfRows DEF headOf

\* A step that leaves an artifact the one current row v, or none, and every other
\* artifact its rows, moves one head.
LEMMA MovesHead ==
    ASSUME NEW a \in Artifacts, NEW v,
           CurrentRows(a)' = {v} \/ (v = None /\ CurrentRows(a)' = {}),
           \A b \in Artifacts \ {a} : CurrentRows(b)' = CurrentRows(b)
    PROVE  headOf' = [headOf EXCEPT ![a] = v]
<1>1. HeadOf(a)' = v
  BY HeadOfRowsNext
<1>2. ASSUME NEW b \in Artifacts \ {a} PROVE HeadOf(b)' = HeadOf(b)
  BY DEF HeadOf
<1> QED BY <1>1, <1>2 DEF headOf

\* A step that keeps the current rows moves no head.
LEMMA KeepsHeads ==
    ASSUME \A b \in Artifacts : CurrentRows(b)' = CurrentRows(b)
    PROVE  headOf' = headOf
<1>1. ASSUME NEW b \in Artifacts PROVE HeadOf(b)' = HeadOf(b)
  BY DEF HeadOf
<1> QED BY <1>1 DEF headOf

\* A step that keeps the rows keeps the history.
LEMMA SameHistory ==
    ASSUME status' = status, owner' = owner, parent' = parent
    PROVE  UNCHANGED history
<1>1. \A b \in Artifacts : CurrentRows(b)' = CurrentRows(b)
  BY DEF CurrentRows
<1>2. headOf' = headOf
  BY <1>1, KeepsHeads
<1> QED BY <1>2 DEF history, pastOf, PastOf, drafts, written

\* The tables start as an empty history.
LEMMA InitRefines == Init => History!Init
<1> SUFFICES ASSUME Init PROVE History!Init
  OBVIOUS
<1>1. \A a \in Artifacts : CurrentRows(a) = {} /\ PastOf(a) = {}
  BY DEF Init, CurrentRows, PastOf
<1>2. headOf = [a \in Artifacts |-> None]
  BY <1>1, HeadOfRows DEF headOf
<1> QED BY <1>1, <1>2 DEF History!Init, Init, pastOf, drafts, written

\* Registering a source begins its history.
LEMMA RegisterRefines ==
    ASSUME LedgerInv, NEW a \in Artifacts, NEW v \in Revisions, RegisterArtifact(a, v)
    PROVE  History!Begin(a, v, None)
<1> USE LedgerAssumption DEF LedgerInv, RowsInv, RegisterArtifact, Insert
<1>1. CurrentRows(a) = {} /\ CurrentRows(a)' = {v}
      /\ \A b \in Artifacts \ {a} : CurrentRows(b)' = CurrentRows(b)
  BY DEF TypeOK, CurrentRows, IndexAllows
<1>2. headOf[a] = None /\ headOf' = [headOf EXCEPT ![a] = v]
  BY <1>1, HeadOfRows, MovesHead DEF headOf
<1>3. \A b \in Artifacts : PastOf(b)' = PastOf(b)
  BY DEF TypeOK, PastOf
<1>4. pastOf' = [pastOf EXCEPT ![a] = @ \cup {}]
  BY <1>3 DEF pastOf
<1>5. drafts' = drafts /\ written' = written \cup {v} /\ v \notin written
  BY DEF TypeOK, drafts, written
<1> QED BY <1>2, <1>4, <1>5 DEF History!Begin, History!Enter, History!Make

\* A result is proposed.
LEMMA ProposeRefines ==
    ASSUME LedgerInv, NEW v \in Revisions, NEW a, NEW p, Insert(v, a, p),
           status' = [status EXCEPT ![v] = "draft"]
    PROVE  History!Propose(v, p)
<1> USE DEF LedgerInv, RowsInv, TypeOK, Insert
<1>1. \A b \in Artifacts : CurrentRows(b)' = CurrentRows(b) /\ PastOf(b)' = PastOf(b)
  BY DEF CurrentRows, PastOf
<1>2. headOf' = headOf /\ pastOf' = pastOf
  BY <1>1, KeepsHeads DEF pastOf
<1>3. drafts' = drafts \cup {v} /\ written' = written \cup {v} /\ v \notin written
  BY DEF drafts, written
<1> QED BY <1>2, <1>3 DEF History!Propose, History!Make

\* Accepting a created artifact begins its history with the draft.
LEMMA AcceptCreatedRefines ==
    ASSUME LedgerInv, NEW v \in Revisions, NEW e \in Revisions, AcceptCreated(v, e)
    PROVE  History!Begin(owner[v], v, None)
<1> DEFINE a == owner[v]
<1> USE LedgerAssumption DEF LedgerInv, RowsInv, AcceptCreated
<1>0. a \in Artifacts
  BY DEF TypeOK
<1>1. CurrentRows(a) = {} /\ CurrentRows(a)' = {v}
      /\ \A b \in Artifacts \ {a} : CurrentRows(b)' = CurrentRows(b)
  BY <1>0 DEF TypeOK, CurrentRows, IndexAllows
<1>2. headOf[a] = None /\ headOf' = [headOf EXCEPT ![a] = v]
  BY <1>0, <1>1, HeadOfRows, MovesHead DEF headOf
<1>3. \A b \in Artifacts : PastOf(b)' = PastOf(b)
  BY DEF TypeOK, PastOf
<1>4. pastOf' = [pastOf EXCEPT ![a] = @ \cup {}]
  BY <1>0, <1>3 DEF pastOf
<1>5. drafts' = drafts \ {v} /\ v \in drafts /\ written' = written
  BY DEF TypeOK, drafts, written
<1> QED BY <1>2, <1>4, <1>5 DEF History!Begin, History!Enter

\* A step that demotes the head h of an artifact, or finds none, and promotes a row
\* of its own, either commits it or begins a history with it.
LEMMA ReplacesHead ==
    ASSUME LedgerInv, NEW a \in Artifacts, NEW v \in Revisions, NEW h \in Revisions, NEW x,
           v # h, owner[h] = a, CurrentRows(a) \subseteq {h}, owner' = [owner EXCEPT ![v] = a],
           status[v] \in {"absent", "draft"}, status[v] = "draft" => owner[v] = a,
           status[h] \notin {"absent", "draft"},
           status' = [status EXCEPT ![h] = x, ![v] = "current"],
           x = "superseded" \/ (x = status[h] /\ x = "deleted"),
           History!Enter(v, h)
    PROVE  History!Commit(a, v) \/ History!Begin(a, v, h)
<1> USE LedgerAssumption DEF LedgerInv, RowsInv
<1>1. CurrentRows(a)' = {v} /\ \A b \in Artifacts \ {a} : CurrentRows(b)' = CurrentRows(b)
  BY DEF TypeOK, CurrentRows
<1>2. headOf' = [headOf EXCEPT ![a] = v]
  BY <1>1, MovesHead
<1>3. \A b \in Artifacts \ {a} : PastOf(b)' = PastOf(b)
  BY DEF TypeOK, PastOf
<1>4. PastOf(a)' = PastOf(a) \cup (IF x = "superseded" THEN {h} ELSE {})
  BY DEF TypeOK, PastOf
<1>5. pastOf' = [pastOf EXCEPT ![a] = @ \cup (IF x = "superseded" THEN {h} ELSE {})]
  BY <1>3, <1>4 DEF pastOf
<1>6. CASE CurrentRows(a) = {h}
  <2>1. headOf[a] = h /\ x = "superseded" /\ h # None
    BY <1>6, HeadOfRows DEF headOf, CurrentRows
  <2> QED BY <2>1, <1>2, <1>5 DEF History!Commit
<1>7. CASE CurrentRows(a) = {}
  <2>1. headOf[a] = None
    BY <1>7, HeadOfRows DEF headOf
  <2>2. (IF x = "superseded" THEN {h} ELSE {}) \in SUBSET ({h} \ {None})
    OBVIOUS
  <2> QED BY <2>1, <2>2, <1>2, <1>5 DEF History!Begin
<1> QED BY <1>6, <1>7

\* Accepting a result commits the draft over its own base.
LEMMA AcceptRevisionRefines ==
    ASSUME LedgerInv, NEW v \in Revisions, NEW e \in Revisions, AcceptRevision(v, e)
    PROVE  \E a \in Artifacts : History!Commit(a, v) \/ History!Begin(a, v, e)
<1> DEFINE a == owner[v]
<1> USE LedgerAssumption DEF LedgerInv, RowsInv, AcceptRevision
<1>1. a \in Artifacts /\ current[a] = e /\ owner[e] = a /\ v # e
  BY DEF TypeOK, RowsOwned, PointersOwned
<1>2. owner' = [owner EXCEPT ![v] = a]
  BY DEF TypeOK
<1>3. CurrentRows(a) \subseteq {e}
  BY DEF IndexAllows
<1>4. drafts' = drafts \ {v} /\ v \in drafts /\ written' = written
  BY DEF TypeOK, drafts, written
<1>5. History!Enter(v, e)
  BY <1>4 DEF History!Enter
<1>6. History!Commit(a, v) \/ History!Begin(a, v, e)
  BY <1>1, <1>2, <1>3, <1>5, ReplacesHead
<1> QED BY <1>1, <1>6

\* A row written by an edit or an adoption is made from the snapshot.
LEMMA WrittenEnters ==
    ASSUME LedgerInv, NEW v \in Revisions, NEW h \in Revisions, NEW a, NEW x,
           v # h, Insert(v, a, h), status[h] \notin {"absent", "draft"},
           status' = [status EXCEPT ![h] = x, ![v] = "current"], x \in {"superseded", "deleted"}
    PROVE  History!Enter(v, h)
<1> USE DEF LedgerInv, RowsInv, TypeOK, Insert
<1>1. drafts' = drafts /\ written' = written \cup {v} /\ v \notin written
  BY DEF drafts, written
<1> QED BY <1>1 DEF History!Enter, History!Make

\* A text edit commits over the head it read; an adoption does so too, although only
\* the unique index guards it, or it brings a deleted artifact's history back.
LEMMA WriterRefines ==
    ASSUME LedgerInv, NEW w \in Workers, NEW v \in Revisions,
           CommitManagedTextRevision(w, v) \/ AdoptExternalChange(w, v)
    PROVE  \E a \in Artifacts, h \in Revisions : History!Commit(a, v) \/ History!Begin(a, v, h)
<1> USE DEF LedgerInv, RowsInv
<1>1. PICK a \in Artifacts, h \in Revisions :
        /\ a = work[w].artifact /\ h = work[w].seen
        /\ owner[h] = a /\ status[h] \notin {"absent", "draft"}
  BY DEF CommitManagedTextRevision, AdoptExternalChange, PointersOwned
<1>2. Insert(v, a, h) /\ CurrentRows(a) \subseteq {h}
  BY <1>1 DEF CommitManagedTextRevision, AdoptExternalChange, IndexAllows
<1>3. v # h /\ status[v] = "absent" /\ owner' = [owner EXCEPT ![v] = a]
  BY <1>1, <1>2 DEF Insert
<1>4. ASSUME NEW x, status' = [status EXCEPT ![h] = x, ![v] = "current"],
             x = "superseded" \/ (x = status[h] /\ x = "deleted")
      PROVE  History!Commit(a, v) \/ History!Begin(a, v, h)
  <2>1. History!Enter(v, h)
    BY <1>1, <1>2, <1>3, <1>4, WrittenEnters
  <2> QED BY <1>1, <1>2, <1>3, <1>4, <2>1, ReplacesHead
<1>5. Superseded(h) = "superseded" \/ (Superseded(h) = status[h] /\ Superseded(h) = "deleted")
  BY <1>1 DEF Superseded, Present, TypeOK, RevisionStatus
<1>6. \/ status' = [status EXCEPT ![h] = "superseded", ![v] = "current"]
      \/ status' = [status EXCEPT ![h] = Superseded(h), ![v] = "current"]
  BY <1>1 DEF CommitManagedTextRevision, AdoptExternalChange
<1>7. History!Commit(a, v) \/ History!Begin(a, v, h)
  BY <1>4, <1>5, <1>6
<1> QED BY <1>1, <1>7

\* Undo and redo restore a row of the past; when the pointer of a stale refresh named
\* another row than the current one, they only put the pointer right.
LEMMA RestoreRefines ==
    ASSUME LedgerInv, NEW a \in Artifacts, NEW t \in Revisions, NEW e \in Revisions,
           RestoreArtifactCurrentRevision(a, t, e)
    PROVE  History!Restore(a, t) \/ UNCHANGED history
<1> USE LedgerAssumption DEF LedgerInv, RowsInv, RestoreArtifactCurrentRevision
<1>1. owner[e] = a /\ status[e] \notin {"absent", "draft"}
  BY DEF PointersOwned
<1>2. Superseded(e) = "superseded" \/ (Superseded(e) = status[e] /\ Superseded(e) = "deleted")
  BY <1>1 DEF Superseded, Present, TypeOK, RevisionStatus
<1>3. drafts' = drafts /\ written' = written
  BY <1>1, <1>2 DEF TypeOK, drafts, written
<1>4. CASE status[t] = "current"
  <2>1. CurrentRows(a) = {t}
    BY <1>4 DEF OneCurrentRow, CurrentRows
  <2>2. status[e] # "current"
    BY <2>1, <1>1 DEF CurrentRows
  <2>3. status' = status
    BY <1>1, <1>2, <1>4, <2>2 DEF TypeOK, Superseded, Present, RevisionStatus
  <2> QED BY <2>3, SameHistory
<1>5. CASE status[t] = "superseded"
  <2>1. CurrentRows(a) # {} /\ CurrentRows(a) \subseteq {e, t} /\ t \notin CurrentRows(a)
    BY <1>5 DEF HistoryHasAHead, IndexAllows, CurrentRows
  <2>2. CurrentRows(a) = {e}
    BY <2>1
  <2>3. headOf[a] = e /\ e # None /\ status[e] = "current"
    BY <2>2, HeadOfRows DEF headOf, CurrentRows
  <2>4. status' = [status EXCEPT ![e] = "superseded", ![t] = "current"]
    BY <2>3 DEF Superseded, Present
  <2>5. CurrentRows(a)' = {t} /\ \A b \in Artifacts \ {a} : CurrentRows(b)' = CurrentRows(b)
    BY <1>1, <2>2, <2>4 DEF TypeOK, CurrentRows
  <2>6. headOf' = [headOf EXCEPT ![a] = t]
    BY <2>5, MovesHead
  <2>7. \A b \in Artifacts \ {a} : PastOf(b)' = PastOf(b)
    BY <1>1, <2>4 DEF TypeOK, PastOf
  <2>8. PastOf(a)' = (PastOf(a) \cup {e}) \ {t} /\ t \in PastOf(a)
    BY <1>1, <1>5, <2>4 DEF TypeOK, PastOf
  <2>9. pastOf' = [pastOf EXCEPT ![a] = (@ \cup {e}) \ {t}] /\ t \in pastOf[a]
    BY <2>7, <2>8 DEF pastOf
  <2> QED BY <1>3, <2>3, <2>6, <2>9 DEF History!Restore
<1> QED BY <1>4, <1>5

\* Undoing a creation deletes a history with its past, and no draft.
LEMMA DeleteRefines ==
    ASSUME LedgerInv, NEW a \in Artifacts, DeleteArtifact(a)
    PROVE  History!Delete(a)
<1> USE LedgerAssumption DEF LedgerInv, RowsInv, DeleteArtifact
<1>1. owner[current[a]] = a /\ current[a] \in Revisions
  BY DEF TypeOK, PointersOwned
<1>2. ret[current[a]] = "none" /\ status[current[a]] \in {"current", "superseded"}
  BY <1>1 DEF Present, HistoryHasAHead
<1>3. CurrentRows(a) # {}
  BY <1>1, <1>2 DEF CurrentRows, HistoryHasAHead
<1>4. PICK h \in Revisions : h \in CurrentRows(a)
  BY <1>3 DEF CurrentRows
<1>5. headOf[a] # None
  BY <1>4, HeadOfCurrent
<1>6. CurrentRows(a)' = {} /\ \A b \in Artifacts \ {a} : CurrentRows(b)' = CurrentRows(b)
  BY DEF TypeOK, CurrentRows, Present
<1>7. headOf' = [headOf EXCEPT ![a] = None]
  BY <1>6, MovesHead
<1>8. PastOf(a)' = {} /\ \A b \in Artifacts \ {a} : PastOf(b)' = PastOf(b)
  BY DEF TypeOK, PastOf, Present
<1>9. pastOf' = [pastOf EXCEPT ![a] = {}]
  BY <1>8 DEF pastOf
<1>10. drafts' = drafts
  BY DEF TypeOK, drafts, HistoryHasAHead, Present
<1>11. written' = written
  BY DEF TypeOK, written, Present
<1> QED BY <1>5, <1>7, <1>9, <1>10, <1>11 DEF History!Delete

\* Every transaction is a step of the history or leaves it alone.
LEMMA NextRefines == LedgerInv /\ [Next]_vars => [History!Next]_history
<1> SUFFICES ASSUME LedgerInv, [Next]_vars PROVE History!Next \/ UNCHANGED history
  OBVIOUS
<1>1. ASSUME NEW a \in Artifacts, NEW v \in Revisions, RegisterArtifact(a, v)
      PROVE  History!Next
  BY <1>1, RegisterRefines DEF History!Next
<1>2. ASSUME NEW a \in Artifacts, NEW v \in Revisions, CreateRuntimeCreatedArtifact(a, v)
      PROVE  History!Next
  <2>1. History!Propose(v, None)
    BY <1>2, ProposeRefines DEF CreateRuntimeCreatedArtifact
  <2> QED BY <2>1 DEF History!Next
<1>3. ASSUME NEW v \in Revisions, NEW b \in Revisions, CreateRuntimeDraft(v, b)
      PROVE  History!Next
  <2>1. History!Propose(v, b)
    BY <1>3, ProposeRefines DEF CreateRuntimeDraft
  <2> QED BY <2>1 DEF History!Next
<1>4. ASSUME NEW v \in Revisions, NEW b \in Revisions, AcceptCreated(v, b)
      PROVE  History!Next
  <2>1. owner[v] \in Artifacts
    BY <1>4 DEF AcceptCreated, LedgerInv, RowsInv, TypeOK
  <2> QED BY <1>4, <2>1, AcceptCreatedRefines DEF History!Next
<1>5. ASSUME NEW v \in Revisions, NEW b \in Revisions, AcceptRevision(v, b)
      PROVE  History!Next
  BY <1>5, AcceptRevisionRefines DEF History!Next
<1>6. ASSUME NEW v \in Revisions, Reject(v) \/ Retry(v)
      PROVE  UNCHANGED history
  BY <1>6, SameHistory DEF Reject, Retry
<1>7. ASSUME NEW a \in Artifacts, NEW t \in Revisions, NEW e \in Revisions,
             RestoreArtifactCurrentRevision(a, t, e)
      PROVE  History!Next \/ UNCHANGED history
  BY <1>7, RestoreRefines DEF History!Next
<1>8. ASSUME NEW a \in Artifacts, DeleteArtifact(a)
      PROVE  History!Next
  BY <1>8, DeleteRefines DEF History!Next
<1>9. ASSUME NEW w \in Workers, NEW v \in Revisions,
             CommitManagedTextRevision(w, v) \/ AdoptExternalChange(w, v)
      PROVE  History!Next
  BY <1>9, WriterRefines DEF History!Next
<1>10. ASSUME NEW w \in Workers,
              \/ UpdateFileObservation(w) \/ Abandon(w)
              \/ \E a \in Artifacts : ReviseManagedText(w, a) \/ Adopt(w, a) \/ Refresh(w, a)
       PROVE  UNCHANGED history
  BY <1>10, SameHistory DEF UpdateFileObservation, Abandon, ReviseManagedText, Adopt, Refresh, Begin
<1>11. CASE UNCHANGED vars
  BY <1>11, SameHistory DEF vars
<1> QED
  BY <1>1, <1>2, <1>3, <1>4, <1>5, <1>6, <1>7, <1>8, <1>9, <1>10, <1>11 DEF Next

\* ImplementsHistory: whoever writes, each artifact has one line of history, in which
\* a revision replaces the very head it was made from.
THEOREM RefinesHistory == Spec => ImplementsHistory
BY InitRefines, NextRefines, LedgerInvariant, PTL
   DEF Spec, ImplementsHistory, History!Spec, history

-----------------------------------------------------------------------------
(* What an author reads off the history *)

\* A step that replaces a head, and what it does to the past.
BuildsOnTheHead ==
    \A a \in Artifacts : headOf[a] # None /\ headOf'[a] \notin {None, headOf[a]} =>
        parent'[headOf'[a]] = headOf[a] \/ headOf'[a] \in pastOf[a]
KeepsThePast ==
    \A a \in Artifacts : headOf'[a] # None =>
        pastOf[a] \cup ({headOf[a]} \ {None}) \subseteq pastOf'[a] \cup {headOf'[a]}

\* Both hold of every step of the history, whoever writes.
LEMMA HistorySteps ==
    ASSUME parent \in [Revisions -> Revisions \cup {None}], History!Next
    PROVE  BuildsOnTheHead /\ KeepsThePast
<1> USE DEF BuildsOnTheHead, KeepsThePast
<1>0. headOf = [a \in Artifacts |-> headOf[a]] /\ pastOf = [a \in Artifacts |-> pastOf[a]]
  BY DEF headOf, pastOf
<1> HIDE DEF headOf, pastOf
<1>1. ASSUME NEW v \in Revisions, NEW b \in Revisions \cup {None}, History!Propose(v, b)
      PROVE  BuildsOnTheHead /\ KeepsThePast
  BY <1>1 DEF History!Propose
<1>2. ASSUME NEW a \in Artifacts, NEW v \in Revisions, NEW b \in Revisions \cup {None},
             History!Begin(a, v, b)
      PROVE  BuildsOnTheHead /\ KeepsThePast
  <2>1. PICK back \in SUBSET ({b} \ {None}) : pastOf' = [pastOf EXCEPT ![a] = @ \cup back]
    BY <1>2 DEF History!Begin
  <2>2. headOf[a] = None /\ headOf' = [headOf EXCEPT ![a] = v]
    BY <1>2 DEF History!Begin
  <2>3. /\ \A c \in Artifacts \ {a} : headOf'[c] = headOf[c] /\ pastOf'[c] = pastOf[c]
        /\ pastOf[a] \subseteq pastOf'[a]
    BY <1>0, <2>1, <2>2
  <2> QED BY <2>2, <2>3
<1>3. ASSUME NEW a \in Artifacts, NEW v \in Revisions, History!Commit(a, v)
      PROVE  BuildsOnTheHead /\ KeepsThePast
  <2>1. /\ \A c \in Artifacts \ {a} : headOf'[c] = headOf[c] /\ pastOf'[c] = pastOf[c]
        /\ headOf'[a] = v /\ pastOf'[a] = pastOf[a] \cup {headOf[a]}
    BY <1>0, <1>3 DEF History!Commit
  <2>2. parent'[v] = headOf[a]
    BY <1>3 DEF History!Commit, History!Enter, History!Make
  <2> QED BY <2>1, <2>2
<1>4. ASSUME NEW a \in Artifacts, NEW v \in Revisions, History!Restore(a, v)
      PROVE  BuildsOnTheHead /\ KeepsThePast
  <2>1. /\ \A c \in Artifacts \ {a} : headOf'[c] = headOf[c] /\ pastOf'[c] = pastOf[c]
        /\ headOf'[a] = v /\ pastOf'[a] = (pastOf[a] \cup {headOf[a]}) \ {v}
        /\ v \in pastOf[a]
    BY <1>0, <1>4 DEF History!Restore
  <2> QED BY <2>1
<1>5. ASSUME NEW a \in Artifacts, History!Delete(a)
      PROVE  BuildsOnTheHead /\ KeepsThePast
  <2>1. /\ \A c \in Artifacts \ {a} : headOf'[c] = headOf[c] /\ pastOf'[c] = pastOf[c]
        /\ headOf'[a] = None
    BY <1>0, <1>5 DEF History!Delete
  <2> QED BY <2>1
<1> QED BY <1>1, <1>2, <1>3, <1>4, <1>5 DEF History!Next

\* Every writer, accepts, text edits and adoptions alike, builds on the very row it
\* replaces; only undo and redo put another one back, and that one from the past.
THEOREM EveryHeadBuildsOnTheLast == Spec => [][BuildsOnTheHead]_vars
<1>1. LedgerInv /\ [Next]_vars => [BuildsOnTheHead]_vars
  <2> SUFFICES ASSUME LedgerInv, [Next]_vars PROVE BuildsOnTheHead
    OBVIOUS
  <2>1. parent \in [Revisions -> Revisions \cup {None}]
    BY DEF LedgerInv, RowsInv, TypeOK
  <2>2. CASE History!Next
    BY <2>1, <2>2, HistorySteps
  <2>3. CASE UNCHANGED history
    BY <2>3 DEF history, BuildsOnTheHead
  <2> QED BY <2>2, <2>3, NextRefines
<1> QED BY <1>1, LedgerInvariant, PTL DEF Spec

\* As long as an artifact has a head, none of its superseded rows is lost, and the head
\* that was replaced is one of them.
THEOREM ThePastIsKept == Spec => [][KeepsThePast]_vars
<1>1. LedgerInv /\ [Next]_vars => [KeepsThePast]_vars
  <2> SUFFICES ASSUME LedgerInv, [Next]_vars PROVE KeepsThePast
    OBVIOUS
  <2>1. parent \in [Revisions -> Revisions \cup {None}]
    BY DEF LedgerInv, RowsInv, TypeOK
  <2>2. CASE History!Next
    BY <2>1, <2>2, HistorySteps
  <2>3. CASE UNCHANGED history
    <3>1. headOf = [a \in Artifacts |-> HeadOf(a)]
      BY DEF headOf
    <3>2. ASSUME NEW a \in Artifacts, headOf[a] # None
          PROVE  {headOf[a]} \subseteq {headOf'[a]}
      BY <2>3 DEF history
    <3> QED BY <2>3, <3>2 DEF history, KeepsThePast
  <2> QED BY <2>2, <2>3, NextRefines
<1> QED BY <1>1, LedgerInvariant, PTL DEF Spec

-----------------------------------------------------------------------------
(* The pointer *)

\* A step that moves the pointer promotes the row it moves to, unless it is the stale
\* refresh, or what follows one.
PromotesOrRefreshed ==
    \A a \in (exists \cap exists') \ overwritten' :
        current'[a] \notin {None, current[a]} =>
            status[current'[a]] # "current" /\ status'[current'[a]] = "current"

\* metadata-repository.ts:5549 "currentRevisionId may only change through an explicit
\* Revision lifecycle": true until a file refresh writes back a pointer it read before
\* its await.  RevisionPointer.cfg shows that refresh; nothing else breaks the rule.
THEOREM PointerMovesOnlyByLifecycleUntilRefreshed == Spec => [][PromotesOrRefreshed]_vars
<1>1. LedgerInv /\ [Next]_vars => [PromotesOrRefreshed]_vars
  <2> SUFFICES ASSUME LedgerInv, [Next]_vars, NEW a \in exists, a \in exists', a \notin overwritten',
                      current'[a] \notin {None, current[a]}
               PROVE  status[current'[a]] # "current" /\ status'[current'[a]] = "current"
    BY DEF PromotesOrRefreshed
  <2> USE LedgerAssumption DEF LedgerInv, RowsInv
  <2>0. a \in Artifacts
    BY DEF TypeOK
  <2>1. ASSUME NEW b \in Artifacts, NEW v \in Revisions, RegisterArtifact(b, v)
        PROVE  status[current'[a]] # "current" /\ status'[current'[a]] = "current"
    BY <2>0, <2>1 DEF RegisterArtifact, Insert, TypeOK
  <2>2. ASSUME NEW v \in Revisions, NEW e \in Revisions, AcceptCreated(v, e) \/ AcceptRevision(v, e)
        PROVE  status[current'[a]] # "current" /\ status'[current'[a]] = "current"
    BY <2>0, <2>2 DEF AcceptCreated, AcceptRevision, TypeOK
  <2>3. ASSUME NEW b \in Artifacts, NEW t \in Revisions, NEW e \in Revisions,
               RestoreArtifactCurrentRevision(b, t, e)
        PROVE  status[current'[a]] # "current" /\ status'[current'[a]] = "current"
    <3>1. b = a /\ current'[a] = t /\ status'[t] = "current" /\ owner[t] = a /\ t # current[a]
      BY <2>0, <2>3 DEF RestoreArtifactCurrentRevision, TypeOK
    <3>2. a \notin overwritten /\ current[a] # None
      BY <2>3, <3>1 DEF RestoreArtifactCurrentRevision
    <3>3. CurrentRows(a) = {current[a]}
      BY <3>2 DEF PointerAgrees
    <3> QED BY <3>1, <3>3 DEF CurrentRows
  <2>4. ASSUME NEW w \in Workers, NEW v \in Revisions,
               CommitManagedTextRevision(w, v) \/ AdoptExternalChange(w, v)
        PROVE  status[current'[a]] # "current" /\ status'[current'[a]] = "current"
    <3>1. work[w].artifact \in Artifacts /\ work[w].seen \in Revisions
      BY <2>4 DEF PointersOwned, CommitManagedTextRevision, AdoptExternalChange
    <3> QED BY <2>0, <2>4, <3>1 DEF CommitManagedTextRevision, AdoptExternalChange, Insert, TypeOK
  <2>5. ASSUME NEW w \in Workers, UpdateFileObservation(w)
        PROVE  FALSE
    <3>1. work[w].artifact \in Artifacts /\ work[w].seen \in Revisions
      BY <2>5 DEF PointersOwned, UpdateFileObservation
    <3> QED BY <2>0, <2>5, <3>1 DEF UpdateFileObservation, TypeOK
  <2>6. ASSUME NEW b \in Artifacts, NEW v \in Revisions, CreateRuntimeCreatedArtifact(b, v)
        PROVE  FALSE
    BY <2>0, <2>6 DEF CreateRuntimeCreatedArtifact, TypeOK
  <2>7. ASSUME NEW b \in Artifacts, DeleteArtifact(b)
        PROVE  FALSE
    BY <2>0, <2>7 DEF DeleteArtifact, TypeOK
  <2>8. CASE UNCHANGED current
    BY <2>8
  <2>9. CASE \/ \E v, b \in Revisions : CreateRuntimeDraft(v, b)
             \/ \E v \in Revisions : Reject(v) \/ Retry(v)
             \/ \E w \in Workers : \/ Abandon(w)
                                   \/ \E b \in Artifacts : \/ ReviseManagedText(w, b)
                                                           \/ Adopt(w, b) \/ Refresh(w, b)
             \/ UNCHANGED vars
    BY <2>8, <2>9 DEF CreateRuntimeDraft, Reject, Retry, Abandon, ReviseManagedText, Adopt,
                      Refresh, Begin, vars
  <2> QED BY <2>1, <2>2, <2>3, <2>4, <2>5, <2>6, <2>7, <2>9 DEF Next
<1> QED BY <1>1, LedgerInvariant, PTL DEF Spec

=============================================================================
