----------------------------- MODULE Presentations -----------------------------
(***************************************************************************)
(* One presentation of a project, the view of its members that clients     *)
(* save with a compare-and-swap version: the PUT and DELETE routes         *)
(* (routes/presentations.ts over presentation-application-service.ts), the *)
(* receipts that make a retried PUT return its first answer                *)
(* (project-mutation-coordinator.ts), the change sets that undo and redo   *)
(* its membership (mutation-safety-service.ts) and the curation patches of *)
(* agents, which suspend while they write the drafts of new texts          *)
(* (curation-command-service.ts).                                          *)
(*                                                                         *)
(* The identity of a presentation is a function of capability and scope,   *)
(* so after a deletion the next one has the same id and starts again at    *)
(* version 0; `era` tells these incarnations apart.                        *)
(*                                                                         *)
(* The deletion of a workspace takes it out of the members in place        *)
(* (metadata-repository.ts): the row keeps its version and nobody is told. *)
(* `stripped` remembers what the row lost that way under its version.      *)
(***************************************************************************)
EXTENDS Integers

CONSTANTS
    Clients,     \* web clients
    Ops,         \* operation ids of their saves
    Agents,      \* concurrent calls of applyPatch()
    Patches,     \* operation ids of curation patches
    Drafting,    \* the patches that create a text
    SetIds,      \* ids of change sets; bounds how many are recorded
    Views,       \* what can be a member: artifact views and workspaces
    Workspaces,  \* the workspaces
    Imported,    \* what exists from the start; the others are texts to come
    Layouts,     \* what a state holds beside its members
    MaxVersion,  \* bound on the versions of an incarnation
    MaxEra,      \* bound on deletions
    None

States == [members : SUBSET Views, layout : Layouts]
Row == [version : Nat, state : States]
Saved == [version : Nat, state : States, era : Nat]
ChangeSet == [op : Ops \cup Patches, status : {"applied", "reverted"},
              after : Nat, inverse : States, forward : States,
              text : Views \cup {None}, era : Nat]
Request == [op : Ops, base : Saved \cup {None}, state : States]

ASSUME PresentationsAssumption ==
    /\ MaxVersion \in Nat /\ MaxEra \in Nat
    /\ Workspaces \subseteq Imported /\ Imported \subseteq Views /\ Drafting \subseteq Patches
    /\ Ops \cap Patches = {}
    /\ None \notin Patches \cup Views
    /\ None \notin Row \cup Saved \cup ChangeSet \cup Request

VARIABLES
    row,        \* the row of presentation_views
    views,      \* views and workspaces: not yet created, present, present and edited, deleted
    receipts,   \* the coordinator's receipts, in memory
    sets,       \* mutation_change_sets
    outcomes,   \* curation_operation_receipts, in the database
    req,        \* the PUT a client waits for, or will retry, with the row it is built on
    call,       \* the patch an applyPatch() suspended in its drafts works on
    told,       \* the version of the last presentation.changed; -1 after a deletion
    issued,     \* operation ids in use: clients never use one for two requests
    era,        \* history: deletions so far
    ran,        \* history: how often an operation was stored in this era
    forgotten,  \* history: operations that created the presentation and lost their receipt
    stripped    \* history: members the row lost in place, under the version it has

stored == <<row, views, sets, outcomes>>
clientVars == <<req, issued>>
vars == <<stored, receipts, clientVars, call, told, era, ran, forgotten, stripped>>

TypeOK ==
    /\ row \in Row \cup {None}
    /\ views \in [Views -> {"absent", "live", "edited", "gone"}]
    /\ receipts \in [Ops -> Saved \cup {None}]
    /\ sets \in [SetIds -> ChangeSet \cup {None}]
    /\ outcomes \in [Patches -> {"none", "applied", "failed"}]
    /\ req \in [Clients -> Request \cup {None}]
    /\ call \in [Agents -> Patches \cup {None}]
    /\ told \in Nat \cup {-1}
    /\ issued \subseteq Ops
    /\ era \in Nat
    /\ ran \in [Ops -> Nat]
    /\ forgotten \subseteq Ops
    /\ stripped \subseteq Workspaces

Init ==
    /\ row = None
    /\ views = [v \in Views |-> IF v \in Imported THEN "live" ELSE "absent"]
    /\ receipts = [o \in Ops |-> None]
    /\ sets = [i \in SetIds |-> None]
    /\ outcomes = [k \in Patches |-> "none"]
    /\ req = [c \in Clients |-> None]
    /\ call = [a \in Agents |-> None]
    /\ told = -1
    /\ issued = {}
    /\ era = 0
    /\ ran = [o \in Ops |-> 0]
    /\ forgotten = {}
    /\ stripped = {}

-----------------------------------------------------------------------------
(* The service *)

Present(v) == views[v] \in {"live", "edited"}
ValidState(s) == \A v \in s.members : Present(v)

NextVersion == IF row = None THEN 0 ELSE row.version + 1
WriteInPlace(s) ==
    /\ NextVersion <= MaxVersion
    /\ row' = [version |-> IF row = None THEN 0 ELSE row.version, state |-> s]
    /\ stripped' = {}
Write(s) ==
    /\ NextVersion <= MaxVersion
    /\ row' = [version |-> NextVersion, state |-> s]
    /\ stripped' = {}

\* save(): an absent row is version 0 for its author, and so is a row at version 0.
AcceptsAny(s, expected) == ValidState(s) /\ (row = None => expected = 0)
Accepts(s, expected) ==
    ValidState(s) /\ expected = IF row = None THEN 0 ELSE row.version

SaveQuietly(s, expected) == AcceptsAny(s, expected) /\ Write(s) /\ UNCHANGED told
Save(s, expected) == Accepts(s, expected) /\ Write(s) /\ told' = NextVersion

\* The empty baseline of a presentation that did not exist.
Blank == [members |-> {}, layout |-> CHOOSE l \in Layouts : TRUE]
StateOf(r) == IF r = None THEN Blank ELSE r.state

Record(cs) == \E i \in SetIds : sets[i] = None /\ sets' = [sets EXCEPT ![i] = cs]

\* recordMembershipChangeSet(): a save that only moves things is not recorded.
RecordMembership(op, before, saved) ==
    IF StateOf(before).members = saved.state.members THEN UNCHANGED sets
    ELSE Record([op |-> op, status |-> "applied", after |-> saved.version,
                 inverse |-> StateOf(before), forward |-> saved.state,
                 text |-> None, era |-> saved.era])

-----------------------------------------------------------------------------
(* Clients.  A client whose answer is lost sends the same request again.  A *)
(* request without an origin is one whose receipt is forgotten at once.     *)

\* A client reads the row, and edits it for as long as the request is on its way.
Shown == IF row = None THEN None
         ELSE [version |-> row.version, state |-> row.state, era |-> era]

Send(c) ==
    /\ req[c] = None
    /\ \E op \in Ops \ issued, s \in States :
          /\ ValidState(s)
          /\ req' = [req EXCEPT ![c] = [op |-> op, base |-> Shown, state |-> s]]
          /\ issued' = issued \cup {op}
    /\ UNCHANGED <<stored, receipts, call, told, era, ran, forgotten, stripped>>

GiveUp(c) ==
    /\ req[c] # None
    /\ req' = [req EXCEPT ![c] = None]
    /\ UNCHANGED <<stored, receipts, issued, call, told, era, ran, forgotten, stripped>>

Expected(r) == IF r.base = None THEN 0 ELSE r.base.version

\* The answer arrives or is lost.
Answer(c) ==
    /\ UNCHANGED issued
    /\ UNCHANGED req \/ req' = [req EXCEPT ![c] = None]

-----------------------------------------------------------------------------
(* PUT: read `before`, commit through the coordinator, record, one segment *)

NotKnown(op) == FALSE
Known(op) == receipts[op] # None

PutReplayed(c) ==
    /\ req[c] # None
    /\ LET op == req[c].op IN
          /\ Known(op)
          /\ RecordMembership(op, row, receipts[op])
          /\ Answer(c)
    /\ UNCHANGED <<row, views, outcomes, receipts, call, told, era, ran, forgotten, stripped>>

Store(c) ==
    /\ req[c] # None
    /\ ~Known(req[c].op)
    /\ Save(req[c].state, Expected(req[c]))
    /\ ran' = [ran EXCEPT ![req[c].op] = @ + 1]
    /\ UNCHANGED <<views, outcomes, era>>

PutStored(c) ==
    /\ Store(c)
    /\ LET r == req[c]
           saved == [version |-> NextVersion, state |-> r.state, era |-> era]
       IN /\ RecordMembership(r.op, row, saved)
          /\ Answer(c)
          /\ receipts' = [receipts EXCEPT ![r.op] = saved]
    /\ UNCHANGED <<call, forgotten>>

\* 409 STALE_PRESENTATION_VERSION or 400: the client gives this request up.
PutRefused(c) ==
    /\ req[c] # None
    /\ ~Known(req[c].op) /\ ~Accepts(req[c].state, Expected(req[c]))
    /\ req' = [req EXCEPT ![c] = None]
    /\ UNCHANGED <<stored, receipts, issued, call, told, era, ran, forgotten, stripped>>

Delete ==
    /\ row # None /\ era < MaxEra
    /\ row' = None
    /\ told' = -1
    /\ era' = era + 1
    /\ ran' = [o \in Ops |-> 0]
    /\ stripped' = {}
    /\ UNCHANGED <<views, sets, outcomes, receipts, clientVars, call, forgotten>>

-----------------------------------------------------------------------------
(* Receipts expire, are evicted at the limit, and die with the process *)

Creations(ops) == {o \in ops : receipts[o] # None /\ receipts[o].version = 0}

Expire(o) ==
    /\ receipts[o] # None
    /\ forgotten' = forgotten \cup Creations({o})
    /\ receipts' = [receipts EXCEPT ![o] = None]
    /\ UNCHANGED <<stored, clientVars, call, told, era, ran, stripped>>

\* The process dies; `ops` created the presentation and have no receipt yet.
Forget(ops) ==
    /\ receipts' = [o \in Ops |-> None]
    /\ forgotten' = forgotten \cup Creations(Ops) \cup ops
    /\ call' = [a \in Agents |-> None]

\* Subscribers reconnect to the new process and get a snapshot.
Restart ==
    /\ Forget({})
    /\ told' = IF row = None THEN -1 ELSE row.version
    /\ UNCHANGED <<stored, clientVars, era, ran, stripped>>

\* The row of a PUT is committed before its change set and its receipt.
CrashWhileStoring(c) ==
    /\ Store(c)
    /\ Forget(IF row = None THEN {req[c].op} ELSE {})
    /\ UNCHANGED <<sets, clientVars>>

-----------------------------------------------------------------------------
(* Curation patches.  A receipt ends every call with that operation id. *)

RejectPatch(k) ==
    /\ outcomes[k] = "none"
    /\ outcomes' = [outcomes EXCEPT ![k] = "failed"]
    /\ UNCHANGED <<row, views, sets, receipts, clientVars, call, told, era, ran, forgotten, stripped>>

\* Validated against the version the caller expects, which is not looked at again.
StartPatch(a, k) ==
    /\ k \in Drafting
    /\ call[a] = None /\ outcomes[k] = "none" /\ row # None
    /\ call' = [call EXCEPT ![a] = k]
    /\ UNCHANGED <<stored, receipts, clientVars, told, era, ran, forgotten, stripped>>

\* runCurationMutation(): text, presentation, change set and receipt.
CommitCuration(k, s, text) ==
    /\ row # None
    /\ Write(s)
    /\ Record([op |-> k, status |-> "applied", after |-> NextVersion,
               inverse |-> row.state, forward |-> s, text |-> text, era |-> era])
    /\ outcomes' = [outcomes EXCEPT ![k] = "applied"]

\* The drafts are written; the row is read again.
FinishPatch(a) ==
    /\ call[a] # None
    /\ \E v \in Views :
          /\ views[v] = "absent"
          /\ views' = [views EXCEPT ![v] = "live"]
          /\ CommitCuration(call[a], [row.state EXCEPT !.members = @ \cup {v}], v)
    /\ call' = [call EXCEPT ![a] = None]
    /\ UNCHANGED <<receipts, clientVars, told, era, ran, forgotten>>

AbortPatch(a) ==
    /\ call[a] # None /\ row = None
    /\ outcomes' = [outcomes EXCEPT ![call[a]] = "failed"]
    /\ call' = [call EXCEPT ![a] = None]
    /\ UNCHANGED <<row, views, sets, receipts, clientVars, told, era, ran, forgotten, stripped>>

\* Without new texts nothing suspends: members come and go in one segment.
PatchAtOnce(k) ==
    /\ k \notin Drafting
    /\ outcomes[k] = "none" /\ row # None
    /\ \E v \in Views : \E change \in {"add", "remove"} :
          /\ change = "add" => Present(v)
          /\ change = "remove" => v \notin Workspaces
          /\ CommitCuration(k, [row.state EXCEPT !.members =
                                  IF change = "add" THEN @ \cup {v} ELSE @ \ {v}], None)
    /\ UNCHANGED <<views, receipts, clientVars, call, told, era, ran, forgotten>>

-----------------------------------------------------------------------------
(* Undo and redo *)

TextUntouched(cs) == row # None /\ (cs.text # None => views[cs.text] = "live")
Untouched(cs) ==
    /\ row # None /\ row.version = cs.after
    /\ cs.text # None => views[cs.text] = "live"

Undoable(i) == sets[i] # None /\ sets[i].status = "applied" /\ Untouched(sets[i])

\* The creation of a text cannot be redone: its set holds no forward state.
Redoable(i) ==
    /\ sets[i] # None /\ sets[i].status = "reverted" /\ sets[i].text = None
    /\ row # None /\ row.state = sets[i].inverse

WithoutText(i) == [v \in Views |-> IF v = sets[i].text THEN "gone" ELSE views[v]]

\* Three commits: the presentation, the text, the mark.  A snapshot with a member deleted
\* since makes save() throw before the first.
RevertLeavingText(i) ==
    /\ Undoable(i)
    /\ Save(sets[i].inverse, row.version)
    /\ sets' = [sets EXCEPT ![i].status = "reverted"]
    /\ UNCHANGED <<views, outcomes, receipts, clientVars, call, era, ran, forgotten>>
RevertQuietly(i) ==
    /\ Undoable(i)
    /\ SaveQuietly(sets[i].inverse, row.version)
    /\ views' = WithoutText(i)
    /\ sets' = [sets EXCEPT ![i].status = "reverted"]
    /\ UNCHANGED <<outcomes, receipts, clientVars, call, era, ran, forgotten>>
Revert(i) ==
    /\ Undoable(i)
    /\ Save(sets[i].inverse, row.version)
    /\ views' = WithoutText(i)
    /\ sets' = [sets EXCEPT ![i].status = "reverted"]
    /\ UNCHANGED <<outcomes, receipts, clientVars, call, era, ran, forgotten>>

\* Two commits.
Reapply(i) ==
    /\ Redoable(i)
    /\ Save(sets[i].forward, row.version)
    /\ sets' = [sets EXCEPT ![i].status = "applied"]
    /\ UNCHANGED <<views, outcomes, receipts, clientVars, call, era, ran, forgotten>>

\* The process dies before the mark, and before or after the text is deleted.
CrashWhileToggling(i) ==
    /\ \/ /\ Undoable(i)
          /\ Save(sets[i].inverse, row.version)
          /\ views' \in {views, WithoutText(i)}
       \/ /\ Redoable(i)
          /\ Save(sets[i].forward, row.version)
          /\ UNCHANGED views
    /\ Forget({})
    /\ UNCHANGED <<sets, outcomes, clientVars, era, ran>>

-----------------------------------------------------------------------------
(* What others do to the members *)

EditText(v) ==
    /\ v \notin Imported /\ views[v] = "live"   \* only a patch's own text is guarded
    /\ views' = [views EXCEPT ![v] = "edited"]
    /\ UNCHANGED <<row, sets, outcomes, receipts, clientVars, call, told, era, ran, forgotten, stripped>>

DeleteView(v) ==
    /\ v \notin Workspaces /\ Present(v)
    /\ views' = [views EXCEPT ![v] = "gone"]
    /\ UNCHANGED <<row, sets, outcomes, receipts, clientVars, call, told, era, ran, forgotten, stripped>>

\* removePresentationEntityRefs(): the same version, without the workspace.
DeleteWorkspace(w) ==
    /\ Present(w)
    /\ views' = [views EXCEPT ![w] = "gone"]
    /\ IF row # None /\ w \in row.state.members
       THEN /\ row' = [row EXCEPT !.state.members = @ \ {w}]
            /\ stripped' = stripped \cup {w}
       ELSE UNCHANGED <<row, stripped>>
    /\ UNCHANGED <<sets, outcomes, receipts, clientVars, call, told, era, ran, forgotten>>

\* upsert_workspace with the id it had.
RestoreWorkspace(w) ==
    /\ views[w] = "gone"
    /\ views' = [views EXCEPT ![w] = "live"]
    /\ UNCHANGED <<row, sets, outcomes, receipts, clientVars, call, told, era, ran, forgotten,
                   stripped>>

-----------------------------------------------------------------------------
Next ==
    \/ \E c \in Clients : \/ Send(c) \/ GiveUp(c)
                          \/ PutReplayed(c) \/ PutStored(c) \/ PutRefused(c)
                          \/ CrashWhileStoring(c)
    \/ Delete
    \/ \E o \in Ops : Expire(o)
    \/ Restart
    \/ \E k \in Patches : RejectPatch(k) \/ PatchAtOnce(k)
    \/ \E a \in Agents : \/ \E k \in Patches : StartPatch(a, k)
                         \/ FinishPatch(a) \/ AbortPatch(a)
    \/ \E i \in SetIds : Revert(i) \/ Reapply(i) \/ CrashWhileToggling(i)
    \/ \E v \in Views : EditText(v) \/ DeleteView(v)
    \/ \E w \in Workspaces : DeleteWorkspace(w) \/ RestoreWorkspace(w)

Spec == Init /\ [][Next]_vars

-----------------------------------------------------------------------------
(* Properties *)

\* What is left of a remembered state after the deletions under the present version.
Left(state) == [state EXCEPT !.members = @ \ stripped]

\* What is remembered of the present incarnation, with its version, is at most as new
\* as the row, and is the row if it has the same version, but for workspaces deleted since.
AtMostNow(version, state, e) ==
    /\ e <= era
    /\ e = era => /\ row # None /\ version <= row.version
                  /\ version = row.version => row.state = Left(state)

\* One version, one state, less the workspaces deleted under it: no receipt, change set
\* or request in flight remembers a version of the row with another state than it had,
\* whatever the retries, crashes, patches and undos in between; the compare-and-swap and
\* the undo check, which look at the version alone, rely on it.
Lineage ==
    /\ TypeOK
    /\ \A o \in Ops : receipts[o] # None =>
          AtMostNow(receipts[o].version, receipts[o].state, receipts[o].era)
    /\ \A i \in SetIds : sets[i] # None =>
          AtMostNow(sets[i].after, sets[i].forward, sets[i].era)
    /\ \A c \in Clients : req[c] # None /\ req[c].base # None =>
          AtMostNow(req[c].base.version, req[c].base.state, req[c].base.era)

\* save()'s compare-and-swap: a client replaces the state it last saw and no other,
\* workspaces deleted since apart, as long as it saw the presentation that is there now.
\* (Two authors who saw none can both save with expectedVersion 0; the second replaces
\* what the first created.)
NoLostUpdate ==
    [][\A c \in Clients :
          Store(c) /\ req[c].base # None /\ req[c].base.era = era
            => row # None /\ row.state = Left(req[c].base.state)]_vars

\* An operation retried after lost answers, expiry and restarts is stored once; only
\* the creation of the presentation can be stored again, once its receipt is gone.
OneEffect == \A o \in Ops : ran[o] > 1 => o \in forgotten

\* mutation-safety-service.ts: undo and redo exchange exactly the two states the set
\* recorded, so they never discard what anyone saved in between.  Undo, which looks at the
\* version, also replaces a state that lost a deleted workspace; redo compares the state.
\* This holds within one incarnation of the presentation.
ToggleIsExact ==
    [][\A i \in SetIds :
          sets[i] # None /\ sets'[i] # None /\ sets'[i].status # sets[i].status
          /\ sets[i].era = era
            => /\ row # None /\ row' # None
               /\ <<row.state, row'.state>> =
                    IF sets[i].status = "applied"
                    THEN <<Left(sets[i].forward), sets[i].inverse>>
                    ELSE <<sets[i].inverse, sets[i].forward>>]_vars

\* Subscribers have heard of every version, undo and redo included, except those a
\* curation patch committed, which goes past the service that publishes.
Announced ==
    row # None =>
        \A n \in (told + 1)..row.version :
            \E i \in SetIds : /\ sets[i] # None /\ sets[i].op \in Patches
                              /\ sets[i].after = n /\ sets[i].era = era

\* runCurationMutation(): a patch that says it was applied left its change set, and a
\* text made by a patch exists only while an applied change set accounts for it.
CurationAtomic ==
    /\ \A k \in Patches : outcomes[k] = "applied" =>
          \E i \in SetIds : sets[i] # None /\ sets[i].op = k
    /\ \A v \in Views \ Imported : Present(v) =>
          \E i \in SetIds : sets[i] # None /\ sets[i].text = v /\ sets[i].status = "applied"

\* curation-command-service.ts:157 says a retry gets the receipt of the first call: an
\* operation id is committed once.
CurationOnce ==
    \A i, j \in SetIds :
        sets[i] # None /\ sets[j] # None /\ sets[i].op \in Patches
        /\ sets[i].op = sets[j].op => i = j

===============================================================================
