-------------------------- MODULE PresentationsProofs --------------------------
(***************************************************************************)
(* The safety properties of Presentations for any clients, operations,     *)
(* agents, views and bounds.                                               *)
(*                                                                         *)
(* Lineage is inductive: whatever is remembered of a version was the row   *)
(* once, but for the workspaces deleted since, and a version is used once  *)
(* in an incarnation.  The lost-update                                     *)
(* and the undo property follow from it step by step.  That a retried      *)
(* operation has one effect needs two more facts: an operation id belongs  *)
(* to one request, and the request of an operation that was stored is      *)
(* behind the version it led to, so that the compare-and-swap refuses it   *)
(* when no receipt answers it.                                             *)
(***************************************************************************)
EXTENDS Presentations, TLAPS

\* Clients never use an operation id for two requests.
IdsAreUsedOnce ==
    /\ \A c \in Clients : req[c] # None => req[c].op \in issued
    /\ \A c, d \in Clients :
          req[c] # None /\ req[d] # None /\ req[c].op = req[d].op => c = d
    /\ \A o \in Ops : receipts[o] # None \/ ran[o] > 0 => o \in issued

\* The receipt of an operation stored in this era is about this era.
ReceiptIsRecent == \A o \in Ops : receipts[o] # None /\ ran[o] > 0 => receipts[o].era = era

\* A request that was stored is behind the version it led to, unless it created the
\* presentation.
BehindReceipt(c) ==
    req[c] # None /\ ran[req[c].op] > 0 /\ receipts[req[c].op] # None =>
        \/ receipts[req[c].op].version = 0
        \/ Expected(req[c]) < receipts[req[c].op].version
BehindRow(c) ==
    req[c] # None /\ ran[req[c].op] > 0 /\ receipts[req[c].op] = None =>
        \/ req[c].op \in forgotten
        \/ row # None /\ Expected(req[c]) < row.version
RetryIsBehind == \A c \in Clients : BehindReceipt(c) /\ BehindRow(c)

\* What the row lost in place it does not have until it is saved again.
StrippedIsGone == row # None => row.state.members \cap stripped = {}

\* The two actions that store a PUT.
Storing(c) == PutStored(c) \/ CrashWhileStoring(c)

\* Left and AtMostNow of the next state.
LeftNext(s) == [s EXCEPT !.members = @ \ stripped']
AtMostNext(n, s, e) ==
    /\ e <= era'
    /\ e = era' => /\ row' # None /\ n <= row'.version
                   /\ n = row'.version => row'.state = LeftNext(s)

IInv ==
    /\ Lineage /\ StrippedIsGone /\ IdsAreUsedOnce /\ ReceiptIsRecent /\ RetryIsBehind
    /\ OneEffect /\ Announced /\ CurationAtomic

-----------------------------------------------------------------------------
(* Types *)

\* What the types say of records.
LEMMA Types ==
    ASSUME TypeOK
    PROVE  /\ row # None => row \in Row /\ row.version \in Nat /\ row.state \in States
           /\ NextVersion \in Nat
           /\ \A o \in Ops : receipts[o] # None => receipts[o] \in Saved
           /\ \A i \in SetIds : sets[i] # None => sets[i] \in ChangeSet
           /\ \A c \in Clients : req[c] # None => req[c] \in Request /\ Expected(req[c]) \in Nat
           /\ told \in Int
BY DEF TypeOK, Row, NextVersion, Request, Saved, Expected

\* No record is None.
LEMMA NotNone ==
    /\ \A n \in Nat, s \in States : [version |-> n, state |-> s] # None
    /\ \A x \in Saved \cup ChangeSet \cup Request \cup Row : x # None
BY PresentationsAssumption DEF Row

\* A state with a member more or less is a state.
LEMMA StatesClosed ==
    ASSUME NEW s \in States, NEW m \in SUBSET Views
    PROVE  [s EXCEPT !.members = m] \in States /\ s.members \in SUBSET Views
BY DEF States

\* What is left of a state after no deletion, and after one more.
LEMMA LeftOf ==
    ASSUME NEW s \in States
    PROVE  /\ \A m : m \cap s.members = {} => [s EXCEPT !.members = @ \ m] = s
           /\ \A m, w : [[s EXCEPT !.members = @ \ m] EXCEPT !.members = @ \ {w}]
                         = [s EXCEPT !.members = @ \ (m \cup {w})]
<1>1. ASSUME NEW m, m \cap s.members = {} PROVE [s EXCEPT !.members = @ \ m] = s
  <2>1. s.members \ m = s.members
    BY <1>1
  <2> QED BY <2>1 DEF States
<1>2. ASSUME NEW m, NEW w
      PROVE  [[s EXCEPT !.members = @ \ m] EXCEPT !.members = @ \ {w}]
             = [s EXCEPT !.members = @ \ (m \cup {w})]
  <2>1. (s.members \ m) \ {w} = s.members \ (m \cup {w})
    OBVIOUS
  <2> QED BY <2>1 DEF States
<1> QED BY <1>1, <1>2

\* The state that a set records as the one before.
LEMMA StateOfType ==
    ASSUME TypeOK, NEW r \in Saved
    PROVE  StateOf(row) \in States
<1>1. Blank \in States
  BY DEF Blank, States, Saved
<1> QED BY <1>1, Types DEF StateOf

\* Write() leads to the next version.
LEMMA Writes ==
    ASSUME TypeOK, NEW s \in States, Write(s)
    PROVE  /\ row' = [version |-> NextVersion, state |-> s]
           /\ row' # None /\ row' \in Row /\ row'.version = NextVersion /\ row'.state = s
           /\ row # None => NextVersion = row.version + 1
           /\ row = None => NextVersion = 0
           /\ stripped' = {} /\ LeftNext(s) = s
<1>1. stripped' = {} /\ LeftNext(s) = s
  <2>1. stripped' = {} /\ {} \cap s.members = {}
    BY DEF Write
  <2>2. [s EXCEPT !.members = @ \ {}] = s
    BY <2>1, LeftOf, Zenon
  <2> QED BY <2>1, <2>2 DEF LeftNext
<1> QED BY <1>1, Types, NotNone DEF Write, NextVersion, Row

\* Record() fills a free id.
LEMMA Records ==
    ASSUME TypeOK, NEW cs \in ChangeSet, Record(cs)
    PROVE  /\ sets' \in [SetIds -> ChangeSet \cup {None}]
           /\ \A i \in SetIds : sets'[i] = sets[i] \/ (sets[i] = None /\ sets'[i] = cs)
           /\ \E i \in SetIds : /\ sets[i] = None /\ sets'[i] = cs
                               /\ \A j \in SetIds : j # i => sets'[j] = sets[j]
BY DEF TypeOK, Record

\* A recorded save keeps the sets there are, and says what was saved.
LEMMA RecordsMembership ==
    ASSUME TypeOK, NEW op \in Ops, NEW saved \in Saved, RecordMembership(op, row, saved)
    PROVE  /\ sets' \in [SetIds -> ChangeSet \cup {None}]
           /\ \A i \in SetIds :
                 \/ sets'[i] = sets[i]
                 \/ /\ sets[i] = None
                    /\ sets'[i] \in ChangeSet /\ sets'[i].op = op
                    /\ sets'[i].after = saved.version /\ sets'[i].forward = saved.state
                    /\ sets'[i].era = saved.era
<1> DEFINE cs == [op |-> op, status |-> "applied", after |-> saved.version,
                  inverse |-> StateOf(row), forward |-> saved.state,
                  text |-> None, era |-> saved.era]
<1>1. cs \in ChangeSet
  BY StateOfType DEF ChangeSet, Saved
<1>2. CASE UNCHANGED sets
  BY <1>2 DEF TypeOK
<1>3. CASE Record(cs)
  <2>1. /\ cs.op = op /\ cs.after = saved.version /\ cs.forward = saved.state /\ cs.era = saved.era
    OBVIOUS
  <2> HIDE DEF cs
  <2> QED BY <1>1, <1>3, <2>1, Records
<1> QED BY <1>2, <1>3 DEF RecordMembership

\* The change set of a patch is one.
LEMMA CurationRecords ==
    ASSUME TypeOK, NEW k \in Patches, NEW s \in States, NEW text \in Views \cup {None},
           CommitCuration(k, s, text)
    PROVE  /\ row # None /\ Write(s)
           /\ outcomes' = [outcomes EXCEPT ![k] = "applied"]
           /\ sets' \in [SetIds -> ChangeSet \cup {None}]
           /\ \E cs \in ChangeSet :
                 /\ cs.op = k /\ cs.status = "applied" /\ cs.after = NextVersion
                 /\ cs.forward = s /\ cs.text = text /\ cs.era = era
                 /\ \A i \in SetIds : sets'[i] = sets[i] \/ (sets[i] = None /\ sets'[i] = cs)
                 /\ \E i \in SetIds : /\ sets[i] = None /\ sets'[i] = cs
                                     /\ \A j \in SetIds : j # i => sets'[j] = sets[j]
<1> DEFINE cs == [op |-> k, status |-> "applied", after |-> NextVersion,
                  inverse |-> row.state, forward |-> s, text |-> text, era |-> era]
<1>1. /\ row # None /\ Write(s) /\ Record(cs)
      /\ outcomes' = [outcomes EXCEPT ![k] = "applied"]
  BY DEF CommitCuration
<1>2. cs \in ChangeSet
  BY <1>1, Types DEF ChangeSet, TypeOK
<1>3. /\ cs.op = k /\ cs.status = "applied" /\ cs.after = NextVersion
      /\ cs.forward = s /\ cs.text = text /\ cs.era = era
  OBVIOUS
<1> HIDE DEF cs
<1>4. /\ sets' \in [SetIds -> ChangeSet \cup {None}]
      /\ \A i \in SetIds : sets'[i] = sets[i] \/ (sets[i] = None /\ sets'[i] = cs)
      /\ \E i \in SetIds : /\ sets[i] = None /\ sets'[i] = cs
                          /\ \A j \in SetIds : j # i => sets'[j] = sets[j]
  BY <1>1, <1>2, Records
<1> QED BY <1>1, <1>2, <1>3, <1>4

\* Undo and redo change the status of one set and write a recorded state.
LEMMA Toggles ==
    ASSUME TypeOK, NEW i \in SetIds, Revert(i) \/ Reapply(i)
    PROVE  /\ row # None /\ sets[i] # None
           /\ \E s \in States : Write(s)
           /\ told' = NextVersion
           /\ sets' \in [SetIds -> ChangeSet \cup {None}]
           /\ sets'[i] # None /\ sets'[i].status # sets[i].status
           /\ \A j \in SetIds : j # i => sets'[j] = sets[j]
           /\ \A j \in SetIds : sets[j] # None =>
                 /\ sets'[j] # None /\ sets'[j].op = sets[j].op
                 /\ sets'[j].after = sets[j].after /\ sets'[j].forward = sets[j].forward
                 /\ sets'[j].era = sets[j].era /\ sets'[j].text = sets[j].text
           /\ \A j \in SetIds : sets'[j] # None => sets[j] # None
           /\ UNCHANGED <<outcomes, receipts, req, issued, call, era, ran, forgotten>>
<1> DEFINE flip == IF sets[i].status = "applied" THEN "reverted" ELSE "applied"
<1>1. /\ row # None /\ sets[i] # None /\ told' = NextVersion
      /\ sets' = [sets EXCEPT ![i].status = flip]
      /\ UNCHANGED <<outcomes, receipts, req, issued, call, era, ran, forgotten>>
  BY DEF Revert, Reapply, Undoable, Redoable, Save, Untouched, clientVars
<1>2. sets[i] \in ChangeSet /\ sets[i].inverse \in States /\ sets[i].forward \in States
  BY <1>1, Types DEF ChangeSet
<1>3. \E s \in States : Write(s)
  BY <1>2 DEF Revert, Reapply, Save
<1>4. [sets[i] EXCEPT !.status = flip] \in ChangeSet
  BY <1>2 DEF ChangeSet
<1>5. /\ [sets[i] EXCEPT !.status = flip].op = sets[i].op
      /\ [sets[i] EXCEPT !.status = flip].after = sets[i].after
      /\ [sets[i] EXCEPT !.status = flip].forward = sets[i].forward
      /\ [sets[i] EXCEPT !.status = flip].era = sets[i].era
      /\ [sets[i] EXCEPT !.status = flip].text = sets[i].text
      /\ [sets[i] EXCEPT !.status = flip].status = flip
      /\ flip # sets[i].status
  BY <1>2 DEF ChangeSet
<1>6. sets' = [sets EXCEPT ![i] = [sets[i] EXCEPT !.status = flip]]
  BY <1>1
<1> DEFINE cs == [sets[i] EXCEPT !.status = flip]
<1>7. cs # None
  BY <1>4, NotNone
<1>8. sets'[i] = cs /\ (\A j \in SetIds : j # i => sets'[j] = sets[j])
  BY <1>6 DEF TypeOK
<1>9. sets' \in [SetIds -> ChangeSet \cup {None}]
  BY <1>4, <1>6 DEF TypeOK
<1> HIDE DEF cs
<1> QED BY <1>1, <1>3, <1>5, <1>7, <1>8, <1>9 DEF cs

\* Toggling cut short leaves the sets alone.
LEMMA CutToggles ==
    ASSUME TypeOK, NEW i \in SetIds, CrashWhileToggling(i)
    PROVE  /\ row # None /\ \E s \in States : Write(s)
           /\ told' = NextVersion
           /\ Forget({})
           /\ \A v \in Views : views'[v] \in {views[v], "gone"}
           /\ views' \in [Views -> {"absent", "live", "edited", "gone"}]
           /\ UNCHANGED <<sets, outcomes, req, issued, era, ran>>
<1>1. /\ row # None /\ sets[i] # None /\ told' = NextVersion
      /\ Forget({})
      /\ Write(sets[i].inverse) \/ Write(sets[i].forward)
      /\ views' \in {views, WithoutText(i)}
      /\ UNCHANGED <<sets, outcomes, req, issued, era, ran>>
  BY DEF CrashWhileToggling, Undoable, Redoable, Untouched, Save, clientVars
<1>2. sets[i].inverse \in States /\ sets[i].forward \in States
  BY <1>1, Types DEF ChangeSet
<1>3. /\ \A v \in Views : views'[v] \in {views[v], "gone"}
      /\ views' \in [Views -> {"absent", "live", "edited", "gone"}]
  BY <1>1 DEF WithoutText, TypeOK
<1> QED BY <1>1, <1>2, <1>3

\* What a save found, and what it leaves behind.
LEMMA StoresFor ==
    ASSUME TypeOK, NEW c \in Clients, Store(c)
    PROVE  /\ req[c] # None /\ req[c] \in Request /\ req[c].op \in Ops
           /\ req[c].state \in States
           /\ receipts[req[c].op] = None
           /\ row = None => Expected(req[c]) = 0 /\ NextVersion = 0
           /\ row # None => Expected(req[c]) = row.version /\ NextVersion = row.version + 1
<1>1. req[c] # None /\ req[c] \in Request /\ req[c].op \in Ops /\ req[c].state \in States
  BY Types DEF Store, Request
<1>2. ~Known(req[c].op) /\ Accepts(req[c].state, Expected(req[c]))
  BY DEF Store, Save
<1> QED BY <1>1, <1>2 DEF Known, Accepts, NextVersion

LEMMA Stores ==
    ASSUME TypeOK, NEW c \in Clients, Store(c)
    PROVE  /\ Write(req[c].state)
           /\ row' # None /\ row' \in Row
           /\ row'.version = NextVersion /\ row'.state = req[c].state
           /\ LeftNext(req[c].state) = req[c].state /\ stripped' = {}
           /\ told' = NextVersion /\ UNCHANGED <<era, outcomes, views>>
           /\ ran'[req[c].op] = ran[req[c].op] + 1
           /\ \A o \in Ops : o # req[c].op => ran'[o] = ran[o]
           /\ ran' \in [Ops -> Nat]
<1>1. req[c].op \in Ops /\ req[c].state \in States
  BY StoresFor
<1>2. /\ Write(req[c].state) /\ told' = NextVersion /\ UNCHANGED <<era, outcomes, views>>
      /\ ran' = [ran EXCEPT ![req[c].op] = @ + 1]
  BY DEF Store, Save
<1>3. /\ row' # None /\ row' \in Row /\ row'.version = NextVersion /\ row'.state = req[c].state
      /\ LeftNext(req[c].state) = req[c].state /\ stripped' = {}
  BY <1>1, <1>2, Writes
<1> QED BY <1>1, <1>2, <1>3 DEF TypeOK

\* The receipt of a PUT that ended.
LEMMA Receipted ==
    ASSUME TypeOK, NEW c \in Clients, PutStored(c)
    PROVE  /\ receipts'[req[c].op] # None
           /\ receipts'[req[c].op].version = NextVersion
           /\ receipts'[req[c].op].state = req[c].state
           /\ receipts'[req[c].op].era = era
           /\ receipts' \in [Ops -> Saved \cup {None}]
           /\ \A o \in Ops : o # req[c].op => receipts'[o] = receipts[o]
           /\ UNCHANGED <<call, forgotten, issued>>
           /\ \A d \in Clients : req'[d] = req[d] \/ req'[d] = None
<1> DEFINE saved == [version |-> NextVersion, state |-> req[c].state, era |-> era]
<1>1. req[c].op \in Ops /\ req[c].state \in States /\ era \in Nat
  BY StoresFor DEF PutStored, TypeOK
<1>2. saved \in Saved
  BY <1>1, Types DEF Saved
<1>3. /\ receipts' = [receipts EXCEPT ![req[c].op] = saved] /\ Answer(c)
      /\ UNCHANGED <<call, forgotten>>
  BY DEF PutStored
<1>4. saved # None /\ saved.version = NextVersion /\ saved.state = req[c].state /\ saved.era = era
  BY <1>2, NotNone
<1> HIDE DEF saved
<1> QED BY <1>1, <1>2, <1>3, <1>4 DEF TypeOK, Answer

\* A crash in between loses it.
LEMMA CutStores ==
    ASSUME TypeOK, NEW c \in Clients, CrashWhileStoring(c)
    PROVE  /\ Store(c) /\ UNCHANGED <<sets, req, issued>>
           /\ \A o \in Ops : /\ receipts'[o] = None
                              /\ receipts[o] # None /\ receipts[o].version = 0 => o \in forgotten'
           /\ row = None => req[c].op \in forgotten'
           /\ forgotten \subseteq forgotten' /\ forgotten' \subseteq Ops
           /\ call' = [a \in Agents |-> None] /\ receipts' = [o \in Ops |-> None]
<1>1. req[c].op \in Ops
  BY StoresFor DEF CrashWhileStoring
<1> QED BY <1>1 DEF CrashWhileStoring, Forget, Creations, clientVars, TypeOK

-----------------------------------------------------------------------------
(* The parts of the invariant, one after the other *)

LEMMA TypeStep == ASSUME TypeOK, [Next]_vars PROVE TypeOK'
<1> USE DEF stored, clientVars
<1>1. ASSUME NEW c \in Clients, Send(c) PROVE TypeOK'
  <2>1. Shown \in Saved \cup {None}
    BY Types DEF Shown, Saved, TypeOK
  <2>2. PICK op \in Ops, s \in States :
          /\ req' = [req EXCEPT ![c] = [op |-> op, base |-> Shown, state |-> s]]
          /\ issued' = issued \cup {op}
    BY <1>1 DEF Send
  <2>3. [op |-> op, base |-> Shown, state |-> s] \in Request
    BY <2>1 DEF Request
  <2>4. /\ req' \in [Clients -> Request \cup {None}]
        /\ issued' \subseteq Ops
    BY <2>2, <2>3 DEF TypeOK
  <2> QED BY <1>1, <2>4 DEF Send, TypeOK
<1>2. ASSUME NEW c \in Clients, GiveUp(c) \/ PutRefused(c) PROVE TypeOK'
  BY <1>2 DEF GiveUp, PutRefused, TypeOK
<1>3. ASSUME NEW c \in Clients, PutReplayed(c) PROVE TypeOK'
  <2>1. req[c].op \in Ops /\ receipts[req[c].op] \in Saved
    BY <1>3, Types DEF PutReplayed, Known, Request
  <2>2. sets' \in [SetIds -> ChangeSet \cup {None}]
    BY <1>3, <2>1, RecordsMembership DEF PutReplayed
  <2> QED BY <1>3, <2>2 DEF PutReplayed, Answer, TypeOK
<1>4. ASSUME NEW c \in Clients, PutStored(c) PROVE TypeOK'
  <2> DEFINE saved == [version |-> NextVersion, state |-> req[c].state, era |-> era]
  <2>1. Store(c) /\ RecordMembership(req[c].op, row, saved) /\ Answer(c)
    BY <1>4 DEF PutStored
  <2>2. req[c].op \in Ops /\ saved \in Saved
    BY <2>1, StoresFor, Types DEF Saved, TypeOK
  <2> HIDE DEF saved
  <2>3. sets' \in [SetIds -> ChangeSet \cup {None}]
    BY <2>1, <2>2, RecordsMembership
  <2> QED BY <1>4, <2>1, <2>3, Stores, Receipted, Types DEF Answer, TypeOK, Row
<1>5. ASSUME Delete PROVE TypeOK'
  BY <1>5 DEF Delete, TypeOK
<1>6. ASSUME NEW o \in Ops, Expire(o) PROVE TypeOK'
  BY <1>6 DEF Expire, Creations, TypeOK
<1>7. ASSUME Restart PROVE TypeOK'
  BY <1>7, Types DEF Restart, Forget, Creations, TypeOK
<1>8. ASSUME NEW k \in Patches, RejectPatch(k) PROVE TypeOK'
  BY <1>8 DEF RejectPatch, TypeOK
<1>9. ASSUME NEW k \in Patches, PatchAtOnce(k) PROVE TypeOK'
  <2>1. PICK s \in States : CommitCuration(k, s, None)
    BY <1>9, Types, StatesClosed DEF PatchAtOnce, CommitCuration, States
  <2>2. /\ row' \in Row /\ sets' \in [SetIds -> ChangeSet \cup {None}]
        /\ outcomes' = [outcomes EXCEPT ![k] = "applied"] /\ stripped' = {}
    BY <2>1, CurationRecords, Writes
  <2> QED BY <1>9, <2>2 DEF PatchAtOnce, TypeOK, Row
<1>10. ASSUME NEW a \in Agents, NEW k \in Patches, StartPatch(a, k) PROVE TypeOK'
  BY <1>10 DEF StartPatch, TypeOK
<1>11. ASSUME NEW a \in Agents, FinishPatch(a) PROVE TypeOK'
  <2>1. PICK v \in Views, s \in States :
          CommitCuration(call[a], s, v) /\ views' = [views EXCEPT ![v] = "live"]
    BY <1>11, Types, StatesClosed DEF FinishPatch, CommitCuration, States
  <2>2. call[a] \in Patches
    BY <1>11 DEF FinishPatch, TypeOK
  <2>3. /\ row' \in Row /\ sets' \in [SetIds -> ChangeSet \cup {None}]
        /\ outcomes' = [outcomes EXCEPT ![call[a]] = "applied"] /\ stripped' = {}
    BY <2>1, <2>2, CurationRecords, Writes
  <2> QED BY <1>11, <2>1, <2>2, <2>3 DEF FinishPatch, TypeOK, Row
<1>12. ASSUME NEW a \in Agents, AbortPatch(a) PROVE TypeOK'
  BY <1>12 DEF AbortPatch, TypeOK
<1>13. ASSUME NEW i \in SetIds, Revert(i) \/ Reapply(i) PROVE TypeOK'
  <2>1. row' \in Row /\ told' \in Nat
    BY <1>13, Toggles, Writes, Types
  <2>2. views' \in [Views -> {"absent", "live", "edited", "gone"}]
    BY <1>13 DEF Revert, Reapply, WithoutText, TypeOK
  <2>3. stripped' = {}
    BY <1>13, Toggles DEF Write
  <2> QED BY <1>13, <2>1, <2>2, <2>3, Toggles DEF TypeOK, Row
<1>14. ASSUME NEW v \in Views, EditText(v) \/ DeleteView(v) PROVE TypeOK'
  BY <1>14 DEF EditText, DeleteView, TypeOK
<1>15. ASSUME UNCHANGED vars PROVE TypeOK'
  BY <1>15 DEF vars, TypeOK
<1>16. ASSUME NEW c \in Clients, CrashWhileStoring(c) PROVE TypeOK'
  BY <1>16, CutStores, Stores, Types DEF TypeOK, Row
<1>17. ASSUME NEW i \in SetIds, CrashWhileToggling(i) PROVE TypeOK'
  <2>1. row' \in Row /\ told' \in Nat /\ stripped' = {}
    BY <1>17, CutToggles, Writes, Types
  <2> QED BY <1>17, <2>1, CutToggles DEF Forget, Creations, TypeOK, Row
<1>18. ASSUME NEW w \in Workspaces, DeleteWorkspace(w) \/ RestoreWorkspace(w) PROVE TypeOK'
  <2>1. CASE row # None /\ DeleteWorkspace(w)
    <3>1. row \in Row /\ [row.state EXCEPT !.members = @ \ {w}] \in States
      BY <2>1, Types, StatesClosed DEF States
    <3>2. [row EXCEPT !.state.members = @ \ {w}] \in Row
      BY <3>1 DEF Row
    <3> QED BY <1>18, <2>1, <3>2 DEF DeleteWorkspace, TypeOK
  <2> QED BY <1>18, <2>1 DEF DeleteWorkspace, RestoreWorkspace, TypeOK
<1> QED BY <1>1, <1>2, <1>3, <1>4, <1>5, <1>6, <1>7, <1>8, <1>9, <1>10, <1>11, <1>12,
           <1>13, <1>14, <1>15, <1>16, <1>17, <1>18 DEF Next

\* The row without a deleted workspace.
Strips(w) ==
    /\ row # None /\ row' # None /\ row'.version = row.version /\ era' = era
    /\ row'.state = [row.state EXCEPT !.members = @ \ {w}]
    /\ stripped' = stripped \cup {w}

\* A step leaves the row, takes a workspace out of it, writes the next version of it, or begins a new era.
LEMMA RowStep ==
    ASSUME TypeOK, [Next]_vars
    PROVE  \/ UNCHANGED <<row, era, stripped>>
           \/ \E w \in Workspaces : Strips(w)
           \/ era' = era /\ \E s \in States : Write(s)
           \/ era' = era + 1 /\ row' = None
<1> USE DEF stored, clientVars
<1>1. ASSUME NEW c \in Clients, Storing(c) PROVE era' = era /\ \E s \in States : Write(s)
  <2>1. Store(c)
    BY <1>1 DEF Storing, PutStored, CrashWhileStoring
  <2> QED BY <2>1, StoresFor, Stores
<1>2. ASSUME NEW k \in Patches, PatchAtOnce(k) PROVE era' = era /\ \E s \in States : Write(s)
  BY <1>2, Types, StatesClosed DEF PatchAtOnce, CommitCuration, States
<1>3. ASSUME NEW a \in Agents, FinishPatch(a) PROVE era' = era /\ \E s \in States : Write(s)
  BY <1>3, Types, StatesClosed DEF FinishPatch, CommitCuration, States
<1>4. ASSUME NEW i \in SetIds, Revert(i) \/ Reapply(i) \/ CrashWhileToggling(i)
      PROVE  era' = era /\ \E s \in States : Write(s)
  BY <1>4, Toggles, CutToggles
<1>5. ASSUME Delete PROVE era' = era + 1 /\ row' = None
  BY <1>5 DEF Delete
<1>6. ASSUME \/ \E c \in Clients : Send(c) \/ GiveUp(c) \/ PutReplayed(c) \/ PutRefused(c)
             \/ \E o \in Ops : Expire(o)
             \/ Restart
             \/ \E k \in Patches : RejectPatch(k)
             \/ \E a \in Agents : (\E k \in Patches : StartPatch(a, k)) \/ AbortPatch(a)
             \/ \E v \in Views : EditText(v) \/ DeleteView(v)
             \/ \E w \in Workspaces : RestoreWorkspace(w)
             \/ UNCHANGED vars
      PROVE  UNCHANGED <<row, era, stripped>>
  BY <1>6 DEF Send, GiveUp, PutReplayed, PutRefused, Expire, Restart, RejectPatch,
              StartPatch, AbortPatch, EditText, DeleteView, RestoreWorkspace, vars
<1>7. ASSUME NEW w \in Workspaces, DeleteWorkspace(w)
      PROVE  UNCHANGED <<row, era, stripped>> \/ Strips(w)
  <2>1. CASE row # None /\ w \in row.state.members
    <3>1. row \in Row /\ row' = [row EXCEPT !.state.members = @ \ {w}]
      BY <1>7, <2>1, Types DEF DeleteWorkspace
    <3>2. /\ row'.version = row.version
          /\ row'.state = [row.state EXCEPT !.members = @ \ {w}]
          /\ [row EXCEPT !.state.members = @ \ {w}] \in Row
      BY <3>1, StatesClosed DEF Row, States
    <3>3. row' # None
      BY <3>1, <3>2, NotNone
    <3> QED BY <1>7, <2>1, <3>2, <3>3 DEF DeleteWorkspace, Strips
  <2> QED BY <1>7, <2>1 DEF DeleteWorkspace
<1> QED BY <1>1, <1>2, <1>3, <1>4, <1>5, <1>6, <1>7 DEF Next, Storing

\* So what was remembered of it is still at most as new.
LEMMA AtMostNowKept ==
    ASSUME TypeOK, [Next]_vars, NEW n \in Nat, NEW s \in States, NEW e \in Nat,
           AtMostNow(n, s, e)
    PROVE  AtMostNext(n, s, e)
<1>1. CASE UNCHANGED <<row, era, stripped>>
  BY <1>1 DEF AtMostNow, AtMostNext, Left, LeftNext
<1>2. CASE era' = era /\ \E t \in States : Write(t)
  <2>1. /\ row' # None /\ row'.version = NextVersion
        /\ row # None => NextVersion = row.version + 1
    BY <1>2, Writes
  <2> QED BY <1>2, <2>1, Types DEF AtMostNow, AtMostNext
<1>3. CASE era' = era + 1
  BY <1>3 DEF AtMostNow, AtMostNext, TypeOK
<1>4. ASSUME NEW w \in Workspaces, Strips(w) PROVE AtMostNext(n, s, e)
  <2>1. [Left(s) EXCEPT !.members = @ \ {w}] = LeftNext(s)
    BY <1>4, LeftOf DEF Strips, Left, LeftNext
  <2> QED BY <1>4, <2>1 DEF AtMostNow, AtMostNext, Strips
<1> QED BY <1>1, <1>2, <1>3, <1>4, RowStep

LEMMA GoneStep == ASSUME TypeOK, StrippedIsGone, [Next]_vars PROVE StrippedIsGone'
<1>1. CASE UNCHANGED <<row, era, stripped>>
  BY <1>1 DEF StrippedIsGone
<1>2. ASSUME NEW t \in States, Write(t) PROVE StrippedIsGone'
  BY <1>2, Writes DEF StrippedIsGone
<1>3. CASE row' = None
  BY <1>3 DEF StrippedIsGone
<1>4. ASSUME NEW w \in Workspaces, Strips(w) PROVE StrippedIsGone'
  <2>1. row'.state.members = row.state.members \ {w}
    BY <1>4, Types DEF Strips, States
  <2> QED BY <1>4, <2>1 DEF Strips, StrippedIsGone
<1> QED BY <1>1, <1>2, <1>3, <1>4, RowStep

\* A request is made, ends, or stays as it is.
LEMMA RequestStep ==
    ASSUME TypeOK, [Next]_vars, NEW c \in Clients
    PROVE  req'[c] = req[c] \/ req'[c] = None \/ Send(c)
<1> USE DEF stored, clientVars
<1>1. ASSUME NEW d \in Clients, Send(d) PROVE req'[c] = req[c] \/ Send(c)
  BY <1>1 DEF Send, TypeOK
<1>2. ASSUME NEW d \in Clients, \/ GiveUp(d) \/ PutReplayed(d)
                                \/ PutStored(d) \/ PutRefused(d)
      PROVE  req'[c] = req[c] \/ req'[c] = None
  BY <1>2, Receipted DEF GiveUp, PutReplayed, PutStored, PutRefused, Answer, TypeOK
<1>3. ASSUME \/ Delete \/ Restart
             \/ \E o \in Ops : Expire(o)
             \/ \E k \in Patches : RejectPatch(k) \/ PatchAtOnce(k)
             \/ \E a \in Agents : \/ \E k \in Patches : StartPatch(a, k)
                                  \/ FinishPatch(a) \/ AbortPatch(a)
             \/ \E i \in SetIds : Revert(i) \/ Reapply(i) \/ CrashWhileToggling(i)
             \/ \E v \in Views : EditText(v) \/ DeleteView(v)
             \/ \E w \in Workspaces : DeleteWorkspace(w) \/ RestoreWorkspace(w)
             \/ \E d \in Clients : CrashWhileStoring(d)
             \/ UNCHANGED vars
      PROVE  req' = req
  BY <1>3 DEF Delete, Restart, Expire, RejectPatch, PatchAtOnce, StartPatch, FinishPatch,
              AbortPatch, Revert, Reapply, CrashWhileToggling, CrashWhileStoring, EditText,
              DeleteView, DeleteWorkspace, RestoreWorkspace, vars
<1> QED BY <1>1, <1>2, <1>3 DEF Next

\* A receipt is kept, lost, or made by a save; a lost one of a creation is remembered.
LEMMA ReceiptStep ==
    ASSUME TypeOK, [Next]_vars, NEW o \in Ops
    PROVE  \/ receipts'[o] = receipts[o]
           \/ /\ receipts'[o] = None
              /\ receipts[o].version = 0 => o \in forgotten'
           \/ \E c \in Clients : Storing(c) /\ req[c].op = o
<1> USE DEF stored, clientVars
<1>1. ASSUME NEW c \in Clients, PutStored(c), req[c].op # o PROVE receipts'[o] = receipts[o]
  BY <1>1, Receipted
<1>2. ASSUME NEW p \in Ops, Expire(p), receipts'[o] # receipts[o]
      PROVE  receipts'[o] = None /\ (receipts[o].version = 0 => o \in forgotten')
  BY <1>2 DEF Expire, Creations, TypeOK
<1>3. ASSUME Forget({}), receipts'[o] # receipts[o]
      PROVE  receipts'[o] = None /\ (receipts[o].version = 0 => o \in forgotten')
  BY <1>3 DEF Forget, Creations, TypeOK
<1>4. ASSUME \/ Delete
             \/ \E c \in Clients : Send(c) \/ GiveUp(c) \/ PutReplayed(c) \/ PutRefused(c)
             \/ \E k \in Patches : RejectPatch(k) \/ PatchAtOnce(k)
             \/ \E a \in Agents : \/ \E k \in Patches : StartPatch(a, k)
                                  \/ FinishPatch(a) \/ AbortPatch(a)
             \/ \E i \in SetIds : Revert(i) \/ Reapply(i)
             \/ \E v \in Views : EditText(v) \/ DeleteView(v)
             \/ \E w \in Workspaces : DeleteWorkspace(w) \/ RestoreWorkspace(w)
             \/ UNCHANGED vars
      PROVE  receipts' = receipts
  BY <1>4 DEF Delete, Send, GiveUp, PutReplayed, PutRefused, RejectPatch, PatchAtOnce,
              StartPatch, FinishPatch, AbortPatch, Revert, Reapply, EditText, DeleteView,
              DeleteWorkspace, RestoreWorkspace, vars
<1>5. ASSUME NEW c \in Clients, CrashWhileStoring(c), receipts'[o] # receipts[o]
      PROVE  receipts'[o] = None /\ (receipts[o].version = 0 => o \in forgotten')
  BY <1>5, CutStores
<1>6. Restart \/ (\E i \in SetIds : CrashWhileToggling(i)) => Forget({})
  BY DEF Restart, CrashWhileToggling
<1> QED BY <1>1, <1>2, <1>3, <1>4, <1>5, <1>6 DEF Next, Storing

\* A change set is kept, changes its status, or is recorded of a version that was saved.
LEMMA SetStep ==
    ASSUME Lineage, [Next]_vars, NEW i \in SetIds
    PROVE  \/ sets'[i] = sets[i]
           \/ /\ sets[i] = None /\ sets'[i] \in ChangeSet
              /\ AtMostNext(sets'[i].after, sets'[i].forward, sets'[i].era)
           \/ /\ sets[i] # None /\ sets'[i] # None
              /\ sets'[i].op = sets[i].op /\ sets'[i].after = sets[i].after
              /\ sets'[i].forward = sets[i].forward /\ sets'[i].era = sets[i].era
              /\ sets'[i].text = sets[i].text
              /\ Revert(i) \/ Reapply(i)
<1> USE DEF stored, clientVars
<1> TypeOK
  BY DEF Lineage
<1>1. ASSUME NEW c \in Clients, PutReplayed(c), sets'[i] # sets[i]
      PROVE  /\ sets[i] = None /\ sets'[i] \in ChangeSet
             /\ AtMostNext(sets'[i].after, sets'[i].forward, sets'[i].era)
  <2>1. /\ req[c].op \in Ops /\ receipts[req[c].op] # None
        /\ receipts[req[c].op] \in Saved /\ UNCHANGED <<row, era>>
        /\ RecordMembership(req[c].op, row, receipts[req[c].op])
    BY <1>1, Types DEF PutReplayed, Known, Request
  <2>3. UNCHANGED stripped
    BY <1>1 DEF PutReplayed
  <2>2. /\ sets[i] = None /\ sets'[i] \in ChangeSet
        /\ sets'[i].after = receipts[req[c].op].version
        /\ sets'[i].forward = receipts[req[c].op].state
        /\ sets'[i].era = receipts[req[c].op].era
    BY <1>1, <2>1, RecordsMembership
  <2> QED BY <2>1, <2>2, <2>3 DEF Lineage, AtMostNow, AtMostNext, Left, LeftNext
<1>2. ASSUME NEW c \in Clients, PutStored(c), sets'[i] # sets[i]
      PROVE  /\ sets[i] = None /\ sets'[i] \in ChangeSet
             /\ AtMostNext(sets'[i].after, sets'[i].forward, sets'[i].era)
  <2> DEFINE saved == [version |-> NextVersion, state |-> req[c].state, era |-> era]
  <2>1. /\ req[c].op \in Ops /\ saved \in Saved
        /\ RecordMembership(req[c].op, row, saved)
        /\ saved.version = NextVersion /\ saved.state = req[c].state /\ saved.era = era
    BY <1>2, StoresFor, Types DEF PutStored, Saved, TypeOK
  <2> HIDE DEF saved
  <2>3. Store(c)
    BY <1>2 DEF PutStored
  <2>2. /\ sets[i] = None /\ sets'[i] \in ChangeSet
        /\ sets'[i].after = NextVersion /\ sets'[i].forward = req[c].state
        /\ sets'[i].era = era
    BY <1>2, <2>1, RecordsMembership
  <2> QED BY <2>2, <2>3, Stores, StoresFor, Types DEF AtMostNext, TypeOK
<1>3. ASSUME NEW k \in Patches, NEW s \in States, NEW text \in Views \cup {None},
             CommitCuration(k, s, text), era' = era, sets'[i] # sets[i]
      PROVE  /\ sets[i] = None /\ sets'[i] \in ChangeSet
             /\ AtMostNext(sets'[i].after, sets'[i].forward, sets'[i].era)
  <2>1. /\ Write(s)
        /\ sets[i] = None /\ sets'[i] \in ChangeSet
        /\ sets'[i].after = NextVersion /\ sets'[i].forward = s /\ sets'[i].era = era
    BY <1>3, CurationRecords
  <2> QED BY <1>3, <2>1, Writes, Types DEF AtMostNext, TypeOK
<1>4. ASSUME NEW k \in Patches, PatchAtOnce(k), sets'[i] # sets[i]
      PROVE  /\ sets[i] = None /\ sets'[i] \in ChangeSet
             /\ AtMostNext(sets'[i].after, sets'[i].forward, sets'[i].era)
  <2>1. \E s \in States : CommitCuration(k, s, None) /\ era' = era
    BY <1>4, Types, StatesClosed DEF PatchAtOnce, CommitCuration, States
  <2> QED BY <1>3, <1>4, <2>1
<1>5. ASSUME NEW a \in Agents, FinishPatch(a), sets'[i] # sets[i]
      PROVE  /\ sets[i] = None /\ sets'[i] \in ChangeSet
             /\ AtMostNext(sets'[i].after, sets'[i].forward, sets'[i].era)
  <2>1. call[a] \in Patches
    BY <1>5 DEF FinishPatch, TypeOK
  <2>2. \E v \in Views : \E s \in States : CommitCuration(call[a], s, v) /\ era' = era
    BY <1>5, Types, StatesClosed DEF FinishPatch, CommitCuration, States
  <2> QED BY <1>3, <1>5, <2>1, <2>2
<1>6. ASSUME NEW j \in SetIds, Revert(j) \/ Reapply(j), sets'[i] # sets[i]
      PROVE  /\ sets[i] # None /\ sets'[i] # None
             /\ sets'[i].op = sets[i].op /\ sets'[i].after = sets[i].after
             /\ sets'[i].forward = sets[i].forward /\ sets'[i].era = sets[i].era
             /\ sets'[i].text = sets[i].text
             /\ Revert(i) \/ Reapply(i)
  <2>1. i = j
    BY <1>6, Toggles
  <2> QED BY <1>6, <2>1, Toggles
<1>7. ASSUME \/ Delete \/ Restart
             \/ \E c \in Clients : Send(c) \/ GiveUp(c) \/ PutRefused(c)
             \/ \E o \in Ops : Expire(o)
             \/ \E k \in Patches : RejectPatch(k)
             \/ \E a \in Agents : (\E k \in Patches : StartPatch(a, k)) \/ AbortPatch(a)
             \/ \E v \in Views : EditText(v) \/ DeleteView(v)
             \/ \E w \in Workspaces : DeleteWorkspace(w) \/ RestoreWorkspace(w)
             \/ \E c \in Clients : CrashWhileStoring(c)
             \/ \E j \in SetIds : CrashWhileToggling(j)
             \/ UNCHANGED vars
      PROVE  sets' = sets
  BY <1>7 DEF Delete, Restart, Send, GiveUp, PutRefused, Expire, RejectPatch, StartPatch,
              AbortPatch, EditText, DeleteView, DeleteWorkspace, RestoreWorkspace,
              CrashWhileStoring, CrashWhileToggling, vars
<1> QED BY <1>1, <1>2, <1>4, <1>5, <1>6, <1>7 DEF Next

LEMMA LineageStep == ASSUME Lineage, StrippedIsGone, [Next]_vars PROVE Lineage'
<1> TypeOK
  BY DEF Lineage
<1>1. TypeOK'
  BY TypeStep
<1>2. ASSUME NEW o \in Ops, receipts'[o] # None
      PROVE  AtMostNext(receipts'[o].version, receipts'[o].state, receipts'[o].era)
  <2>1. CASE receipts'[o] = receipts[o]
    <3>1. /\ receipts[o].version \in Nat /\ receipts[o].era \in Nat
          /\ receipts[o].state \in States
          /\ AtMostNow(receipts[o].version, receipts[o].state, receipts[o].era)
      BY <1>2, <2>1, Types DEF Lineage, Saved
    <3>2. AtMostNext(receipts[o].version, receipts[o].state, receipts[o].era)
      BY <3>1, AtMostNowKept
    <3> QED BY <2>1, <3>2
  <2>2. ASSUME NEW c \in Clients, PutStored(c), req[c].op = o
        PROVE  AtMostNext(receipts'[o].version, receipts'[o].state, receipts'[o].era)
    <3>1. Store(c)
      BY <2>2 DEF PutStored
    <3> QED BY <2>2, <3>1, Stores, StoresFor, Receipted, Types DEF AtMostNext, TypeOK
  <2>3. ~ \E c \in Clients : CrashWhileStoring(c)
    BY <1>2, CutStores
  <2> QED BY <1>2, <2>1, <2>2, <2>3, ReceiptStep DEF Storing
<1>3. ASSUME NEW i \in SetIds, sets'[i] # None
      PROVE  AtMostNext(sets'[i].after, sets'[i].forward, sets'[i].era)
  <2>1. CASE /\ sets[i] # None /\ sets'[i].after = sets[i].after
             /\ sets'[i].forward = sets[i].forward /\ sets'[i].era = sets[i].era
    <3>1. /\ sets[i].after \in Nat /\ sets[i].era \in Nat /\ sets[i].forward \in States
          /\ AtMostNow(sets[i].after, sets[i].forward, sets[i].era)
      BY <2>1, Types DEF Lineage, ChangeSet
    <3>2. AtMostNext(sets[i].after, sets[i].forward, sets[i].era)
      BY <3>1, AtMostNowKept
    <3> QED BY <2>1, <3>2
  <2>2. CASE AtMostNext(sets'[i].after, sets'[i].forward, sets'[i].era)
    BY <2>2
  <2> QED BY <1>3, <2>1, <2>2, SetStep
<1>4. ASSUME NEW c \in Clients, req'[c] # None, req'[c].base # None
      PROVE  AtMostNext(req'[c].base.version, req'[c].base.state, req'[c].base.era)
  <2>1. CASE req'[c] = req[c]
    <3>1. /\ req[c].base.version \in Nat /\ req[c].base.era \in Nat
          /\ req[c].base.state \in States
          /\ AtMostNow(req[c].base.version, req[c].base.state, req[c].base.era)
      BY <1>4, <2>1, Types DEF Lineage, Request, Saved
    <3>2. AtMostNext(req[c].base.version, req[c].base.state, req[c].base.era)
      BY <3>1, AtMostNowKept
    <3> QED BY <2>1, <3>2
  <2>2. CASE Send(c)
    <3>1. req'[c].base = Shown /\ UNCHANGED <<row, era, stripped>>
      BY <2>2 DEF Send, TypeOK, stored
    <3>2. row # None => LeftNext(row.state) = row.state
      <4>1. row # None => row.state \in States /\ stripped \cap row.state.members = {}
        BY Types DEF StrippedIsGone
      <4>2. row # None => [row.state EXCEPT !.members = @ \ stripped] = row.state
        BY <4>1, LeftOf, Zenon
      <4> QED BY <3>1, <4>2 DEF LeftNext
    <3> QED BY <1>4, <3>1, <3>2, Types DEF Shown, AtMostNext, TypeOK
  <2> QED BY <1>4, <2>1, <2>2, RequestStep
<1> QED BY <1>1, <1>2, <1>3, <1>4 DEF Lineage, AtMostNow, AtMostNext, Left, LeftNext

\* How often an operation was stored changes with a save of it and with a new era.
LEMMA RanStep ==
    ASSUME TypeOK, [Next]_vars, NEW o \in Ops
    PROVE  /\ \/ ran'[o] = ran[o] /\ era' = era
              \/ ran'[o] = 0
              \/ \E c \in Clients : Storing(c) /\ req[c].op = o
           /\ forgotten \subseteq forgotten'
           /\ issued \subseteq issued'
<1> USE DEF stored, clientVars
<1>1. ASSUME NEW c \in Clients, Storing(c)
      PROVE  /\ req[c].op # o => ran'[o] = ran[o] /\ era' = era
             /\ forgotten \subseteq forgotten' /\ issued' = issued
  <2>1. Store(c)
    BY <1>1 DEF Storing, PutStored, CrashWhileStoring
  <2> QED BY <1>1, <2>1, Stores, Receipted, CutStores DEF Storing
<1>2. ASSUME Delete PROVE ran'[o] = 0 /\ forgotten' = forgotten /\ issued' = issued
  BY <1>2 DEF Delete
<1>3. ASSUME \/ Restart
             \/ \E c \in Clients : Send(c) \/ GiveUp(c) \/ PutReplayed(c) \/ PutRefused(c)
             \/ \E p \in Ops : Expire(p)
             \/ \E k \in Patches : RejectPatch(k) \/ PatchAtOnce(k)
             \/ \E a \in Agents : \/ \E k \in Patches : StartPatch(a, k)
                                  \/ FinishPatch(a) \/ AbortPatch(a)
             \/ \E i \in SetIds : Revert(i) \/ Reapply(i) \/ CrashWhileToggling(i)
             \/ \E v \in Views : EditText(v) \/ DeleteView(v)
             \/ \E w \in Workspaces : DeleteWorkspace(w) \/ RestoreWorkspace(w)
             \/ UNCHANGED vars
      PROVE  /\ ran' = ran /\ era' = era
             /\ forgotten \subseteq forgotten' /\ issued \subseteq issued'
  BY <1>3 DEF Restart, Forget, Send, GiveUp, PutReplayed, PutRefused, Answer, Expire,
              RejectPatch, PatchAtOnce, StartPatch, FinishPatch, AbortPatch, Revert, Reapply,
              CrashWhileToggling, EditText, DeleteView, DeleteWorkspace, RestoreWorkspace, vars
<1> QED BY <1>1, <1>2, <1>3 DEF Next, Storing

\* A new request takes an unused operation id.
LEMMA Sends ==
    ASSUME TypeOK, NEW c \in Clients, Send(c)
    PROVE  /\ req[c] = None
           /\ req'[c].op \in Ops \ issued /\ req'[c].op \in issued'
           /\ \A d \in Clients : d # c => req'[d] = req[d]
           /\ UNCHANGED <<row, receipts, era, ran, forgotten>>
BY DEF Send, TypeOK, stored

LEMMA IdsStep == ASSUME TypeOK, IdsAreUsedOnce, [Next]_vars PROVE IdsAreUsedOnce'
<1>1. ASSUME NEW c \in Clients, req'[c] # None PROVE req'[c].op \in issued'
  <2>1. CASE req'[c] = req[c]
    BY <1>1, <2>1, RanStep, Types DEF IdsAreUsedOnce, Request
  <2>2. CASE Send(c)
    BY <2>2, Sends
  <2> QED BY <1>1, <2>1, <2>2, RequestStep
<1>2. ASSUME NEW c \in Clients, NEW d \in Clients, c # d,
             req'[c] # None, req'[d] # None
      PROVE  req'[c].op # req'[d].op
  <2>1. CASE Send(c)
    BY <1>2, <2>1, Sends DEF IdsAreUsedOnce
  <2>2. CASE Send(d)
    BY <1>2, <2>2, Sends DEF IdsAreUsedOnce
  <2>3. CASE req'[c] = req[c] /\ req'[d] = req[d]
    BY <1>2, <2>3 DEF IdsAreUsedOnce
  <2> QED BY <1>2, <2>1, <2>2, <2>3, RequestStep
<1>3. ASSUME NEW o \in Ops, receipts'[o] # None \/ ran'[o] > 0 PROVE o \in issued'
  <2>1. CASE \E c \in Clients : Storing(c) /\ req[c].op = o
    BY <2>1, RanStep, StoresFor DEF IdsAreUsedOnce, Storing, PutStored, CrashWhileStoring
  <2>2. CASE ~ \E c \in Clients : Storing(c) /\ req[c].op = o
    <3>1. receipts'[o] # None => receipts[o] # None
      BY <2>2, ReceiptStep
    <3>2. ran'[o] > 0 => ran[o] > 0
      BY <2>2, RanStep
    <3> QED BY <1>3, <3>1, <3>2, RanStep DEF IdsAreUsedOnce
  <2> QED BY <2>1, <2>2
<1> QED BY <1>1, <1>2, <1>3 DEF IdsAreUsedOnce

LEMMA RecentStep == ASSUME TypeOK, ReceiptIsRecent, [Next]_vars PROVE ReceiptIsRecent'
<1> SUFFICES ASSUME NEW o \in Ops, receipts'[o] # None, ran'[o] > 0
             PROVE  receipts'[o].era = era'
  BY DEF ReceiptIsRecent
<1>1. CASE \E c \in Clients : Storing(c) /\ req[c].op = o
  <2>1. PICK c \in Clients : PutStored(c) /\ req[c].op = o
    BY <1>1, CutStores DEF Storing
  <2>2. Store(c)
    BY <2>1 DEF PutStored
  <2> QED BY <2>1, <2>2, Stores, Receipted
<1>2. CASE ~ \E c \in Clients : Storing(c) /\ req[c].op = o
  <2>1. receipts'[o] = receipts[o]
    BY <1>2, ReceiptStep
  <2>2. ran'[o] = ran[o] /\ era' = era
    BY <1>2, RanStep
  <2> QED BY <2>1, <2>2 DEF ReceiptIsRecent
<1> QED BY <1>1, <1>2

LEMMA BehindStep ==
    ASSUME Lineage, IdsAreUsedOnce, ReceiptIsRecent, RetryIsBehind, [Next]_vars
    PROVE  RetryIsBehind'
<1> TypeOK
  BY DEF Lineage
<1> SUFFICES ASSUME NEW c \in Clients, req'[c] # None, ran'[req'[c].op] > 0
             PROVE  /\ receipts'[req'[c].op] # None =>
                          \/ receipts'[req'[c].op].version = 0
                          \/ Expected(req'[c]) < receipts'[req'[c].op].version
                    /\ receipts'[req'[c].op] = None =>
                          \/ req'[c].op \in forgotten'
                          \/ row' # None /\ Expected(req'[c]) < row'.version
  BY DEF RetryIsBehind, BehindReceipt, BehindRow, Expected
<1>1. CASE Send(c)
  BY <1>1, Sends DEF IdsAreUsedOnce
<1>2. CASE req'[c] = req[c] /\ \E d \in Clients : Storing(d) /\ req[d].op = req[c].op
  <2>1. Storing(c)
    BY <1>2, StoresFor DEF IdsAreUsedOnce, Storing, PutStored, CrashWhileStoring
  <2>2. Store(c)
    BY <2>1 DEF Storing, PutStored, CrashWhileStoring
  <2>3. CASE PutStored(c)
    BY <1>2, <2>2, <2>3, Stores, StoresFor, Receipted, Types
  <2>4. CASE CrashWhileStoring(c)
    BY <1>2, <2>2, <2>4, Stores, StoresFor, CutStores, Types
  <2> QED BY <2>1, <2>3, <2>4 DEF Storing
<1>3. CASE req'[c] = req[c] /\ ~ \E d \in Clients : Storing(d) /\ req[d].op = req[c].op
  <2> DEFINE o == req[c].op
  <2>1. o \in Ops /\ req[c] \in Request /\ Expected(req[c]) \in Nat
    BY <1>3, Types DEF Request
  <2>2. ran[o] > 0 /\ era' = era /\ forgotten \subseteq forgotten'
    BY <1>3, <2>1, RanStep
  <2>5. row # None /\ Expected(req[c]) < row.version
          => row' # None /\ Expected(req[c]) < row'.version
    <3>1. CASE row' = row
      BY <3>1
    <3>2. CASE \E s \in States : Write(s)
      BY <2>1, <3>2, Writes, Types
    <3>3. CASE \E w \in Workspaces : Strips(w)
      BY <3>3 DEF Strips
    <3> QED BY <2>2, <3>1, <3>2, <3>3, RowStep DEF TypeOK
  <2>3. CASE receipts'[o] = receipts[o]
    <3>1. receipts[o] = None /\ o \notin forgotten => row # None /\ Expected(req[c]) < row.version
      BY <1>3, <2>1, <2>2 DEF RetryIsBehind, BehindRow
    <3> QED BY <1>3, <2>1, <2>2, <2>3, <2>5, <3>1 DEF RetryIsBehind, BehindReceipt
  <2>4. CASE receipts[o] # None /\ receipts'[o] = None
    <3>1. receipts[o].version = 0 => o \in forgotten'
      BY <1>3, <2>1, <2>4, ReceiptStep
    <3>2. receipts[o].version = 0 \/ Expected(req[c]) < receipts[o].version
      BY <1>3, <2>1, <2>2, <2>4 DEF RetryIsBehind, BehindReceipt
    <3>3. row # None /\ receipts[o].version <= row.version /\ receipts[o].version \in Nat
      BY <2>1, <2>2, <2>4, Types DEF ReceiptIsRecent, Lineage, AtMostNow, Saved
    <3> QED BY <1>3, <2>1, <2>4, <2>5, <3>1, <3>2, <3>3, Types
  <2> QED BY <1>3, <2>1, <2>3, <2>4, ReceiptStep
<1> QED BY <1>1, <1>2, <1>3, RequestStep

LEMMA OneEffectStep ==
    ASSUME Lineage, RetryIsBehind, OneEffect, [Next]_vars PROVE OneEffect'
<1> TypeOK
  BY DEF Lineage
<1> SUFFICES ASSUME NEW o \in Ops, ran'[o] > 1 PROVE o \in forgotten'
  BY DEF OneEffect
<1>1. CASE \E c \in Clients : Storing(c) /\ req[c].op = o
  <2>1. PICK c \in Clients : Storing(c) /\ req[c].op = o
    BY <1>1
  <2>4. Store(c)
    BY <2>1 DEF Storing, PutStored, CrashWhileStoring
  <2>2. ran[o] > 0
    BY <2>1, <2>4, Stores, StoresFor DEF TypeOK
  <2>3. o \in forgotten \/ (row # None /\ Expected(req[c]) < row.version)
    BY <2>1, <2>2, <2>4, StoresFor DEF RetryIsBehind, BehindRow
  <2> QED BY <2>1, <2>3, <2>4, StoresFor, RanStep, Types
<1>2. CASE ~ \E c \in Clients : Storing(c) /\ req[c].op = o
  BY <1>2, RanStep DEF OneEffect
<1> QED BY <1>1, <1>2

\* A change set, once recorded, goes on naming its operation, version and era.
LEMMA SetsStay ==
    ASSUME Lineage, [Next]_vars, NEW i \in SetIds, sets[i] # None
    PROVE  /\ sets'[i] # None /\ sets'[i].op = sets[i].op /\ sets'[i].text = sets[i].text
           /\ sets'[i].after = sets[i].after /\ sets'[i].era = sets[i].era
BY SetStep

LEMMA AnnouncedStep == ASSUME Lineage, Announced, [Next]_vars PROVE Announced'
<1> USE DEF stored, clientVars
<1> TypeOK
  BY DEF Lineage
<1> DEFINE Cured(n) == \E i \in SetIds : /\ sets[i] # None /\ sets[i].op \in Patches
                                         /\ sets[i].after = n /\ sets[i].era = era
           CuredNext(n) == \E i \in SetIds : /\ sets'[i] # None /\ sets'[i].op \in Patches
                                             /\ sets'[i].after = n /\ sets'[i].era = era'
<1>1. ASSUME NEW n, Cured(n), era' = era PROVE CuredNext(n)
  BY <1>1, SetsStay
<1> SUFFICES ASSUME row' # None, NEW n \in (told' + 1)..row'.version PROVE CuredNext(n)
  BY DEF Announced
<1> HIDE DEF CuredNext
<1>2. CASE row' = row /\ told' = told /\ era' = era
  <2>1. Cured(n)
    BY <1>2 DEF Announced
  <2> QED BY <1>1, <1>2, <2>1
<1>3. CASE told' = row'.version /\ row' \in Row
  BY <1>3 DEF Row
<1>4. ASSUME NEW k \in Patches, NEW s \in States, NEW text \in Views \cup {None},
             CommitCuration(k, s, text), told' = told, era' = era
      PROVE  CuredNext(n)
  <2>1. /\ row # None /\ row'.version = row.version + 1 /\ NextVersion = row.version + 1
        /\ row.version \in Nat
    BY <1>4, CurationRecords, Writes, Types
  <2>2. CASE n = row'.version
    <3>1. PICK i \in SetIds : /\ sets'[i] \in ChangeSet /\ sets'[i].op = k
                              /\ sets'[i].after = NextVersion /\ sets'[i].era = era
      BY <1>4, CurationRecords
    <3> QED BY <1>4, <2>1, <2>2, <3>1, NotNone DEF CuredNext
  <2>3. CASE n # row'.version
    <3>1. n \in (told + 1)..row.version
      BY <1>4, <2>1, <2>3, Types
    <3>2. Cured(n)
      BY <2>1, <3>1 DEF Announced
    <3> QED BY <1>1, <1>4, <3>2
  <2> QED BY <2>2, <2>3
<1>5. ASSUME NEW c \in Clients, Storing(c) PROVE told' = row'.version /\ row' \in Row
  BY <1>5, Stores DEF Storing, PutStored, CrashWhileStoring
<1>6. ASSUME NEW i \in SetIds, Revert(i) \/ Reapply(i) \/ CrashWhileToggling(i)
      PROVE  told' = row'.version /\ row' \in Row
  BY <1>6, Toggles, CutToggles, Writes
<1>7. ASSUME NEW k \in Patches, PatchAtOnce(k) PROVE CuredNext(n)
  <2>1. (\E s \in States : CommitCuration(k, s, None)) /\ told' = told /\ era' = era
    BY <1>7, Types, StatesClosed DEF PatchAtOnce, CommitCuration, States
  <2> QED BY <1>4, <2>1
<1>8. ASSUME NEW a \in Agents, FinishPatch(a) PROVE CuredNext(n)
  <2>1. call[a] \in Patches
    BY <1>8 DEF FinishPatch, TypeOK
  <2>2. /\ \E v \in Views : \E s \in States : CommitCuration(call[a], s, v)
        /\ told' = told /\ era' = era
    BY <1>8, Types, StatesClosed DEF FinishPatch, CommitCuration, States
  <2> QED BY <1>4, <2>1, <2>2
<1>9. ASSUME Restart PROVE told' = row'.version /\ row' \in Row
  BY <1>9, Types DEF Restart
<1>10. ASSUME \/ \E c \in Clients : Send(c) \/ GiveUp(c) \/ PutReplayed(c) \/ PutRefused(c)
              \/ \E o \in Ops : Expire(o)
              \/ \E k \in Patches : RejectPatch(k)
              \/ \E a \in Agents : (\E k \in Patches : StartPatch(a, k)) \/ AbortPatch(a)
              \/ \E v \in Views : EditText(v) \/ DeleteView(v)
              \/ \E w \in Workspaces : RestoreWorkspace(w)
              \/ UNCHANGED vars
       PROVE  row' = row /\ told' = told /\ era' = era
  BY <1>10 DEF Send, GiveUp, PutReplayed, PutRefused, Expire, RejectPatch, StartPatch,
               AbortPatch, EditText, DeleteView, RestoreWorkspace, vars
<1>11. ~Delete
  BY DEF Delete
<1>12. ASSUME NEW w \in Workspaces, DeleteWorkspace(w) PROVE CuredNext(n)
  <2>1. told' = told /\ sets' = sets
    BY <1>12 DEF DeleteWorkspace
  <2>2. row # None /\ row'.version = row.version /\ era' = era
    <3>1. row # None
      BY <1>12 DEF DeleteWorkspace
    <3> QED BY <1>12, <3>1, Types DEF DeleteWorkspace, Row
  <2>3. Cured(n)
    BY <2>1, <2>2 DEF Announced
  <2> QED BY <1>1, <2>2, <2>3
<1> QED BY <1>2, <1>3, <1>5, <1>6, <1>7, <1>8, <1>9, <1>10, <1>11, <1>12 DEF Next, Storing

LEMMA AtomicStep == ASSUME Lineage, CurationAtomic, [Next]_vars PROVE CurationAtomic'
<1> USE DEF stored, clientVars
<1> TypeOK
  BY DEF Lineage
<1>1. ASSUME NEW k \in Patches, NEW s \in States, NEW text \in Views \cup {None},
             CommitCuration(k, s, text)
      PROVE  /\ \A p \in Patches : outcomes'[p] = "applied" => outcomes[p] = "applied" \/ p = k
             /\ \E i \in SetIds : /\ sets'[i] # None /\ sets'[i].op = k
                                  /\ sets'[i].text = text /\ sets'[i].status = "applied"
  BY <1>1, CurationRecords, NotNone DEF TypeOK
<1>2. ASSUME NEW k \in Patches, PatchAtOnce(k)
      PROVE  /\ \A p \in Patches : outcomes'[p] = "applied" => outcomes[p] = "applied" \/ p = k
             /\ \E i \in SetIds : sets'[i] # None /\ sets'[i].op = k
             /\ views' = views
  <2>1. (\E s \in States : CommitCuration(k, s, None)) /\ views' = views
    BY <1>2, Types, StatesClosed DEF PatchAtOnce, CommitCuration, States
  <2> QED BY <1>1, <2>1
<1>3. ASSUME NEW a \in Agents, FinishPatch(a)
      PROVE  \E v \in Views :
                /\ \A p \in Patches :
                      outcomes'[p] = "applied" => outcomes[p] = "applied" \/ p = call[a]
                /\ \E i \in SetIds : /\ sets'[i] # None /\ sets'[i].op = call[a]
                                     /\ sets'[i].text = v /\ sets'[i].status = "applied"
                /\ views' = [views EXCEPT ![v] = "live"]
  <2>1. call[a] \in Patches
    BY <1>3 DEF FinishPatch, TypeOK
  <2>2. PICK v \in Views :
          /\ CommitCuration(call[a], [row.state EXCEPT !.members = @ \cup {v}], v)
          /\ views' = [views EXCEPT ![v] = "live"]
    BY <1>3 DEF FinishPatch
  <2>3. [row.state EXCEPT !.members = @ \cup {v}] \in States
    <3>1. row # None
      BY <2>2 DEF CommitCuration
    <3>2. row.state \in States
      BY <3>1, Types
    <3> QED BY <3>2 DEF States
  <2> DEFINE s == [row.state EXCEPT !.members = @ \cup {v}]
  <2> HIDE DEF s
  <2>4. call[a] \in Patches /\ s \in States /\ v \in Views \cup {None} /\ CommitCuration(call[a], s, v)
    BY <2>1, <2>2, <2>3 DEF s
  <2>5. /\ \A p \in Patches : outcomes'[p] = "applied" => outcomes[p] = "applied" \/ p = call[a]
        /\ \E i \in SetIds : /\ sets'[i] # None /\ sets'[i].op = call[a]
                             /\ sets'[i].text = v /\ sets'[i].status = "applied"
    BY <1>1, <2>4
  <2> QED BY <2>2, <2>5
<1>4. ASSUME NEW k \in Patches, outcomes'[k] = "applied"
      PROVE  \E i \in SetIds : sets'[i] # None /\ sets'[i].op = k
  <2>1. CASE outcomes[k] = "applied"
    BY <2>1, SetsStay DEF CurationAtomic
  <2>2. CASE \E p \in Patches : PatchAtOnce(p)
    BY <1>2, <1>4, <2>1, <2>2
  <2>3. CASE \E a \in Agents : FinishPatch(a)
    BY <1>3, <1>4, <2>1, <2>3
  <2>4. CASE \/ Delete \/ Restart
             \/ \E c \in Clients : \/ Send(c) \/ GiveUp(c)
                                   \/ PutReplayed(c) \/ PutStored(c) \/ PutRefused(c)
             \/ \E o \in Ops : Expire(o)
             \/ \E p \in Patches : RejectPatch(p)
             \/ \E a \in Agents : (\E p \in Patches : StartPatch(a, p)) \/ AbortPatch(a)
             \/ \E i \in SetIds : Revert(i) \/ Reapply(i) \/ CrashWhileToggling(i)
             \/ \E c \in Clients : CrashWhileStoring(c)
             \/ \E v \in Views : EditText(v) \/ DeleteView(v)
             \/ \E w \in Workspaces : DeleteWorkspace(w) \/ RestoreWorkspace(w)
             \/ UNCHANGED vars
    <3>1. outcomes[k] = "applied"
      BY <1>4, <2>4 DEF Delete, Restart, Send, GiveUp, PutReplayed, PutStored, PutRefused,
                        CrashWhileStoring, Store, Expire, RejectPatch, StartPatch, AbortPatch,
                        Revert, Reapply, CrashWhileToggling, EditText, DeleteView,
                        DeleteWorkspace, RestoreWorkspace, vars, TypeOK
    <3> QED BY <2>1, <3>1
  <2> QED BY <2>2, <2>3, <2>4 DEF Next
<1>5. ASSUME NEW v \in Views \ Imported, Present(v), Present(v)',
             \A i \in SetIds : ~(Revert(i) /\ sets[i].text = v)
      PROVE  \E i \in SetIds : /\ sets'[i] # None /\ sets'[i].text = v
                               /\ sets'[i].status = "applied"
  <2>1. PICK i \in SetIds : sets[i] # None /\ sets[i].text = v /\ sets[i].status = "applied"
    BY <1>5 DEF CurationAtomic
  <2>2. ~Revert(i) /\ ~Reapply(i)
    BY <1>5, <2>1 DEF Reapply, Redoable
  <2>3. sets'[i] = sets[i]
    BY <2>1, <2>2, SetStep
  <2> QED BY <2>1, <2>3
<1>6. ASSUME NEW v \in Views \ Imported, Present(v)'
      PROVE  \E i \in SetIds : /\ sets'[i] # None /\ sets'[i].text = v
                               /\ sets'[i].status = "applied"
  <2>1. CASE \E a \in Agents : FinishPatch(a)
    <3>1. PICK w \in Views :
            /\ \E i \in SetIds : /\ sets'[i] # None /\ sets'[i].text = w
                                 /\ sets'[i].status = "applied"
            /\ views' = [views EXCEPT ![w] = "live"]
      BY <1>3, <2>1
    <3>2. CASE v = w
      BY <3>1, <3>2
    <3>3. CASE v # w
      <4>1. Present(v)
        BY <1>6, <3>1, <3>3 DEF Present, TypeOK
      <4>2. \A i \in SetIds : ~Revert(i)
        BY <2>1 DEF FinishPatch, Revert, TypeOK
      <4> QED BY <1>5, <1>6, <4>1, <4>2
    <3> QED BY <3>2, <3>3
  <2>2. CASE \E i \in SetIds : Revert(i)
    <3>1. PICK j \in SetIds : Revert(j)
      BY <2>2
    <3>2. /\ Present(v) /\ v # sets[j].text
      BY <1>6, <3>1 DEF Revert, WithoutText, Present, TypeOK
    <3>3. \A i \in SetIds : Revert(i) => i = j
      BY <3>1, Toggles
    <3> QED BY <1>5, <1>6, <3>2, <3>3
  <2>3. CASE /\ ~ \E a \in Agents : FinishPatch(a)
             /\ ~ \E i \in SetIds : Revert(i)
    <3>1. ASSUME NEW i \in SetIds, Reapply(i) PROVE views' = views
      BY <3>1 DEF Reapply
    <3>4. ASSUME NEW i \in SetIds, CrashWhileToggling(i) PROVE Present(v)
      BY <1>6, <3>4, CutToggles DEF Present
    <3>5. ASSUME NEW w \in Workspaces, DeleteWorkspace(w) \/ RestoreWorkspace(w)
          PROVE  Present(v)
      <4>1. v # w
        BY PresentationsAssumption
      <4> QED BY <1>6, <3>5, <4>1 DEF DeleteWorkspace, RestoreWorkspace, Present, TypeOK
    <3>6. ASSUME NEW c \in Clients, Storing(c) PROVE views' = views
      BY <3>6, Stores DEF Storing, PutStored, CrashWhileStoring
    <3>2. Present(v)
      BY <1>2, <1>6, <2>3, <3>1, <3>4, <3>5, <3>6
         DEF Next, Storing, vars, Delete, Restart, Send, GiveUp, PutReplayed, PutRefused,
             Expire, RejectPatch, StartPatch, AbortPatch, EditText, DeleteView,
             Present, TypeOK
    <3> QED BY <1>5, <1>6, <2>3, <3>2
  <2> QED BY <2>1, <2>2, <2>3
<1> QED BY <1>4, <1>6 DEF CurationAtomic

-----------------------------------------------------------------------------
(* The theorems *)

LEMMA InitInv == Init => IInv
<1> SUFFICES ASSUME Init PROVE IInv
  OBVIOUS
<1> USE DEF Init
<1>1. Lineage /\ StrippedIsGone
  BY DEF Lineage, TypeOK, StrippedIsGone
<1>2. IdsAreUsedOnce /\ ReceiptIsRecent /\ RetryIsBehind /\ OneEffect
  BY DEF IdsAreUsedOnce, ReceiptIsRecent, RetryIsBehind, BehindReceipt, BehindRow, OneEffect
<1>3. Announced /\ CurationAtomic
  BY DEF Announced, CurationAtomic, Present
<1> QED BY <1>1, <1>2, <1>3 DEF IInv

LEMMA StepInv == IInv /\ [Next]_vars => IInv'
<1> SUFFICES ASSUME IInv, [Next]_vars PROVE IInv'
  OBVIOUS
<1>1. TypeOK
  BY DEF IInv, Lineage
<1> QED BY <1>1, LineageStep, GoneStep, IdsStep, RecentStep, BehindStep, OneEffectStep,
           AnnouncedStep, AtomicStep DEF IInv

\* The inductive invariant: lineage, the operation ids, the retries, announcements and
\* the atomicity of patches.
THEOREM Invariance == Spec => []IInv
BY InitInv, StepInv, PTL DEF Spec

\* One version, one state: what receipts, change sets and requests remember of a
\* version was the row's state under that version, and still is, but for the workspaces
\* that were deleted under it.
THEOREM VersionsNameStates == Spec => []Lineage
<1>1. IInv => Lineage
  BY DEF IInv
<1> QED BY <1>1, Invariance, PTL

\* A retried operation is stored once, unless it created the presentation and its
\* receipt was lost.
THEOREM RetriesHaveOneEffect == Spec => []OneEffect
<1>1. IInv => OneEffect
  BY DEF IInv
<1> QED BY <1>1, Invariance, PTL

\* Every version is announced but those of patches.
THEOREM VersionsAreAnnounced == Spec => []Announced
<1>1. IInv => Announced
  BY DEF IInv
<1> QED BY <1>1, Invariance, PTL

\* A patch leaves its change set, and its text lives only with an applied one.
THEOREM PatchesAreAtomic == Spec => []CurationAtomic
<1>1. IInv => CurationAtomic
  BY DEF IInv
<1> QED BY <1>1, Invariance, PTL

\* A save replaces the state its author last saw, less the workspaces deleted since,
\* within an incarnation.
THEOREM NoUpdateIsLost == Spec => NoLostUpdate
<1> DEFINE A == \A c \in Clients :
                   Store(c) /\ req[c].base # None /\ req[c].base.era = era
                     => row # None /\ row.state = Left(req[c].base.state)
<1>1. IInv /\ [Next]_vars => [A]_vars
  <2> SUFFICES ASSUME IInv, NEW c \in Clients, Store(c), req[c].base # None,
                      req[c].base.era = era
               PROVE  row # None /\ row.state = Left(req[c].base.state)
    OBVIOUS
  <2>1. TypeOK /\ Lineage
    BY DEF IInv, Lineage
  <2>2. row # None /\ (req[c].base.version = row.version => row.state = Left(req[c].base.state))
    BY <2>1, StoresFor DEF Lineage, AtMostNow
  <2>3. req[c].base.version = row.version
    BY <2>1, <2>2, Stores, StoresFor DEF Expected
  <2> QED BY <2>2, <2>3
<1> QED BY <1>1, Invariance, PTL DEF Spec, NoLostUpdate

\* Undo and redo exchange exactly the two recorded states, the one to undo less the
\* workspaces deleted since, within an incarnation.
THEOREM TogglesAreExact == Spec => ToggleIsExact
<1> DEFINE A == \A i \in SetIds :
                   sets[i] # None /\ sets'[i] # None /\ sets'[i].status # sets[i].status
                   /\ sets[i].era = era
                     => /\ row # None /\ row' # None
                        /\ <<row.state, row'.state>> =
                             IF sets[i].status = "applied"
                             THEN <<Left(sets[i].forward), sets[i].inverse>>
                             ELSE <<sets[i].inverse, sets[i].forward>>
<1>1. IInv /\ [Next]_vars => [A]_vars
  <2> SUFFICES ASSUME IInv, [Next]_vars, NEW i \in SetIds,
                      sets[i] # None, sets'[i] # None,
                      sets'[i].status # sets[i].status, sets[i].era = era
               PROVE  /\ row # None /\ row' # None
                      /\ sets[i].status = "applied" =>
                           row.state = Left(sets[i].forward) /\ row'.state = sets[i].inverse
                      /\ sets[i].status # "applied" =>
                           row.state = sets[i].inverse /\ row'.state = sets[i].forward
    OBVIOUS
  <2>1. TypeOK /\ Lineage
    BY DEF IInv, Lineage
  <2>2. Revert(i) \/ Reapply(i)
    BY <2>1, SetStep
  <2>3. sets[i] \in ChangeSet /\ sets[i].inverse \in States /\ sets[i].forward \in States
    BY <2>1, Types DEF ChangeSet
  <2>4. CASE Revert(i)
    <3>1. row # None /\ row.version = sets[i].after /\ sets[i].status = "applied"
          /\ Write(sets[i].inverse)
      BY <2>4 DEF Revert, Undoable, Untouched, Save
    <3> QED BY <2>1, <2>3, <3>1, Writes DEF Lineage, AtMostNow
  <2>5. CASE Reapply(i)
    <3>1. row # None /\ row.state = sets[i].inverse /\ sets[i].status = "reverted"
          /\ Write(sets[i].forward)
      BY <2>5 DEF Reapply, Redoable, Save
    <3> QED BY <2>1, <2>3, <3>1, Writes
  <2> QED BY <2>2, <2>4, <2>5
<1> QED BY <1>1, Invariance, PTL DEF Spec, ToggleIsExact

-----------------------------------------------------------------------------
(* Patches committed once.  Two calls that suspend with the same operation  *)
(* id both commit, as CurationOnce.cfg shows.  That is the only way:        *)
(* without it an id is committed once, through retries, restarts, undos and *)
(* deletions.                                                               *)

\* No two calls work on the same operation id at the same time.
OneCallPerPatch == \A a, b \in Agents : call[a] # None /\ call[a] = call[b] => a = b

\* A committed id has its receipt, and no call works on it any more.
CommittedIsOver ==
    /\ \A i \in SetIds : sets[i] # None /\ sets[i].op \in Patches =>
          /\ outcomes[sets[i].op] # "none"
          /\ \A a \in Agents : call[a] # sets[i].op
    /\ \A a \in Agents : call[a] # None => call[a] \in Drafting

OnceInv == CommittedIsOver /\ CurationOnce

\* What a step does to calls, receipts and sets, the commits of patches apart.
LEMMA Uncommitted ==
    ASSUME TypeOK, Next, \A k \in Patches : ~PatchAtOnce(k), \A a \in Agents : ~FinishPatch(a)
    PROVE  /\ \A k \in Patches : outcomes'[k] = outcomes[k] \/ outcomes'[k] # "none"
           /\ \A a \in Agents : \/ call'[a] = call[a] \/ call'[a] = None
                                \/ /\ call'[a] \in Drafting
                                   /\ outcomes[call'[a]] = "none"
           /\ \A i \in SetIds : \/ sets'[i] = sets[i]
                                \/ sets[i] = None /\ sets'[i].op \in Ops
                                \/ /\ sets[i] # None /\ sets'[i].op = sets[i].op
<1> USE DEF stored, clientVars
<1>1. ASSUME NEW c \in Clients, PutReplayed(c) \/ PutStored(c), NEW i \in SetIds
      PROVE  \/ sets'[i] = sets[i]
             \/ sets[i] = None /\ sets'[i].op \in Ops
  <2>1. CASE PutReplayed(c)
    <3>1. /\ req[c].op \in Ops /\ receipts[req[c].op] \in Saved
          /\ RecordMembership(req[c].op, row, receipts[req[c].op])
      BY <2>1, Types DEF PutReplayed, Known, Request
    <3> QED BY <3>1, RecordsMembership
  <2>2. CASE PutStored(c)
    <3> DEFINE saved == [version |-> NextVersion, state |-> req[c].state, era |-> era]
    <3>1. /\ req[c].op \in Ops /\ saved \in Saved
          /\ RecordMembership(req[c].op, row, saved)
      BY <2>2, StoresFor, Types DEF PutStored, Saved, TypeOK
    <3> HIDE DEF saved
    <3> QED BY <3>1, RecordsMembership
  <2> QED BY <1>1, <2>1, <2>2
<1>2. CASE \E c \in Clients : PutReplayed(c) \/ PutStored(c)
  <2>1. UNCHANGED <<call, outcomes>>
    BY <1>2 DEF PutReplayed, PutStored, Store
  <2> QED BY <1>1, <1>2, <2>1
<1>3. CASE \E i \in SetIds : Revert(i) \/ Reapply(i)
  <2>1. /\ UNCHANGED <<call, outcomes>>
        /\ \A j \in SetIds : sets[j] # None => sets'[j].op = sets[j].op
        /\ \A j \in SetIds : sets'[j] # None => sets[j] # None
    BY <1>3, Toggles
  <2>2. \A j \in SetIds : sets[j] = None => sets'[j] = None
    BY <2>1
  <2> QED BY <2>1, <2>2
<1>4. CASE \E k \in Patches : RejectPatch(k)
  BY <1>4 DEF RejectPatch, TypeOK
<1>5. CASE \E a \in Agents : AbortPatch(a)
  BY <1>5 DEF AbortPatch, TypeOK
<1>6. CASE \E a \in Agents, k \in Patches : StartPatch(a, k)
  BY <1>6 DEF StartPatch, TypeOK
<1>7. CASE \/ Delete \/ Restart
           \/ \E c \in Clients : Send(c) \/ GiveUp(c) \/ PutRefused(c) \/ CrashWhileStoring(c)
           \/ \E o \in Ops : Expire(o)
           \/ \E i \in SetIds : CrashWhileToggling(i)
           \/ \E v \in Views : EditText(v) \/ DeleteView(v)
           \/ \E w \in Workspaces : DeleteWorkspace(w) \/ RestoreWorkspace(w)
  BY <1>7 DEF Delete, Restart, Forget, Send, GiveUp, PutRefused, CrashWhileStoring, Store,
              Expire, CrashWhileToggling, EditText, DeleteView, DeleteWorkspace,
              RestoreWorkspace, TypeOK
<1> QED BY <1>2, <1>3, <1>4, <1>5, <1>6, <1>7 DEF Next

\* A commit is of an id that was not committed, and nobody works on it afterwards.
LEMMA Committed ==
    ASSUME TypeOK, CommittedIsOver, OneCallPerPatch, NEW k \in Patches,
           PatchAtOnce(k) \/ \E a \in Agents : FinishPatch(a) /\ call[a] = k
    PROVE  /\ \A i \in SetIds : sets[i] # None => sets[i].op # k
           /\ \A a \in Agents : call'[a] # k /\ (call'[a] = call[a] \/ call'[a] = None)
           /\ outcomes' = [outcomes EXCEPT ![k] = "applied"]
           /\ \E i \in SetIds : /\ sets'[i] # None /\ sets'[i].op = k
                                /\ \A j \in SetIds : j # i => sets'[j] = sets[j]
<1> USE DEF stored, clientVars
<1> k # None
  BY PresentationsAssumption
<1>1. ASSUME NEW s \in States, NEW text \in Views \cup {None}, CommitCuration(k, s, text)
      PROVE  /\ outcomes' = [outcomes EXCEPT ![k] = "applied"]
             /\ \E i \in SetIds : /\ sets'[i] # None /\ sets'[i].op = k
                                  /\ \A j \in SetIds : j # i => sets'[j] = sets[j]
  BY <1>1, CurationRecords, NotNone
<1>2. CASE PatchAtOnce(k)
  <2>1. /\ k \notin Drafting /\ outcomes[k] = "none" /\ call' = call
    BY <1>2 DEF PatchAtOnce
  <2>2. \E s \in States : CommitCuration(k, s, None)
    BY <1>2, Types, StatesClosed DEF PatchAtOnce, CommitCuration, States
  <2>3. \A a \in Agents : call[a] # k
    BY <2>1 DEF CommittedIsOver
  <2>4. \A i \in SetIds : sets[i] # None => sets[i].op # k
    BY <2>1 DEF CommittedIsOver
  <2> QED BY <1>1, <2>1, <2>2, <2>3, <2>4
<1>3. ASSUME NEW a \in Agents, FinishPatch(a), call[a] = k
      PROVE  /\ \A i \in SetIds : sets[i] # None => sets[i].op # k
             /\ \A b \in Agents : call'[b] # k /\ (call'[b] = call[b] \/ call'[b] = None)
             /\ \E s \in States, v \in Views : CommitCuration(k, s, v)
  <2>1. call' = [call EXCEPT ![a] = None]
    BY <1>3 DEF FinishPatch
  <2>2. \E s \in States, v \in Views : CommitCuration(k, s, v)
    BY <1>3, Types, StatesClosed DEF FinishPatch, CommitCuration, States
  <2>3. \A b \in Agents : b # a => call[b] # k
    BY <1>3 DEF OneCallPerPatch
  <2> QED BY <1>3, <2>1, <2>2, <2>3 DEF CommittedIsOver, TypeOK
<1> QED BY <1>1, <1>2, <1>3

LEMMA OnceStep == ASSUME Lineage, OnceInv, OneCallPerPatch, [Next]_vars PROVE OnceInv'
<1> TypeOK
  BY DEF Lineage
<1> USE DEF OnceInv
<1>1. ASSUME NEW k \in Patches,
             PatchAtOnce(k) \/ \E a \in Agents : FinishPatch(a) /\ call[a] = k
      PROVE  OnceInv'
  <2>1. /\ \A i \in SetIds : sets[i] # None => sets[i].op # k
        /\ \A a \in Agents : call'[a] # k /\ (call'[a] = call[a] \/ call'[a] = None)
        /\ \A p \in Patches : outcomes'[p] = IF p = k THEN "applied" ELSE outcomes[p]
    BY <1>1, Committed DEF TypeOK
  <2>2. PICK i \in SetIds : /\ sets'[i] # None /\ sets'[i].op = k
                            /\ \A j \in SetIds : j # i => sets'[j] = sets[j]
    BY <1>1, Committed
  <2>3. CommittedIsOver'
    <3>1. ASSUME NEW j \in SetIds, sets'[j] # None, sets'[j].op \in Patches
          PROVE  /\ outcomes'[sets'[j].op] # "none"
                 /\ \A a \in Agents : call'[a] # sets'[j].op
      <4>1. CASE j = i
        BY <2>1, <2>2, <4>1
      <4>2. CASE j # i
        <5>1. sets'[j] = sets[j] /\ sets[j].op # k
          BY <2>1, <2>2, <3>1, <4>2
        <5>2. outcomes[sets[j].op] # "none" /\ \A a \in Agents : call[a] # sets[j].op
          BY <3>1, <5>1 DEF CommittedIsOver
        <5>3. sets[j].op # None
          BY <3>1, <5>1, PresentationsAssumption
        <5> QED BY <2>1, <3>1, <5>1, <5>2, <5>3
      <4> QED BY <4>1, <4>2
    <3> QED BY <2>1, <3>1 DEF CommittedIsOver
  <2>4. CurationOnce'
    BY <2>1, <2>2 DEF CurationOnce
  <2> QED BY <2>3, <2>4
<1>2. CASE Next /\ (\A k \in Patches : ~PatchAtOnce(k)) /\ \A a \in Agents : ~FinishPatch(a)
  <2>1. /\ \A k \in Patches : outcomes'[k] = outcomes[k] \/ outcomes'[k] # "none"
        /\ \A a \in Agents : \/ call'[a] = call[a] \/ call'[a] = None
                             \/ call'[a] \in Drafting /\ outcomes[call'[a]] = "none"
        /\ \A i \in SetIds : \/ sets'[i] = sets[i]
                             \/ sets[i] = None /\ sets'[i].op \in Ops
                             \/ sets[i] # None /\ sets'[i].op = sets[i].op
    BY <1>2, Uncommitted
  <2>2. ASSUME NEW i \in SetIds, sets'[i] # None, sets'[i].op \in Patches
        PROVE  sets[i] # None /\ sets[i].op = sets'[i].op
    BY <2>1, <2>2, PresentationsAssumption
  <2>3. CommittedIsOver'
    <3>1. ASSUME NEW i \in SetIds, sets'[i] # None, sets'[i].op \in Patches
          PROVE  /\ outcomes'[sets'[i].op] # "none"
                 /\ \A a \in Agents : call'[a] # sets'[i].op
      <4>1. /\ sets[i] # None /\ sets[i].op = sets'[i].op
            /\ outcomes[sets'[i].op] # "none"
            /\ \A a \in Agents : call[a] # sets'[i].op
        BY <2>2, <3>1 DEF CommittedIsOver
      <4>2. sets'[i].op # None
        BY <3>1, PresentationsAssumption
      <4> QED BY <2>1, <3>1, <4>1, <4>2
    <3> QED BY <2>1, <3>1 DEF CommittedIsOver
  <2>4. CurationOnce'
    BY <2>2 DEF CurationOnce
  <2> QED BY <2>3, <2>4
<1>3. CASE UNCHANGED vars
  BY <1>3 DEF vars, stored, clientVars, CommittedIsOver, CurationOnce
<1>4. ASSUME NEW a \in Agents, FinishPatch(a) PROVE call[a] \in Patches
  BY <1>4 DEF FinishPatch, TypeOK
<1> QED BY <1>1, <1>2, <1>3, <1>4

\* curation-command-service.ts:157: as long as no two calls work on one operation id at
\* the same time, the id is committed once and a retry gets the receipt of the first call.
THEOREM CurationIsOnceApart == Spec /\ []OneCallPerPatch => []CurationOnce
<1>1. Init => OnceInv
  BY PresentationsAssumption DEF Init, OnceInv, CommittedIsOver, CurationOnce
<1>2. IInv /\ OnceInv /\ OneCallPerPatch /\ [Next]_vars => OnceInv'
  BY OnceStep DEF IInv
<1>3. OnceInv => CurationOnce
  BY DEF OnceInv
<1> QED BY <1>1, <1>2, <1>3, Invariance, PTL DEF Spec

===============================================================================
