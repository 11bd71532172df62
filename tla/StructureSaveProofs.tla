-------------------------- MODULE StructureSaveProofs --------------------------
(***************************************************************************)
(* The properties of StructureSave for every set of edits and every number *)
(* of faults: a save loses no stored edit, the gate means that the tab is  *)
(* behind, and an edit that is not stored is pending.                      *)
(*                                                                         *)
(* The compare-and-swap alone does not give the first one: the tab's       *)
(* structure must contain what was stored under the version it claims, the *)
(* agents' edits in `skipped` apart, which the tab left out.               *)
(* The invariant says so of every place a version is kept in, the tab, its *)
(* PUT, a reload and the updates of the stream, against the history `past` *)
(* of what was stored under each version.                                  *)
(***************************************************************************)
EXTENDS StructureSave, TLAPS

\* What was stored under a version.
At(v) == past[v + 1]

\* The history ends with the stored canvas, and only a race takes edits away, except
\* those the tab left out.
PastIsStored ==
    /\ Len(past) = server.version + 1
    /\ At(server.version) = server.edits
    /\ \A v \in 0..server.version : raced \/ At(v) \subseteq server.edits \cup skipped

\* The tab contains what was stored under its version, or has left it out.
TabCoversItsVersion ==
    /\ version <= server.version
    /\ raced \/ At(version) \subseteq shown \cup skipped

\* So does the body of a PUT, and its answer is about edits that are still shown.
PutCoversItsVersion ==
    /\ put # None /\ put.phase \in {"sent", "saved", "conflict"} => put.version <= server.version
    /\ put # None /\ put.phase = "sent" /\ ~raced =>
          At(put.version) \subseteq put.edits \cup skipped /\ put.edits \subseteq shown
    /\ put # None /\ put.phase = "saved" /\ ~raced => At(put.version) \subseteq shown

\* A reload brings what was stored under the version it names.
ReloadIsStored ==
    load # None /\ load.phase = "read" =>
        /\ load.canvas.version <= server.version
        /\ load.canvas.edits = At(load.canvas.version)

\* An update leads from one version to the next.
UpdateIsStored(u) ==
    u.type = "update" =>
        /\ u.toVersion = u.fromVersion + 1 /\ u.toVersion <= server.version
        /\ At(u.toVersion) = At(u.fromVersion) \cup {u.edit}
UpdatesAreStored == \A i \in 1..Len(events) : UpdateIsStored(events[i])

\* A reload starts with the gate open.
ReloadOpensGate == load # None /\ conflict # None => raced

\* isSaving says that a PUT is in flight, which the gate lets none be; edits made
\* since wait for the next.
EditsWait ==
    /\ saving => put # None
    /\ put # None => saving
    /\ conflict # None => put = None
    /\ put # None /\ put.phase = "sent" =>
          shown \subseteq put.edits \cup server.edits \cup skipped \/ timer \/ again \/ raced
    /\ put # None /\ put.phase = "saved" =>
          shown \subseteq server.edits \cup skipped \/ timer \/ again \/ raced

IInv ==
    /\ PastIsStored /\ TabCoversItsVersion /\ PutCoversItsVersion
    /\ ReloadIsStored /\ UpdatesAreStored /\ ReloadOpensGate /\ EditsWait
    /\ GateMeansBehind /\ UnsavedIsPending

\* What the types say of what is in flight.
LEMMA Types ==
    ASSUME TypeOK
    PROVE  /\ server \in Canvas /\ server.version \in Nat /\ server.edits \subseteq Edits
           /\ version \in Nat /\ shown \subseteq Edits
           /\ past \in Seq(SUBSET Edits)
           /\ conflict # None => conflict \in Nat
           /\ put # None /\ put.phase \in {"sent", "saved", "conflict"} => put.version \in Nat
           /\ put # None /\ put.phase = "sent" => put.edits \subseteq Edits
           /\ put # None => put.phase \in {"sent", "saved", "conflict", "failed"}
           /\ load # None => load.phase \in {"sent", "read", "failed"}
           /\ load # None /\ load.phase = "read" => load.canvas \in Canvas
           /\ skipped \subseteq Edits
           /\ events \in Seq(Update \cup Snapshot)
           /\ \A k \in 1..Len(events) : events[k] \in Update \cup Snapshot
BY StructureSaveAssumption DEF TypeOK, Put, Load, Canvas, Edits

\* No request is None.
LEMMA NotNone ==
    /\ \A v \in Nat, e \in SUBSET Edits : [phase |-> "sent", version |-> v, edits |-> e] # None
    /\ \A v \in Nat : /\ [phase |-> "saved", version |-> v] # None
                      /\ [phase |-> "conflict", version |-> v] # None
    /\ [phase |-> "failed"] # None /\ [phase |-> "sent"] # None
    /\ \A c \in Canvas : [phase |-> "read", canvas |-> c] # None
BY StructureSaveAssumption DEF Put, Load

\* Storing leaves the history as it was, and ends it with what is stored.
LEMMA StoreKeeps ==
    ASSUME TypeOK, PastIsStored, NEW edits \in SUBSET Edits, Store(edits)
    PROVE  /\ server'.version = server.version + 1 /\ server'.edits = edits
           /\ Len(past') = server.version + 2
           /\ past'[server.version + 2] = edits
           /\ \A v \in 0..server.version : past'[v + 1] = past[v + 1]
           /\ raced' = raced /\ silent' = silent /\ skipped' = skipped
BY Types DEF PastIsStored, Store

\* So the updates and the reloads that it explained are explained still.
LEMMA StoreKeepsUpdates ==
    ASSUME TypeOK, PastIsStored, NEW edits \in SUBSET Edits, Store(edits),
           NEW u \in Update \cup Snapshot, UpdateIsStored(u)
    PROVE  UpdateIsStored(u)'
<1>1. CASE u.type = "update"
  <2>1. /\ u.fromVersion \in Nat /\ u.toVersion \in Nat
        /\ u.toVersion = u.fromVersion + 1 /\ u.toVersion <= server.version
    BY <1>1 DEF Update, Snapshot, UpdateIsStored
  <2>3. u.fromVersion \in 0..server.version /\ u.toVersion \in 0..server.version
    BY <2>1, Types
  <2>2. /\ past'[u.fromVersion + 1] = past[u.fromVersion + 1]
        /\ past'[u.toVersion + 1] = past[u.toVersion + 1]
    BY <2>3, StoreKeeps
  <2> QED BY <1>1, <2>1, <2>2, StoreKeeps, Types DEF UpdateIsStored, At
<1>2. CASE u.type # "update"
  BY <1>2 DEF UpdateIsStored
<1> QED BY <1>1, <1>2

LEMMA StoreKeepsReload ==
    ASSUME TypeOK, PastIsStored, NEW edits \in SUBSET Edits, Store(edits),
           ReloadIsStored, UNCHANGED load
    PROVE  ReloadIsStored'
<1> SUFFICES ASSUME load # None, load.phase = "read"
             PROVE  /\ load.canvas.version <= server'.version
                    /\ load.canvas.edits = past'[load.canvas.version + 1]
  BY DEF ReloadIsStored, At
<1>1. load.canvas.version \in 0..server.version
  BY Types DEF ReloadIsStored, Canvas
<1>2. past'[load.canvas.version + 1] = past[load.canvas.version + 1]
  BY <1>1, StoreKeeps
<1> QED BY <1>1, <1>2, StoreKeeps, Types DEF ReloadIsStored, At

\* A canvas just loaded is what is stored.
LEMMA InitInv == Init => IInv
<1> SUFFICES ASSUME Init PROVE IInv
  OBVIOUS
<1>1. TypeOK
  <2>1. server \in Canvas
    BY DEF Init, Canvas, Edits
  <2>2. past \in Seq(SUBSET Edits)
    BY DEF Init, Edits
  <2>3. events \in Seq(Update \cup Snapshot)
    BY DEF Init
  <2>4. shown \subseteq Edits /\ {faults, breaks} \subseteq Nat
    BY DEF Init
  <2> QED BY <2>1, <2>2, <2>3, <2>4 DEF Init, TypeOK
<1>2. PastIsStored /\ TabCoversItsVersion
  BY DEF Init, PastIsStored, TabCoversItsVersion, At
<1>3. PutCoversItsVersion /\ ReloadIsStored /\ UpdatesAreStored /\ ReloadOpensGate
  BY DEF Init, PutCoversItsVersion, ReloadIsStored, UpdatesAreStored, ReloadOpensGate
<1>4. EditsWait /\ GateMeansBehind /\ UnsavedIsPending
  BY <1>1 DEF Init, EditsWait, GateMeansBehind, UnsavedIsPending
<1> QED BY <1>1, <1>2, <1>3, <1>4 DEF IInv

\* The user's edit waits for the debounce.
LEMMA EditInv == ASSUME IInv, Edit PROVE IInv'
<1> USE StructureSaveAssumption DEF IInv, Edit, saver, sync, counts, history
<1>0. TypeOK
  BY DEF GateMeansBehind
<1>1. TypeOK'
  BY <1>0 DEF TypeOK, Put, Load, Canvas, Update, Snapshot, Edits
<1>2. PastIsStored'
  BY <1>0, Types DEF PastIsStored, At
<1>3. TabCoversItsVersion'
  BY <1>0, Types DEF TabCoversItsVersion, At
<1>4. PutCoversItsVersion'
  BY <1>0, Types DEF PutCoversItsVersion, TabCoversItsVersion, At
<1>5. ReloadIsStored'
  BY <1>0, Types DEF ReloadIsStored, At
<1>6. UpdatesAreStored'
  BY <1>0, Types DEF UpdatesAreStored, UpdateIsStored, At
<1>7. ReloadOpensGate'
  BY <1>0, Types DEF ReloadOpensGate
<1>8. EditsWait'
  BY <1>0, Types, NotNone DEF EditsWait, PutCoversItsVersion, UnsavedIsPending
<1>9. GateMeansBehind'
  BY <1>0, Types, <1>1 DEF GateMeansBehind, ReloadOpensGate
<1>10. UnsavedIsPending'
  BY <1>0, Types, NotNone DEF UnsavedIsPending, EditsWait, PutCoversItsVersion
<1> QED BY <1>1, <1>2, <1>3, <1>4, <1>5, <1>6, <1>7, <1>8, <1>9, <1>10

\* The save takes the structure and the version of the moment.
LEMMA TimerFiresInv == ASSUME IInv, TimerFires PROVE IInv'
<1> USE StructureSaveAssumption DEF IInv, TimerFires, SendFrom, saver, sync, counts, history
<1>0. TypeOK
  BY DEF GateMeansBehind
<1>1. TypeOK'
  <2>1. put' = put \/ put' = [phase |-> "sent", version |-> version, edits |-> shown]
    OBVIOUS
  <2>2. again' \in BOOLEAN /\ saving' \in BOOLEAN /\ timer' \in BOOLEAN
    BY <1>0 DEF TypeOK
  <2>3. put' \in Put \cup {None}
    BY <1>0, <2>1, Types DEF TypeOK, Put
  <2> QED BY <1>0, <2>2, <2>3 DEF TypeOK, Put, Load, Canvas, Update, Snapshot, Edits
<1>2. PastIsStored'
  BY <1>0, Types DEF PastIsStored, At
<1>3. TabCoversItsVersion'
  BY <1>0, Types DEF TabCoversItsVersion, At
<1>4. PutCoversItsVersion'
  BY <1>0, Types DEF PutCoversItsVersion, TabCoversItsVersion, At
<1>5. ReloadIsStored'
  BY <1>0, Types DEF ReloadIsStored, At
<1>6. UpdatesAreStored'
  BY <1>0, Types DEF UpdatesAreStored, UpdateIsStored, At
<1>7. ReloadOpensGate'
  BY <1>0, Types DEF ReloadOpensGate
<1>8. EditsWait'
  BY <1>0, Types, NotNone DEF EditsWait, PutCoversItsVersion, UnsavedIsPending
<1>9. GateMeansBehind'
  BY <1>0, Types, <1>1 DEF GateMeansBehind, ReloadOpensGate
<1>10. UnsavedIsPending'
  BY <1>0, Types, NotNone DEF UnsavedIsPending, EditsWait, PutCoversItsVersion
<1> QED BY <1>1, <1>2, <1>3, <1>4, <1>5, <1>6, <1>7, <1>8, <1>9, <1>10

\* The answer raises the version at most to what is shown.
LEMMA SavedInv == ASSUME IInv, Saved PROVE IInv'
<1> USE StructureSaveAssumption DEF IInv, Saved, Reconcile, Resolved, Finish, SendFrom, saver, sync, counts, history
<1>0. TypeOK
  BY DEF GateMeansBehind
<1>f. /\ again' = FALSE
      /\ \/ saving' = FALSE /\ put' = None
         \/ /\ saving' = TRUE /\ conflict' = None
            /\ put' = [phase |-> "sent", version |-> version', edits |-> shown]
  OBVIOUS
<1>1. TypeOK'
  <2>1. put' \in Put \cup {None}
    BY <1>0, <1>f, Types DEF Put, Reconcile
  <2>2. /\ again' \in BOOLEAN /\ saving' \in BOOLEAN /\ timer' \in BOOLEAN
        /\ silent' \in BOOLEAN /\ raced' \in BOOLEAN
    BY <1>0, <1>f DEF TypeOK
  <2>3. conflict' \in Nat \cup {None} /\ version' \in Nat
    BY <1>0, Types DEF TypeOK
  <2> QED BY <1>0, <2>1, <2>2, <2>3 DEF TypeOK, Put, Load, Canvas, Update, Snapshot, Edits
<1>2. PastIsStored'
  BY <1>0, Types DEF PastIsStored, At
<1>3. TabCoversItsVersion'
  <2>1. version' \in {version, put.version}
    OBVIOUS
  <2>2. put.version <= server.version /\ (raced \/ At(put.version) \subseteq shown)
    BY DEF PutCoversItsVersion
  <2> QED BY <2>1, <2>2 DEF TabCoversItsVersion, At
<1>4. PutCoversItsVersion'
  BY <1>0, Types DEF PutCoversItsVersion, TabCoversItsVersion, At
<1>5. ReloadIsStored'
  BY <1>0, Types DEF ReloadIsStored, At
<1>6. UpdatesAreStored'
  BY <1>0, Types DEF UpdatesAreStored, UpdateIsStored, At
<1>7. ReloadOpensGate'
  BY <1>0, Types DEF ReloadOpensGate
<1>8. EditsWait'
  BY <1>0, Types, NotNone DEF EditsWait, PutCoversItsVersion, UnsavedIsPending
<1>9. GateMeansBehind'
  BY <1>0, Types, <1>1 DEF GateMeansBehind, ReloadOpensGate
<1>10. UnsavedIsPending'
  BY <1>0, Types, NotNone DEF UnsavedIsPending, EditsWait, PutCoversItsVersion
<1> QED BY <1>1, <1>2, <1>3, <1>4, <1>5, <1>6, <1>7, <1>8, <1>9, <1>10

\* A refusal closes the gate or retries.
LEMMA ConflictInv == ASSUME IInv, Conflict PROVE IInv'
<1> USE StructureSaveAssumption DEF IInv, Conflict, Finish, SendFrom, saver, sync, counts, history
<1>0. TypeOK
  BY DEF GateMeansBehind
<1>f. /\ again' = FALSE
      /\ \/ saving' = FALSE /\ put' = None
         \/ /\ saving' = TRUE /\ conflict' = None
            /\ put' = [phase |-> "sent", version |-> version, edits |-> shown]
  OBVIOUS
<1>1. TypeOK'
  <2>1. put' \in Put \cup {None}
    BY <1>0, <1>f, Types DEF Put, Reconcile
  <2>2. /\ again' \in BOOLEAN /\ saving' \in BOOLEAN /\ timer' \in BOOLEAN
        /\ silent' \in BOOLEAN /\ raced' \in BOOLEAN
    BY <1>0, <1>f DEF TypeOK
  <2>3. conflict' \in Nat \cup {None} /\ version' \in Nat
    BY <1>0, Types DEF TypeOK
  <2> QED BY <1>0, <2>1, <2>2, <2>3 DEF TypeOK, Put, Load, Canvas, Update, Snapshot, Edits
<1>2. PastIsStored'
  BY <1>0, Types DEF PastIsStored, At
<1>3. TabCoversItsVersion'
  BY <1>0, Types DEF TabCoversItsVersion, At
<1>4. PutCoversItsVersion'
  <2>1. raced \/ At(version) \subseteq shown \cup skipped
    BY DEF TabCoversItsVersion
  <2>2. version <= server.version /\ (~raced' => ~raced)
    BY DEF TabCoversItsVersion
  <2> QED BY <1>f, <2>1, <2>2 DEF PutCoversItsVersion, At
<1>5. ReloadIsStored'
  BY <1>0, Types DEF ReloadIsStored, At
<1>6. UpdatesAreStored'
  BY <1>0, Types DEF UpdatesAreStored, UpdateIsStored, At
<1>7. ReloadOpensGate'
  BY <1>0, Types DEF ReloadOpensGate
<1>8. EditsWait'
  BY <1>0, Types, NotNone DEF EditsWait, PutCoversItsVersion, UnsavedIsPending
<1>9. GateMeansBehind'
  <2>1. put.version \in Nat /\ version \in Nat /\ version' = version
    BY <1>0, Types
  <2>2. conflict' = conflict \/ (version < put.version /\ conflict' = put.version)
    BY <2>1
  <2>3. (conflict # None => version < conflict \/ raced) /\ (raced => raced')
    BY DEF GateMeansBehind
  <2>4. conflict' # None => version' < conflict' \/ raced'
    BY <2>1, <2>2, <2>3
  <2> QED BY <1>1, <2>4 DEF GateMeansBehind
<1>10. UnsavedIsPending'
  BY <1>0, Types, NotNone DEF UnsavedIsPending, EditsWait, PutCoversItsVersion
<1> QED BY <1>1, <1>2, <1>3, <1>4, <1>5, <1>6, <1>7, <1>8, <1>9, <1>10

\* A failure is noted in the history.
LEMMA FailedInv == ASSUME IInv, Failed PROVE IInv'
<1> USE StructureSaveAssumption DEF IInv, Failed, Finish, SendFrom, saver, sync, counts, history
<1>0. TypeOK
  BY DEF GateMeansBehind
<1>f. /\ again' = FALSE
      /\ \/ saving' = FALSE /\ put' = None
         \/ /\ saving' = TRUE /\ conflict' = None
            /\ put' = [phase |-> "sent", version |-> version, edits |-> shown]
  OBVIOUS
<1>1. TypeOK'
  <2>1. put' \in Put \cup {None}
    BY <1>0, <1>f, Types DEF Put, Reconcile
  <2>2. /\ again' \in BOOLEAN /\ saving' \in BOOLEAN /\ timer' \in BOOLEAN
        /\ silent' \in BOOLEAN /\ raced' \in BOOLEAN
    BY <1>0, <1>f DEF TypeOK
  <2>3. conflict' \in Nat \cup {None} /\ version' \in Nat
    BY <1>0, Types DEF TypeOK
  <2> QED BY <1>0, <2>1, <2>2, <2>3 DEF TypeOK, Put, Load, Canvas, Update, Snapshot, Edits
<1>2. PastIsStored'
  BY <1>0, Types DEF PastIsStored, At
<1>3. TabCoversItsVersion'
  BY <1>0, Types DEF TabCoversItsVersion, At
<1>4. PutCoversItsVersion'
  BY <1>0, Types DEF PutCoversItsVersion, TabCoversItsVersion, At
<1>5. ReloadIsStored'
  BY <1>0, Types DEF ReloadIsStored, At
<1>6. UpdatesAreStored'
  BY <1>0, Types DEF UpdatesAreStored, UpdateIsStored, At
<1>7. ReloadOpensGate'
  BY <1>0, Types DEF ReloadOpensGate
<1>8. EditsWait'
  BY <1>0, Types, NotNone DEF EditsWait, PutCoversItsVersion, UnsavedIsPending
<1>9. GateMeansBehind'
  BY <1>0, Types, <1>1 DEF GateMeansBehind, ReloadOpensGate
<1>10. UnsavedIsPending'
  BY <1>0, Types, NotNone DEF UnsavedIsPending, EditsWait, PutCoversItsVersion
<1> QED BY <1>1, <1>2, <1>3, <1>4, <1>5, <1>6, <1>7, <1>8, <1>9, <1>10

\* The server stores a body that contains what it replaces.
LEMMA AcceptInv == ASSUME IInv, Accept PROVE IInv'
<1> USE StructureSaveAssumption DEF IInv, Accept, VersionMatches, Store, saver, sync, counts, history
<1>0. TypeOK
  BY DEF GateMeansBehind
<1>s. /\ put.edits \in SUBSET Edits /\ put.version = server.version
      /\ Store(put.edits)
  BY <1>0, Types
<1>t. /\ server'.version = server.version + 1 /\ server'.edits = put.edits
      /\ Len(past') = server.version + 2 /\ past'[server.version + 2] = put.edits
      /\ \A v \in 0..server.version : past'[v + 1] = past[v + 1]
      /\ raced' = raced /\ silent' = silent /\ skipped' = skipped
  BY <1>0, <1>s, StoreKeeps
<1>u. put.edits \in SUBSET Edits /\ TypeOK /\ PastIsStored
  BY <1>0, <1>s, Types DEF Edits
<1>v. raced \/ server.edits \subseteq put.edits \cup skipped
  BY <1>s DEF PutCoversItsVersion, PastIsStored
<1>1. TypeOK'
  BY <1>0 DEF TypeOK, Put, Load, Canvas, Update, Snapshot, Edits
<1>2. PastIsStored'
  <2>1. Len(past') = server'.version + 1 /\ past'[server'.version + 1] = server'.edits
    BY <1>0, <1>t, Types
  <2>2. ASSUME NEW v \in 0..server'.version
        PROVE  raced' \/ past'[v + 1] \subseteq server'.edits \cup skipped'
    <3>1. CASE v \in 0..server.version
      <4>1. raced \/ past[v + 1] \subseteq server.edits \cup skipped
        <5> HIDE DEF IInv, Accept, VersionMatches, Store, saver, sync, counts, history
        <5> QED BY <1>u, <3>1, Zenon DEF PastIsStored, At
      <4>2. past'[v + 1] = past[v + 1] /\ server'.edits = put.edits
            /\ raced' = raced /\ skipped' = skipped
        BY <1>t, <3>1, Zenon
      <4> HIDE DEF IInv, Accept, VersionMatches, Store, saver, sync, counts, history
      <4> QED BY <4>1, <4>2, <1>v
    <3>2. CASE v = server'.version
      BY <2>1, <3>2
    <3> QED BY <1>0, <1>t, <3>1, <3>2, Types
  <2> QED BY <2>1, <2>2 DEF PastIsStored, At
<1>3. TabCoversItsVersion'
  BY <1>0, <1>t, <1>s, Types DEF TabCoversItsVersion, At, Canvas, Update, Snapshot
<1>4. PutCoversItsVersion'
  BY <1>0, <1>t, <1>s, Types DEF PutCoversItsVersion, TabCoversItsVersion, At, Canvas, Update, Snapshot
<1>5. ReloadIsStored'
  BY <1>s, <1>u, StoreKeepsReload
<1>6. UpdatesAreStored'
  BY <1>s, <1>u, StoreKeepsUpdates, Types DEF UpdatesAreStored
<1>7. ReloadOpensGate'
  BY <1>0, Types DEF ReloadOpensGate
<1>8. EditsWait'
  <2>1. put' # None /\ put'.phase = "saved" /\ put # None /\ put.phase = "sent"
    BY <1>0, <1>t, Types, NotNone
  <2>2. shown \subseteq put.edits \cup server.edits \cup skipped \/ timer \/ again \/ raced
    BY <2>1 DEF EditsWait
  <2>3. shown' \subseteq server'.edits \cup skipped' \/ timer' \/ again' \/ raced'
    BY <2>2, <1>t, <1>v
  <2> QED BY <2>1, <2>3 DEF EditsWait
<1>9. GateMeansBehind'
  BY <1>0, Types, <1>1 DEF GateMeansBehind, ReloadOpensGate
<1>10. UnsavedIsPending'
  BY <1>0, Types, NotNone DEF UnsavedIsPending, EditsWait, PutCoversItsVersion
<1> QED BY <1>1, <1>2, <1>3, <1>4, <1>5, <1>6, <1>7, <1>8, <1>9, <1>10

\* A refusal names the stored version.
LEMMA RefuseInv == ASSUME IInv, Refuse PROVE IInv'
<1> USE StructureSaveAssumption DEF IInv, Refuse, VersionMatches, saver, sync, counts, history
<1>0. TypeOK
  BY DEF GateMeansBehind
<1>1. TypeOK'
  BY <1>0 DEF TypeOK, Put, Load, Canvas, Update, Snapshot, Edits
<1>2. PastIsStored'
  BY <1>0, Types DEF PastIsStored, At
<1>3. TabCoversItsVersion'
  BY <1>0, Types DEF TabCoversItsVersion, At
<1>4. PutCoversItsVersion'
  BY <1>0, Types DEF PutCoversItsVersion, TabCoversItsVersion, At
<1>5. ReloadIsStored'
  BY <1>0, Types DEF ReloadIsStored, At
<1>6. UpdatesAreStored'
  BY <1>0, Types DEF UpdatesAreStored, UpdateIsStored, At
<1>7. ReloadOpensGate'
  BY <1>0, Types DEF ReloadOpensGate
<1>8. EditsWait'
  BY <1>0, Types, NotNone DEF EditsWait, PutCoversItsVersion, UnsavedIsPending
<1>9. GateMeansBehind'
  BY <1>0, Types, <1>1 DEF GateMeansBehind, ReloadOpensGate
<1>10. UnsavedIsPending'
  BY <1>0, Types, NotNone DEF UnsavedIsPending, EditsWait, PutCoversItsVersion
<1> QED BY <1>1, <1>2, <1>3, <1>4, <1>5, <1>6, <1>7, <1>8, <1>9, <1>10

\* A taken title stores nothing.
LEMMA TitleTakenInv == ASSUME IInv, TitleTaken PROVE IInv'
<1> USE StructureSaveAssumption DEF IInv, TitleTaken, saver, sync, counts, history
<1>0. TypeOK
  BY DEF GateMeansBehind
<1>1. TypeOK'
  BY <1>0 DEF TypeOK, Put, Load, Canvas, Update, Snapshot, Edits
<1>2. PastIsStored'
  BY <1>0, Types DEF PastIsStored, At
<1>3. TabCoversItsVersion'
  BY <1>0, Types DEF TabCoversItsVersion, At
<1>4. PutCoversItsVersion'
  BY <1>0, Types DEF PutCoversItsVersion, TabCoversItsVersion, At
<1>5. ReloadIsStored'
  BY <1>0, Types DEF ReloadIsStored, At
<1>6. UpdatesAreStored'
  BY <1>0, Types DEF UpdatesAreStored, UpdateIsStored, At
<1>7. ReloadOpensGate'
  BY <1>0, Types DEF ReloadOpensGate
<1>8. EditsWait'
  BY <1>0, Types, NotNone DEF EditsWait, PutCoversItsVersion, UnsavedIsPending
<1>9. GateMeansBehind'
  BY <1>0, Types, <1>1 DEF GateMeansBehind, ReloadOpensGate
<1>10. UnsavedIsPending'
  BY <1>0, Types, NotNone DEF UnsavedIsPending, EditsWait, PutCoversItsVersion
<1> QED BY <1>1, <1>2, <1>3, <1>4, <1>5, <1>6, <1>7, <1>8, <1>9, <1>10

\* A failing request says nothing.
LEMMA FailPutInv == ASSUME IInv, FailPut PROVE IInv'
<1> USE StructureSaveAssumption DEF IInv, FailPut, saver, sync, counts, history
<1>0. TypeOK
  BY DEF GateMeansBehind
<1>1. TypeOK'
  BY <1>0 DEF TypeOK, Put, Load, Canvas, Update, Snapshot, Edits
<1>2. PastIsStored'
  BY <1>0, Types DEF PastIsStored, At
<1>3. TabCoversItsVersion'
  BY <1>0, Types DEF TabCoversItsVersion, At
<1>4. PutCoversItsVersion'
  BY <1>0, Types DEF PutCoversItsVersion, TabCoversItsVersion, At
<1>5. ReloadIsStored'
  BY <1>0, Types DEF ReloadIsStored, At
<1>6. UpdatesAreStored'
  BY <1>0, Types DEF UpdatesAreStored, UpdateIsStored, At
<1>7. ReloadOpensGate'
  BY <1>0, Types DEF ReloadOpensGate
<1>8. EditsWait'
  BY <1>0, Types, NotNone DEF EditsWait, PutCoversItsVersion, UnsavedIsPending
<1>9. GateMeansBehind'
  BY <1>0, Types, <1>1 DEF GateMeansBehind, ReloadOpensGate
<1>10. UnsavedIsPending'
  BY <1>0, Types, NotNone DEF UnsavedIsPending, EditsWait, PutCoversItsVersion
<1> QED BY <1>1, <1>2, <1>3, <1>4, <1>5, <1>6, <1>7, <1>8, <1>9, <1>10

\* An agent's update leads to the version it stores.
LEMMA AgentWritesInv == ASSUME IInv, AgentWrites PROVE IInv'
<1> USE StructureSaveAssumption DEF IInv, AgentWrites, Store, saver, sync, counts, history
<1>0. TypeOK
  BY DEF GateMeansBehind
<1>s. PICK e \in Agent : Store(server.edits \cup {e})
                   /\ events' = IF stream = "down" THEN events
                                ELSE Append(events, [type |-> "update", edit |-> e,
                                                     fromVersion |-> server.version,
                                                     toVersion |-> server.version + 1])
  OBVIOUS
<1>t. /\ server'.version = server.version + 1 /\ server'.edits = server.edits \cup {e}
      /\ Len(past') = server.version + 2 /\ past'[server.version + 2] = server.edits \cup {e}
      /\ \A v \in 0..server.version : past'[v + 1] = past[v + 1]
      /\ raced' = raced /\ silent' = silent /\ skipped' = skipped
  BY <1>0, <1>s, StoreKeeps, Types DEF Edits
<1>u. server.edits \cup {e} \in SUBSET Edits /\ TypeOK /\ PastIsStored
  BY <1>0, <1>s, Types DEF Edits
<1>1. TypeOK'
  BY <1>0 DEF TypeOK, Put, Load, Canvas, Update, Snapshot, Edits
<1>2. PastIsStored'
  <2>1. Len(past') = server'.version + 1 /\ past'[server'.version + 1] = server'.edits
    BY <1>0, <1>t, Types
  <2>2. ASSUME NEW v \in 0..server'.version
        PROVE  raced' \/ past'[v + 1] \subseteq server'.edits \cup skipped'
    <3>1. CASE v \in 0..server.version
      BY <1>t, <3>1 DEF PastIsStored, At
    <3>2. CASE v = server'.version
      BY <2>1, <3>2
    <3> QED BY <1>0, <1>t, <3>1, <3>2, Types
  <2> QED BY <2>1, <2>2 DEF PastIsStored, At
<1>3. TabCoversItsVersion'
  BY <1>0, <1>t, <1>s, Types DEF TabCoversItsVersion, At, Canvas, Update, Snapshot
<1>4. PutCoversItsVersion'
  BY <1>0, <1>t, <1>s, Types DEF PutCoversItsVersion, TabCoversItsVersion, At, Canvas, Update, Snapshot
<1>5. ReloadIsStored'
  BY <1>s, <1>u, StoreKeepsReload
<1>6. UpdatesAreStored'
  <2>1. ASSUME NEW x \in Update \cup Snapshot, UpdateIsStored(x)
        PROVE  UpdateIsStored(x)'
    BY <1>s, <1>u, <2>1, StoreKeepsUpdates
  <2>2. CASE stream = "down"
    BY <1>0, <1>s, <2>1, <2>2, Types DEF UpdatesAreStored
  <2>3. CASE stream # "down"
    <3>1. PICK x : /\ x = [type |-> "update", edit |-> e, fromVersion |-> server.version,
                            toVersion |-> server.version + 1]
                   /\ events' = Append(events, x)
      BY <1>s, <2>3
    <3>2. UpdateIsStored(x)'
      BY <1>0, <1>t, <3>1, Types DEF UpdateIsStored, At, PastIsStored
    <3>3. ASSUME NEW i \in 1..Len(events') PROVE UpdateIsStored(events[i])'
      <4>1. CASE i \in 1..Len(events)
        BY <1>0, <4>1, <3>1, <2>1, Types DEF UpdatesAreStored
      <4>2. CASE i = Len(events) + 1
        BY <1>0, <4>2, <3>1, <3>2, Types
      <4> QED BY <1>0, <4>1, <4>2, <3>1, Types
    <3> QED BY <3>3 DEF UpdatesAreStored
  <2> QED BY <2>2, <2>3
<1>7. ReloadOpensGate'
  BY <1>0, Types DEF ReloadOpensGate
<1>8. EditsWait'
  BY <1>0, Types, NotNone DEF EditsWait, PutCoversItsVersion, UnsavedIsPending
<1>9. GateMeansBehind'
  BY <1>0, Types, <1>1 DEF GateMeansBehind, ReloadOpensGate
<1>10. UnsavedIsPending'
  BY <1>0, Types, NotNone DEF UnsavedIsPending, EditsWait, PutCoversItsVersion
<1> QED BY <1>1, <1>2, <1>3, <1>4, <1>5, <1>6, <1>7, <1>8, <1>9, <1>10

\* Another tab stores without an update.
LEMMA OtherTabWritesInv == ASSUME IInv, OtherTabWrites PROVE IInv'
<1> USE StructureSaveAssumption DEF IInv, OtherTabWrites, Store, saver, sync, counts, history
<1>0. TypeOK
  BY DEF GateMeansBehind
<1>s. PICK e \in Other : Store(server.edits \cup {e})
  OBVIOUS
<1>t. /\ server'.version = server.version + 1 /\ server'.edits = server.edits \cup {e}
      /\ Len(past') = server.version + 2 /\ past'[server.version + 2] = server.edits \cup {e}
      /\ \A v \in 0..server.version : past'[v + 1] = past[v + 1]
      /\ raced' = raced /\ silent' = silent /\ skipped' = skipped
  BY <1>0, <1>s, StoreKeeps, Types DEF Edits
<1>u. server.edits \cup {e} \in SUBSET Edits /\ TypeOK /\ PastIsStored
  BY <1>0, <1>s, Types DEF Edits
<1>1. TypeOK'
  BY <1>0 DEF TypeOK, Put, Load, Canvas, Update, Snapshot, Edits
<1>2. PastIsStored'
  <2>1. Len(past') = server'.version + 1 /\ past'[server'.version + 1] = server'.edits
    BY <1>0, <1>t, Types
  <2>2. ASSUME NEW v \in 0..server'.version
        PROVE  raced' \/ past'[v + 1] \subseteq server'.edits \cup skipped'
    <3>1. CASE v \in 0..server.version
      BY <1>t, <3>1 DEF PastIsStored, At
    <3>2. CASE v = server'.version
      BY <2>1, <3>2
    <3> QED BY <1>0, <1>t, <3>1, <3>2, Types
  <2> QED BY <2>1, <2>2 DEF PastIsStored, At
<1>3. TabCoversItsVersion'
  BY <1>0, <1>t, <1>s, Types DEF TabCoversItsVersion, At, Canvas, Update, Snapshot
<1>4. PutCoversItsVersion'
  BY <1>0, <1>t, <1>s, Types DEF PutCoversItsVersion, TabCoversItsVersion, At, Canvas, Update, Snapshot
<1>5. ReloadIsStored'
  BY <1>s, <1>u, StoreKeepsReload
<1>6. UpdatesAreStored'
  BY <1>s, <1>u, StoreKeepsUpdates, Types DEF UpdatesAreStored
<1>7. ReloadOpensGate'
  BY <1>0, Types DEF ReloadOpensGate
<1>8. EditsWait'
  BY <1>0, Types, NotNone DEF EditsWait, PutCoversItsVersion, UnsavedIsPending
<1>9. GateMeansBehind'
  BY <1>0, Types, <1>1 DEF GateMeansBehind, ReloadOpensGate
<1>10. UnsavedIsPending'
  BY <1>0, Types, NotNone DEF UnsavedIsPending, EditsWait, PutCoversItsVersion
<1> QED BY <1>1, <1>2, <1>3, <1>4, <1>5, <1>6, <1>7, <1>8, <1>9, <1>10

\* Connecting changes nothing that is stored or shown.
LEMMA ConnectInv == ASSUME IInv, Connect PROVE IInv'
<1> USE StructureSaveAssumption DEF IInv, Connect, saver, sync, counts, history
<1>0. TypeOK
  BY DEF GateMeansBehind
<1>1. TypeOK'
  BY <1>0 DEF TypeOK, Put, Load, Canvas, Update, Snapshot, Edits
<1>2. PastIsStored'
  BY <1>0, Types DEF PastIsStored, At
<1>3. TabCoversItsVersion'
  BY <1>0, Types DEF TabCoversItsVersion, At
<1>4. PutCoversItsVersion'
  BY <1>0, Types DEF PutCoversItsVersion, TabCoversItsVersion, At
<1>5. ReloadIsStored'
  BY <1>0, Types DEF ReloadIsStored, At
<1>6. UpdatesAreStored'
  BY <1>0, Types DEF UpdatesAreStored, UpdateIsStored, At
<1>7. ReloadOpensGate'
  BY <1>0, Types DEF ReloadOpensGate
<1>8. EditsWait'
  BY <1>0, Types, NotNone DEF EditsWait, PutCoversItsVersion, UnsavedIsPending
<1>9. GateMeansBehind'
  BY <1>0, Types, <1>1 DEF GateMeansBehind, ReloadOpensGate
<1>10. UnsavedIsPending'
  BY <1>0, Types, NotNone DEF UnsavedIsPending, EditsWait, PutCoversItsVersion
<1> QED BY <1>1, <1>2, <1>3, <1>4, <1>5, <1>6, <1>7, <1>8, <1>9, <1>10

\* A snapshot is no update.
LEMMA SendSnapshotInv == ASSUME IInv, SendSnapshot PROVE IInv'
<1> USE StructureSaveAssumption DEF IInv, SendSnapshot, saver, sync, counts, history
<1>0. TypeOK
  BY DEF GateMeansBehind
<1>1. TypeOK'
  BY <1>0 DEF TypeOK, Put, Load, Canvas, Update, Snapshot, Edits
<1>2. PastIsStored'
  BY <1>0, Types DEF PastIsStored, At
<1>3. TabCoversItsVersion'
  BY <1>0, Types DEF TabCoversItsVersion, At
<1>4. PutCoversItsVersion'
  BY <1>0, Types DEF PutCoversItsVersion, TabCoversItsVersion, At
<1>5. ReloadIsStored'
  BY <1>0, Types DEF ReloadIsStored, At
<1>6. UpdatesAreStored'
  <2>1. PICK s : /\ s = [type |-> "snapshot", version |-> server.version]
                 /\ events' = <<s>> \o events
    OBVIOUS
  <2>2. ASSUME NEW i \in 1..Len(events') PROVE events'[i] = s \/ \E k \in 1..Len(events) : events'[i] = events[k]
    <3>1. CASE i = 1
      BY <1>0, <2>1, <3>1, Types
    <3>2. CASE i # 1
      <4>1. i - 1 \in 1..Len(events) /\ events'[i] = events[i - 1]
        BY <1>0, <2>1, <3>2, Types
      <4> QED BY <4>1
    <3> QED BY <3>1, <3>2
  <2>3. UpdateIsStored(s)'
    BY <2>1 DEF UpdateIsStored
  <2>4. ASSUME NEW k \in 1..Len(events), NEW x, x = events[k] PROVE UpdateIsStored(x)'
    BY <2>4 DEF UpdatesAreStored, UpdateIsStored, At
  <2>5. ASSUME NEW i \in 1..Len(events') PROVE UpdateIsStored(events[i])'
    BY <2>2, <2>3, <2>4
  <2> QED BY <2>5 DEF UpdatesAreStored
<1>7. ReloadOpensGate'
  BY <1>0, Types DEF ReloadOpensGate
<1>8. EditsWait'
  BY <1>0, Types, NotNone DEF EditsWait, PutCoversItsVersion, UnsavedIsPending
<1>9. GateMeansBehind'
  BY <1>0, Types, <1>1 DEF GateMeansBehind, ReloadOpensGate
<1>10. UnsavedIsPending'
  BY <1>0, Types, NotNone DEF UnsavedIsPending, EditsWait, PutCoversItsVersion
<1> QED BY <1>1, <1>2, <1>3, <1>4, <1>5, <1>6, <1>7, <1>8, <1>9, <1>10

\* A broken stream forgets its updates.
LEMMA BreakInv == ASSUME IInv, Break PROVE IInv'
<1> USE StructureSaveAssumption DEF IInv, Break, saver, sync, counts, history
<1>0. TypeOK
  BY DEF GateMeansBehind
<1>1. TypeOK'
  BY <1>0 DEF TypeOK, Put, Load, Canvas, Update, Snapshot, Edits
<1>2. PastIsStored'
  BY <1>0, Types DEF PastIsStored, At
<1>3. TabCoversItsVersion'
  BY <1>0, Types DEF TabCoversItsVersion, At
<1>4. PutCoversItsVersion'
  BY <1>0, Types DEF PutCoversItsVersion, TabCoversItsVersion, At
<1>5. ReloadIsStored'
  BY <1>0, Types DEF ReloadIsStored, At
<1>6. UpdatesAreStored'
  BY <1>0, Types DEF UpdatesAreStored, UpdateIsStored, At
<1>7. ReloadOpensGate'
  BY <1>0, Types DEF ReloadOpensGate
<1>8. EditsWait'
  BY <1>0, Types, NotNone DEF EditsWait, PutCoversItsVersion, UnsavedIsPending
<1>9. GateMeansBehind'
  BY <1>0, Types, <1>1 DEF GateMeansBehind, ReloadOpensGate
<1>10. UnsavedIsPending'
  BY <1>0, Types, NotNone DEF UnsavedIsPending, EditsWait, PutCoversItsVersion
<1> QED BY <1>1, <1>2, <1>3, <1>4, <1>5, <1>6, <1>7, <1>8, <1>9, <1>10

\* A snapshot starts at most a reload.
LEMMA SnapshotArrivesInv == ASSUME IInv, SnapshotArrives PROVE IInv'
<1> USE StructureSaveAssumption DEF IInv, SnapshotArrives, Received, StartLoad, saver, sync, counts, history
<1>0. TypeOK
  BY DEF GateMeansBehind
<1>1. TypeOK'
  BY <1>0 DEF TypeOK, Put, Load, Canvas, Update, Snapshot, Edits
<1>2. PastIsStored'
  BY <1>0, Types DEF PastIsStored, At
<1>3. TabCoversItsVersion'
  BY <1>0, Types DEF TabCoversItsVersion, At
<1>4. PutCoversItsVersion'
  BY <1>0, Types DEF PutCoversItsVersion, TabCoversItsVersion, At
<1>5. ReloadIsStored'
  BY <1>0, Types DEF ReloadIsStored, At
<1>6. UpdatesAreStored'
  BY <1>0, Types DEF UpdatesAreStored, UpdateIsStored, At
<1>7. ReloadOpensGate'
  BY <1>0, Types DEF ReloadOpensGate
<1>8. EditsWait'
  BY <1>0, Types, NotNone DEF EditsWait, PutCoversItsVersion, UnsavedIsPending
<1>9. GateMeansBehind'
  BY <1>0, Types, <1>1 DEF GateMeansBehind, ReloadOpensGate
<1>10. UnsavedIsPending'
  BY <1>0, Types, NotNone DEF UnsavedIsPending, EditsWait, PutCoversItsVersion
<1> QED BY <1>1, <1>2, <1>3, <1>4, <1>5, <1>6, <1>7, <1>8, <1>9, <1>10

\* An update that fits adds the edit between two versions.
LEMMA ApplyInv == ASSUME IInv, Apply PROVE IInv'
<1> USE StructureSaveAssumption DEF IInv, Apply, Received, Reconcile, Resolved, saver, sync, counts, history
<1>0. TypeOK
  BY DEF GateMeansBehind
<1>s. PICK u : /\ u = events[1] /\ u \in Update /\ u.type = "update"
               /\ u.fromVersion = version /\ skipped \subseteq skipped'
               /\ shown \subseteq shown' /\ shown' \subseteq shown \cup {u.edit}
               /\ u.edit \in shown' \cup skipped'
               /\ version' = IF version >= u.toVersion THEN version ELSE u.toVersion
  BY <1>0, Types DEF Update, Snapshot
<1>t. /\ u.toVersion = version + 1 /\ u.toVersion <= server.version
      /\ At(u.toVersion) = At(version) \cup {u.edit}
  <2>1. 1 \in 1..Len(events)
    BY <1>0, Types
  <2> QED BY <1>s, <2>1 DEF UpdatesAreStored, UpdateIsStored
<1>u. version' = u.toVersion /\ version' \in 0..server.version /\ (raced \/ u.edit \in server.edits \cup skipped)
  BY <1>0, <1>s, <1>t, Types DEF PastIsStored
<1>v. ASSUME conflict' # conflict PROVE conflict' = None /\ timer'
  <2>1. conflict' = None
    BY <1>v
  <2>2. timer' = (timer \/ conflict' # conflict)
    OBVIOUS
  <2>3. (timer \/ conflict' # conflict) = TRUE
    BY <1>v
  <2>4. timer'
    BY <2>2, <2>3, Zenon
  <2> QED BY <2>1, <2>4
<1>1. TypeOK'
  BY <1>0 DEF TypeOK, Put, Load, Canvas, Update, Snapshot, Edits
<1>2. PastIsStored'
  BY <1>0, Types DEF PastIsStored, At
<1>3. TabCoversItsVersion'
  BY <1>s, <1>t, <1>u DEF TabCoversItsVersion, At
<1>4. PutCoversItsVersion'
  BY <1>0, Types DEF PutCoversItsVersion, TabCoversItsVersion, At
<1>5. ReloadIsStored'
  BY <1>0, Types DEF ReloadIsStored, At
<1>6. UpdatesAreStored'
  BY <1>0, Types DEF UpdatesAreStored, UpdateIsStored, At
<1>7. ReloadOpensGate'
  BY <1>0, Types DEF ReloadOpensGate
<1>8. EditsWait'
  BY <1>0, <1>s, <1>u, <1>v, Types DEF EditsWait
<1>9. GateMeansBehind'
  <2>1. conflict' # None => version' < conflict' \/ raced'
    BY <1>0, <1>u, Types DEF GateMeansBehind
  <2> QED BY <1>1, <2>1 DEF GateMeansBehind
<1>10. UnsavedIsPending'
  BY <1>s, <1>u, <1>v DEF UnsavedIsPending
<1> QED BY <1>1, <1>2, <1>3, <1>4, <1>5, <1>6, <1>7, <1>8, <1>9, <1>10

\* A gap starts at most a reload.
LEMMA GapInv == ASSUME IInv, Gap PROVE IInv'
<1> USE StructureSaveAssumption DEF IInv, Gap, Received, StartLoad, saver, sync, counts, history
<1>0. TypeOK
  BY DEF GateMeansBehind
<1>1. TypeOK'
  BY <1>0 DEF TypeOK, Put, Load, Canvas, Update, Snapshot, Edits
<1>2. PastIsStored'
  BY <1>0, Types DEF PastIsStored, At
<1>3. TabCoversItsVersion'
  BY <1>0, Types DEF TabCoversItsVersion, At
<1>4. PutCoversItsVersion'
  BY <1>0, Types DEF PutCoversItsVersion, TabCoversItsVersion, At
<1>5. ReloadIsStored'
  BY <1>0, Types DEF ReloadIsStored, At
<1>6. UpdatesAreStored'
  BY <1>0, Types DEF UpdatesAreStored, UpdateIsStored, At
<1>7. ReloadOpensGate'
  BY <1>0, Types DEF ReloadOpensGate
<1>8. EditsWait'
  BY <1>0, Types, NotNone DEF EditsWait, PutCoversItsVersion, UnsavedIsPending
<1>9. GateMeansBehind'
  BY <1>0, Types, <1>1 DEF GateMeansBehind, ReloadOpensGate
<1>10. UnsavedIsPending'
  BY <1>0, Types, NotNone DEF UnsavedIsPending, EditsWait, PutCoversItsVersion
<1> QED BY <1>1, <1>2, <1>3, <1>4, <1>5, <1>6, <1>7, <1>8, <1>9, <1>10

\* An old update is dropped.
LEMMA StaleInv == ASSUME IInv, Stale PROVE IInv'
<1> USE StructureSaveAssumption DEF IInv, Stale, Received, saver, sync, counts, history
<1>0. TypeOK
  BY DEF GateMeansBehind
<1>1. TypeOK'
  BY <1>0 DEF TypeOK, Put, Load, Canvas, Update, Snapshot, Edits
<1>2. PastIsStored'
  BY <1>0, Types DEF PastIsStored, At
<1>3. TabCoversItsVersion'
  BY <1>0, Types DEF TabCoversItsVersion, At
<1>4. PutCoversItsVersion'
  BY <1>0, Types DEF PutCoversItsVersion, TabCoversItsVersion, At
<1>5. ReloadIsStored'
  BY <1>0, Types DEF ReloadIsStored, At
<1>6. UpdatesAreStored'
  BY <1>0, Types DEF UpdatesAreStored, UpdateIsStored, At
<1>7. ReloadOpensGate'
  BY <1>0, Types DEF ReloadOpensGate
<1>8. EditsWait'
  BY <1>0, Types, NotNone DEF EditsWait, PutCoversItsVersion, UnsavedIsPending
<1>9. GateMeansBehind'
  BY <1>0, Types, <1>1 DEF GateMeansBehind, ReloadOpensGate
<1>10. UnsavedIsPending'
  BY <1>0, Types, NotNone DEF UnsavedIsPending, EditsWait, PutCoversItsVersion
<1> QED BY <1>1, <1>2, <1>3, <1>4, <1>5, <1>6, <1>7, <1>8, <1>9, <1>10

\* A reload reads what is stored.
LEMMA ReadCanvasInv == ASSUME IInv, ReadCanvas PROVE IInv'
<1> USE StructureSaveAssumption DEF IInv, ReadCanvas, saver, sync, counts, history
<1>0. TypeOK
  BY DEF GateMeansBehind
<1>1. TypeOK'
  BY <1>0 DEF TypeOK, Put, Load, Canvas, Update, Snapshot, Edits
<1>2. PastIsStored'
  BY <1>0, Types DEF PastIsStored, At
<1>3. TabCoversItsVersion'
  BY <1>0, Types DEF TabCoversItsVersion, At
<1>4. PutCoversItsVersion'
  BY <1>0, Types DEF PutCoversItsVersion, TabCoversItsVersion, At
<1>5. ReloadIsStored'
  BY <1>0, Types DEF ReloadIsStored, PastIsStored, At
<1>6. UpdatesAreStored'
  BY <1>0, Types DEF UpdatesAreStored, UpdateIsStored, At
<1>7. ReloadOpensGate'
  BY <1>0, Types DEF ReloadOpensGate
<1>8. EditsWait'
  BY <1>0, Types, NotNone DEF EditsWait, PutCoversItsVersion, UnsavedIsPending
<1>9. GateMeansBehind'
  BY <1>0, Types, <1>1 DEF GateMeansBehind, ReloadOpensGate
<1>10. UnsavedIsPending'
  BY <1>0, Types, NotNone DEF UnsavedIsPending, EditsWait, PutCoversItsVersion
<1> QED BY <1>1, <1>2, <1>3, <1>4, <1>5, <1>6, <1>7, <1>8, <1>9, <1>10

\* A reload replaces structure and version together.
LEMMA LoadedInv == ASSUME IInv, Loaded PROVE IInv'
<1> USE StructureSaveAssumption DEF IInv, Loaded, saver, sync, counts, history
<1>0. TypeOK
  BY DEF GateMeansBehind
<1>1. TypeOK'
  BY <1>0 DEF TypeOK, Put, Load, Canvas, Update, Snapshot, Edits
<1>2. PastIsStored'
  BY <1>0, Types DEF PastIsStored, At
<1>3. TabCoversItsVersion'
  BY <1>0, Types DEF TabCoversItsVersion, ReloadIsStored, At
<1>4. PutCoversItsVersion'
  BY <1>0, Types DEF PutCoversItsVersion, TabCoversItsVersion, At
<1>5. ReloadIsStored'
  BY <1>0, Types DEF ReloadIsStored, At
<1>6. UpdatesAreStored'
  BY <1>0, Types DEF UpdatesAreStored, UpdateIsStored, At
<1>7. ReloadOpensGate'
  BY <1>0, Types DEF ReloadOpensGate
<1>8. EditsWait'
  BY <1>0, Types, NotNone DEF EditsWait, PutCoversItsVersion, UnsavedIsPending
<1>9. GateMeansBehind'
  BY <1>0, Types, <1>1 DEF GateMeansBehind, ReloadOpensGate
<1>10. UnsavedIsPending'
  <2>1. load.canvas.version \in 0..server.version
    BY <1>0, Types DEF ReloadIsStored, Canvas
  <2>2. raced \/ load.canvas.edits \subseteq server.edits \cup skipped
    BY <2>1 DEF PastIsStored, ReloadIsStored, At
  <2> QED BY <2>2 DEF UnsavedIsPending
<1> QED BY <1>1, <1>2, <1>3, <1>4, <1>5, <1>6, <1>7, <1>8, <1>9, <1>10

\* A failed reload is noted in the history.
LEMMA LoadFailsInv == ASSUME IInv, LoadFails PROVE IInv'
<1> USE StructureSaveAssumption DEF IInv, LoadFails, saver, sync, counts, history
<1>0. TypeOK
  BY DEF GateMeansBehind
<1>1. TypeOK'
  BY <1>0 DEF TypeOK, Put, Load, Canvas, Update, Snapshot, Edits
<1>2. PastIsStored'
  BY <1>0, Types DEF PastIsStored, At
<1>3. TabCoversItsVersion'
  BY <1>0, Types DEF TabCoversItsVersion, At
<1>4. PutCoversItsVersion'
  BY <1>0, Types DEF PutCoversItsVersion, TabCoversItsVersion, At
<1>5. ReloadIsStored'
  BY <1>0, Types DEF ReloadIsStored, At
<1>6. UpdatesAreStored'
  BY <1>0, Types DEF UpdatesAreStored, UpdateIsStored, At
<1>7. ReloadOpensGate'
  BY <1>0, Types DEF ReloadOpensGate
<1>8. EditsWait'
  BY <1>0, Types, NotNone DEF EditsWait, PutCoversItsVersion, UnsavedIsPending
<1>9. GateMeansBehind'
  BY <1>0, Types, <1>1 DEF GateMeansBehind, ReloadOpensGate
<1>10. UnsavedIsPending'
  BY <1>0, Types, NotNone DEF UnsavedIsPending, EditsWait, PutCoversItsVersion
<1> QED BY <1>1, <1>2, <1>3, <1>4, <1>5, <1>6, <1>7, <1>8, <1>9, <1>10

\* A stuttering step changes nothing.
LEMMA StutterInv == ASSUME IInv, UNCHANGED vars PROVE IInv'
<1> USE DEF IInv, vars, saver, sync, counts, history
<1>1. TypeOK /\ TypeOK'
  BY DEF GateMeansBehind, TypeOK
<1>2. PastIsStored' /\ TabCoversItsVersion' /\ PutCoversItsVersion'
  BY DEF PastIsStored, TabCoversItsVersion, PutCoversItsVersion, At
<1>3. ReloadIsStored' /\ UpdatesAreStored' /\ ReloadOpensGate'
  BY DEF ReloadIsStored, UpdatesAreStored, UpdateIsStored, ReloadOpensGate, At
<1>4. EditsWait' /\ GateMeansBehind' /\ UnsavedIsPending'
  BY <1>1 DEF EditsWait, GateMeansBehind, UnsavedIsPending
<1> QED BY <1>2, <1>3, <1>4

\* Every place that keeps a version is right about what was stored under it.
THEOREM Invariance == Spec => []IInv
<1>1. IInv /\ [Next]_vars => IInv'
  <2> SUFFICES ASSUME IInv, [Next]_vars PROVE IInv'
    OBVIOUS
  <2>1. CASE Next
    BY <2>1, EditInv, TimerFiresInv, SavedInv, ConflictInv, FailedInv,
       AcceptInv, RefuseInv, TitleTakenInv, FailPutInv, AgentWritesInv, OtherTabWritesInv,
       ConnectInv, SendSnapshotInv, BreakInv, SnapshotArrivesInv, ApplyInv,
       GapInv, StaleInv, ReadCanvasInv, LoadedInv, LoadFailsInv
       DEF Next
  <2>2. CASE UNCHANGED vars
    BY <2>2, StutterInv
  <2> QED BY <2>1, <2>2
<1> QED BY InitInv, <1>1, PTL DEF Spec

\* A closed gate means that the tab is behind the version that closed it.
THEOREM GateIsBehind == Spec => []GateMeansBehind
<1>1. IInv => GateMeansBehind
  BY DEF IInv
<1> QED BY Invariance, <1>1, PTL

\* An edit that is not stored waits for a save, a reload or behind the gate.
THEOREM NothingForgotten == Spec => []UnsavedIsPending
<1>1. IInv => UnsavedIsPending
  BY DEF IInv
<1> QED BY Invariance, <1>1, PTL

\* No save drops an edit that is stored, whatever the stream missed, unless it is one that
\* the tab left out: the compare-and-swap finds the version that the body accounts for, and
\* every other write only adds.
THEOREM NothingLost == Spec => NoLostEdit
<1>1. IInv /\ [Next]_vars => [server.edits \subseteq server'.edits \cup skipped \/ raced]_vars
  <2> SUFFICES ASSUME IInv, Next
               PROVE  server.edits \subseteq server'.edits \cup skipped \/ raced
    OBVIOUS
  <2>1. CASE Accept
    BY <2>1 DEF IInv, Accept, VersionMatches, Store, PutCoversItsVersion, PastIsStored
  <2>2. CASE AgentWrites \/ OtherTabWrites
    <3>1. PICK e : server' = [version |-> server.version + 1, edits |-> server.edits \cup {e}]
      BY <2>2 DEF AgentWrites, OtherTabWrites, Store
    <3> QED BY <3>1
  <2>3. CASE UNCHANGED server
    BY <2>3
  <2>4. Accept \/ AgentWrites \/ OtherTabWrites \/ UNCHANGED server
    BY DEF Next, Edit, TimerFires, Refuse, TitleTaken, FailPut, Saved, Conflict, Failed, Connect,
           SendSnapshot, Break, SnapshotArrives, Apply, Gap, Stale, ReadCanvas, Loaded,
           LoadFails
  <2> QED BY <2>1, <2>2, <2>3, <2>4
<1> QED BY Invariance, <1>1, PTL DEF Spec, NoLostEdit

-----------------------------------------------------------------------------
(* What the user of a tab relies on, from the same invariant *)

\* No save, retry or reload is due in this tab.
Quiet == ~timer /\ ~saving /\ conflict = None /\ load = None
QuietTabIsCurrent ==
    Quiet /\ version = server.version =>
        shown \ skipped = server.edits \ skipped \/ silent \/ raced

\* A quiet tab that has reached the version of the server shows the canvas that is stored,
\* the agents' edits it left out apart: for all others the version is enough to tell, as
\* the snapshot of the stream assumes, which reloads on another version and on no other
\* occasion.
THEOREM QuietTabShowsTheCanvas == Spec => []QuietTabIsCurrent
<1>1. IInv => QuietTabIsCurrent
  <2> SUFFICES ASSUME IInv, Quiet, version = server.version, ~silent, ~raced
               PROVE  shown \ skipped = server.edits \ skipped
    BY DEF QuietTabIsCurrent
  <2>1. shown \subseteq server.edits \cup skipped
    BY DEF IInv, UnsavedIsPending, Quiet
  <2>2. server.edits \subseteq shown \cup skipped
    BY DEF IInv, TabCoversItsVersion, PastIsStored
  <2> QED BY <2>1, <2>2
<1> QED BY Invariance, <1>1, PTL

\* isSaving is the one lock of saveCanvas(), and the gate keeps it free.
OneSave == (saving <=> put # None) /\ (conflict # None => ~saving)

\* structureSaveReconciliation.ts: at every moment isSaving says whether a PUT is in
\* flight, so no answer, conflict or retry leaves it set or lets two saves overlap, and a
\* tab behind the gate has none.
THEOREM OneSaveAtATime == Spec => []OneSave
<1>1. IInv => OneSave
  BY DEF IInv, EditsWait, OneSave
<1> QED BY Invariance, <1>1, PTL

\* Between an older version and the next update nothing else is lost: the tab contains all
\* that was stored under the version it names, but for the agents' edits it left out.
TabHoldsItsVersion ==
    version <= server.version /\ (At(version) \subseteq shown \cup skipped \/ raced)

\* Apply and Reconcile raise the version only as far as the edits that came with it or are
\* in the record of what was left out.
THEOREM TabHoldsWhatItClaims == Spec => []TabHoldsItsVersion
<1>1. IInv => TabHoldsItsVersion
  BY DEF IInv, TabCoversItsVersion, TabHoldsItsVersion
<1> QED BY Invariance, <1>1, PTL

===============================================================================
