--------------------------- MODULE NodeContentProofs ---------------------------
(***************************************************************************)
(* The safety properties of NodeContent for any nodes, texts and bounds.   *)
(*                                                                         *)
(* A save overwrites what its baseline names, so no text is overwritten    *)
(* unseen if every baseline, in the tab, in a request or under a freeze,   *)
(* is a text the tab has known.  A typed text stays visible because an     *)
(* edit made during a save leaves a timer or a flush behind, a node is     *)
(* frozen only between saves, freezing it told the user, and a node that   *)
(* has lost its sidecar holds no typed text.                               *)
(***************************************************************************)
EXTENDS NodeContent, TLAPS

Sent(n) == put[n] # None /\ put[n].phase = "sent"
Waiting(n) == n \in timer \/ chain[n] > 0

\* Every baseline is a text that the tab has held or was told of.
BaselinesAreKnown ==
    \A n \in Nodes :
        /\ shown[n] \in known[n] /\ base[n] \in known[n]
        /\ frozen[n] # None => frozen[n] \in known[n]
        /\ Sent(n) => put[n].expectRev \in known[n]

\* A node is frozen only between saves.
SavesAreThawed == \A n \in Nodes : put[n] # None => frozen[n] = None

\* A frozen node has told the user.
FrozenIsTold == \A n \in Nodes : frozen[n] # None => n \in told

\* What a node without a sidecar shows was loaded, not typed.
MissingIsNotMine == \A n \in missing : n \notin mine

\* An edit made while a save is in flight waits for the next one.
LaterEditsWait ==
    \A n \in mine :
        /\ Sent(n) => shown[n] = put[n].text \/ Waiting(n)
        /\ put[n] # None /\ put[n].phase = "saved" =>
              shown[n] = put[n].rev \/ shown[n] = Empty \/ Waiting(n)

IInv ==
    /\ BaselinesAreKnown /\ SavesAreThawed /\ FrozenIsTold /\ MissingIsNotMine
    /\ LaterEditsWait /\ UnsavedIsVisible

-----------------------------------------------------------------------------
(* Types *)

\* The types, function by function.
LEMMA Types ==
    ASSUME TypeOK
    PROVE  /\ disk \in [Nodes -> Texts] /\ shown \in [Nodes -> Texts] /\ base \in [Nodes -> Texts]
           /\ frozen \in [Nodes -> Texts \cup {None}]
           /\ chain \in [Nodes -> Nat]
           /\ put \in [Nodes -> {None} \cup Requests \cup Answers]
           /\ missing \subseteq Nodes /\ timer \subseteq Nodes
           /\ prompts \subseteq Nodes /\ alerted \subseteq Nodes
           /\ mine \subseteq Nodes /\ told \subseteq Nodes
           /\ misnamed \subseteq Nodes /\ touched \subseteq Nodes
           /\ known \in [Nodes -> SUBSET Texts]
BY NodeContentAssumption DEF TypeOK, Bodies

\* What a request or an answer says.
LEMMA Puts ==
    ASSUME TypeOK, NEW n \in Nodes, put[n] # None
    PROVE  /\ put[n].phase \in {"sent", "saved", "conflict", "failed", "label", "duplicate"}
           /\ put[n].phase = "sent" => put[n].text \in Texts /\ put[n].expectRev \in Texts
           /\ put[n].phase \in {"saved", "conflict"} => put[n].rev \in Texts
BY Types DEF Requests, Answers

\* No record is None.
LEMMA NotNone ==
    /\ None \notin Texts
    /\ \A x \in Requests \cup Answers \cup Fetch \cup Load : x # None
BY NodeContentAssumption

\* An update names nodes, with a text for each.
LEMMA Batch ==
    ASSUME TypeOK, updates # <<>>
    PROVE  /\ DOMAIN Head(updates) \subseteq Nodes
           /\ \A n \in DOMAIN Head(updates) : Head(updates)[n] \in Texts
           /\ Tail(updates) \in Seq(Batches)
<1>1. Head(updates) \in Batches /\ Tail(updates) \in Seq(Batches)
  BY DEF TypeOK
<1>2. PICK changed \in SUBSET Nodes : Head(updates) \in [changed -> Texts]
  BY <1>1 DEF Batches
<1> QED BY <1>1, <1>2

\* Counting a step keeps the counts.
LEMMA Counts ==
    ASSUME TypeOK, NEW kind \in {"typing", "foreign", "faults", "replies"}, NEW max,
           Once(kind, max)
    PROVE  count' \in [{"typing", "foreign", "faults", "replies"} -> Nat]
BY DEF TypeOK, Once

\* A chained flush is within its bound.
LEMMA Flushes ==
    ASSUME TypeOK, NEW n \in Nodes, Flush(n)
    PROVE  /\ chain' \in [Nodes -> 0..MaxChain]
           /\ chain'[n] > 0
           /\ \A m \in Nodes : m # n => chain'[m] = chain[m]
<1>1. chain[n] \in Nat /\ MaxChain \in Nat /\ chain[n] + 1 <= MaxChain
  BY NodeContentAssumption DEF TypeOK, Flush
<1>2. chain' = [chain EXCEPT ![n] = chain[n] + 1]
  BY DEF Flush
<1> QED BY <1>1, <1>2 DEF TypeOK

\* The texts, baselines and freezes after an update.
LEMMA Applies ==
    ASSUME TypeOK, Apply
    PROVE  /\ updates # <<>>
           /\ \E applied, skipped \in SUBSET Nodes :
                 /\ applied \cup skipped = DOMAIN Head(updates)
                 /\ applied \cap PendingIds = {} /\ skipped \subseteq PendingIds
                 /\ mine' = mine \ applied /\ told' = told \ applied
                 /\ missing' = missing \ applied
                 /\ \A n \in Nodes :
                      /\ n \in applied => shown'[n] = Head(updates)[n]
                      /\ n \notin applied => shown'[n] = shown[n]
                      /\ base'[n] = base[n] \/ base'[n] = shown'[n]
                           \/ (n \in DOMAIN Head(updates) /\ base'[n] = Head(updates)[n])
                      /\ frozen'[n] = frozen[n] \/ frozen'[n] = None
                      /\ n \in applied => frozen'[n] = None
                      /\ known[n] \subseteq known'[n]
                      /\ n \in DOMAIN Head(updates) => Head(updates)[n] \in known'[n]
                 /\ shown' \in [Nodes -> Texts] /\ base' \in [Nodes -> Texts]
                 /\ frozen' \in [Nodes -> Texts \cup {None}]
                 /\ known' \in [Nodes -> SUBSET Texts]
           /\ UNCHANGED <<disk, timer, chain, prompts, alerted, put, fetch, load, count, misnamed,
                          touched>>
<1> DEFINE batch == Head(updates)
           skipped == DOMAIN batch \cap PendingIds
           applied == DOMAIN batch \ skipped
           seeded == IF applied = {} THEN skipped ELSE Nodes
<1>1. /\ updates # <<>>
      /\ shown' = [n \in Nodes |-> IF n \in applied THEN batch[n] ELSE shown[n]]
      /\ base' = [n \in Nodes |-> IF n \in skipped THEN batch[n]
                                  ELSE IF n \in seeded THEN shown'[n] ELSE base[n]]
      /\ frozen' = [n \in Nodes |-> IF n \in seeded THEN None ELSE frozen[n]]
      /\ known' = [n \in Nodes |-> IF n \in DOMAIN batch
                                   THEN known[n] \cup {batch[n]} ELSE known[n]]
      /\ missing' = missing \ applied
      /\ mine' = mine \ applied /\ told' = told \ applied
      /\ UNCHANGED <<disk, timer, chain, prompts, alerted, put, fetch, load, count, misnamed,
                     touched>>
  BY DEF Apply
<1>2. DOMAIN batch \subseteq Nodes /\ \A n \in DOMAIN batch : batch[n] \in Texts
  BY <1>1, Batch
<1>3. applied \in SUBSET Nodes /\ skipped \in SUBSET Nodes
  BY <1>2
<1>4. /\ applied \cup skipped = DOMAIN batch
      /\ applied \cap PendingIds = {} /\ skipped \subseteq PendingIds
      /\ \A n \in Nodes : n \in applied => n \in seeded
  OBVIOUS
<1> HIDE DEF batch, skipped, applied, seeded
<1>5. shown' \in [Nodes -> Texts]
  BY <1>1, <1>2, <1>4, Types
<1>6. base' \in [Nodes -> Texts] /\ frozen' \in [Nodes -> Texts \cup {None}]
  BY <1>1, <1>2, <1>4, <1>5, Types
<1>7. known' \in [Nodes -> SUBSET Texts]
  BY <1>1, <1>2, Types
<1>8. ASSUME NEW n \in Nodes
      PROVE  /\ n \in applied => shown'[n] = batch[n]
             /\ n \notin applied => shown'[n] = shown[n]
             /\ base'[n] = base[n] \/ base'[n] = shown'[n]
                  \/ (n \in DOMAIN batch /\ base'[n] = batch[n])
             /\ frozen'[n] = frozen[n] \/ frozen'[n] = None
             /\ n \in applied => frozen'[n] = None
             /\ known[n] \subseteq known'[n]
             /\ n \in DOMAIN batch => batch[n] \in known'[n]
  BY <1>1, <1>4
<1> QED BY <1>1, <1>3, <1>4, <1>5, <1>6, <1>7, <1>8 DEF batch

LEMMA TypeStep == ASSUME TypeOK, [Next]_vars PROVE TypeOK'
<1> USE DEF tab, history, Learn
<1>1. ASSUME NEW n \in Nodes, Type(n) PROVE TypeOK'
  BY <1>1, Counts DEF Type, TypeOK, Bodies
<1>2. ASSUME NEW n \in Nodes, TimerFires(n) \/ FlushNow(n) \/ Retry(n) \/ KeepMine(n)
      PROVE  TypeOK'
  <2>1. chain' \in [Nodes -> 0..MaxChain]
    BY <1>2, Flushes DEF TimerFires, FlushNow, Retry, KeepMine
  <2>2. {missing', timer', prompts', alerted'} \subseteq SUBSET Nodes
    BY <1>2, Types DEF TimerFires, FlushNow, Retry, KeepMine
  <2>3. base' \in Bodies /\ frozen' \in [Nodes -> Texts \cup {None}]
    BY <1>2, Types DEF TimerFires, FlushNow, Retry, KeepMine, Bodies
  <2>4. count' \in [{"typing", "foreign", "faults", "replies"} -> Nat]
    BY <1>2, Counts DEF TimerFires, FlushNow, Retry, KeepMine, TypeOK
  <2>5. UNCHANGED <<disk, shown, put, fetch, load, updates, history>>
    BY <1>2 DEF TimerFires, FlushNow, Retry, KeepMine
  <2> QED BY <2>1, <2>2, <2>3, <2>4, <2>5 DEF TypeOK
<1>3. ASSUME NEW n \in Nodes, StartPut(n) PROVE TypeOK'
  <2>1. chain' \in [Nodes -> 0..MaxChain]
    BY <1>3, NodeContentAssumption DEF StartPut, TypeOK
  <2>2. [phase |-> "sent", text |-> shown[n], expectRev |-> base[n]] \in Requests
    BY Types DEF Requests
  <2>3. put' \in [Nodes -> {None} \cup Requests \cup Answers]
    BY <1>3, <2>2 DEF StartPut, TypeOK
  <2> QED BY <1>3, <2>1, <2>3 DEF StartPut, TypeOK
<1>4. ASSUME NEW n \in Nodes, Accept(n) PROVE TypeOK'
  <2>1. Resolved(n) \in Texts
    BY <1>4, Puts, Types DEF Accept, Resolved
  <2>2. [phase |-> "saved", rev |-> Resolved(n)] \in Answers
    BY <2>1 DEF Answers
  <2>3. put' \in [Nodes -> {None} \cup Requests \cup Answers] /\ disk' \in Bodies
    BY <1>4, <2>1, <2>2 DEF Accept, TypeOK, Bodies
  <2> QED BY <1>4, <2>3 DEF Accept, TypeOK
<1>5. ASSUME NEW n \in Nodes, Refuse(n) PROVE TypeOK'
  <2>1. [phase |-> "conflict", rev |-> disk[n]] \in Answers
    BY Types DEF Answers
  <2> QED BY <1>5, <2>1 DEF Refuse, TypeOK
<1>6. ASSUME NEW n \in Nodes, FailPut(n) PROVE TypeOK'
  <2>1. [phase |-> "failed"] \in Answers
    BY DEF Answers
  <2> QED BY <1>6, <2>1, Counts DEF FailPut, TypeOK
<1>7. ASSUME NEW n \in Nodes, Saved(n) PROVE TypeOK'
  BY <1>7, Puts, Types DEF Saved, TypeOK, Bodies
<1>8. ASSUME NEW n \in Nodes, Conflict(n) PROVE TypeOK'
  BY <1>8, Puts, Types DEF Conflict, TypeOK, Bodies
<1>9. ASSUME NEW n \in Nodes, Failed(n) \/ LabelTaken(n) \/ Duplicated(n) PROVE TypeOK'
  <2>1. put' \in [Nodes -> {None} \cup Requests \cup Answers]
    BY <1>9, Types DEF Failed, LabelTaken, Duplicated
  <2>2. {alerted', told', misnamed'} \subseteq SUBSET Nodes
    BY <1>9, Types DEF Failed, LabelTaken, Duplicated
  <2> QED BY <1>9, <2>1, <2>2 DEF Failed, LabelTaken, Duplicated, TypeOK
<1>10. ASSUME NEW n \in Nodes, Dismiss(n) PROVE TypeOK'
  BY <1>10, Counts DEF Dismiss, TypeOK
<1>11. ASSUME NEW n \in Nodes, LoadLatest(n) PROVE TypeOK'
  <2>1. [phase |-> "sent"] \in Fetch
    BY DEF Fetch
  <2> QED BY <1>11, <2>1, Counts DEF LoadLatest, TypeOK
<1>12. ASSUME NEW n \in Nodes, ReadNode(n) PROVE TypeOK'
  <2>1. [phase |-> "failed"] \in Fetch /\ [phase |-> "read", text |-> disk[n]] \in Fetch
    BY Types DEF Fetch
  <2> QED BY <1>12, <2>1, Counts DEF ReadNode, TypeOK
<1>13. ASSUME NEW n \in Nodes, LatestArrives(n) PROVE TypeOK'
  <2>1. fetch[n].text \in Texts
    BY <1>13 DEF LatestArrives, TypeOK, Fetch
  <2> QED BY <1>13, <2>1, Types DEF LatestArrives, TypeOK, Bodies
<1>14. ASSUME NEW n \in Nodes, LatestFails(n) PROVE TypeOK'
  BY <1>14 DEF LatestFails, TypeOK
<1>15. ASSUME NEW n \in Nodes, OtherTabWrites(n) PROVE TypeOK'
  BY <1>15, Counts DEF OtherTabWrites, TypeOK, Bodies
<1>16. ASSUME AgentWrites PROVE TypeOK'
  <2>1. PICK batch \in Batches :
          /\ disk' = [n \in Nodes |-> IF n \in DOMAIN batch THEN batch[n] ELSE disk[n]]
          /\ updates' = Append(updates, batch)
          /\ touched' = touched \cup DOMAIN batch
    BY <1>16 DEF AgentWrites
  <2>2. PICK changed \in SUBSET Nodes : batch \in [changed -> Texts]
    BY DEF Batches
  <2>3. disk' \in Bodies /\ touched' \subseteq Nodes
    BY <2>1, <2>2, Types DEF Bodies
  <2>4. updates' \in Seq(Batches)
    BY <2>1 DEF TypeOK
  <2> QED BY <1>16, <2>3, <2>4, Counts DEF AgentWrites, TypeOK
<1>17. ASSUME Apply PROVE TypeOK'
  <2>1. updates' \in Seq(Batches)
    BY <1>17, Batch DEF Apply
  <2> QED BY <1>17, <2>1, Applies DEF TypeOK, Bodies
<1>18. ASSUME Gap \/ Drop PROVE TypeOK'
  <2>1. [phase |-> "sent"] \in Load
    BY DEF Load
  <2>2. updates' \in Seq(Batches)
    BY <1>18, Batch DEF Gap, Drop
  <2> QED BY <1>18, <2>1, <2>2 DEF Gap, Drop, TypeOK
<1>19. ASSUME Reconnect PROVE TypeOK'
  <2>1. [phase |-> "sent"] \in Load
    BY DEF Load
  <2> QED BY <1>19, <2>1, Counts DEF Reconnect, TypeOK
<1>20. ASSUME ReadCanvas PROVE TypeOK'
  <2>1. [phase |-> "failed"] \in Load /\ [phase |-> "read", texts |-> disk] \in Load
    BY DEF Load, TypeOK
  <2> QED BY <1>20, <2>1, Counts DEF ReadCanvas, TypeOK
<1>21. ASSUME Loaded PROVE TypeOK'
  <2>1. load.texts \in Bodies
    BY <1>21 DEF Loaded, TypeOK, Load
  <2> QED BY <1>21, <2>1, Types DEF Loaded, TypeOK, Bodies
<1>22. ASSUME LoadFails PROVE TypeOK'
  BY <1>22 DEF LoadFails, TypeOK
<1>23. ASSUME NEW n \in Nodes, Reject(n) PROVE TypeOK'
  <2>1. PICK reason \in {"label", "duplicate"} : put' = [put EXCEPT ![n] = [phase |-> reason]]
    BY <1>23 DEF Reject
  <2>2. [phase |-> reason] \in Answers
    BY DEF Answers
  <2>3. put' \in [Nodes -> {None} \cup Requests \cup Answers]
    BY <2>1, <2>2 DEF TypeOK
  <2> QED BY <1>23, <2>3, Counts DEF Reject, TypeOK
<1>24. ASSUME UNCHANGED vars PROVE TypeOK'
  BY <1>24 DEF vars, TypeOK
<1> QED BY <1>1, <1>2, <1>3, <1>4, <1>5, <1>6, <1>7, <1>8, <1>9, <1>10, <1>11, <1>12, <1>13,
           <1>14, <1>15, <1>16, <1>17, <1>18, <1>19, <1>20, <1>21, <1>22, <1>23, <1>24 DEF Next

-----------------------------------------------------------------------------
(* Initially *)

LEMMA InitInv == Init => TypeOK /\ IInv
<1> SUFFICES ASSUME Init PROVE TypeOK /\ IInv
  OBVIOUS
<1>1. TypeOK
  BY NodeContentAssumption DEF Init, TypeOK, Bodies
<1>2. \A n \in Nodes : put[n] = None /\ frozen[n] = None /\ known[n] = {disk[n]}
  BY DEF Init
<1>3. shown = disk /\ base = disk /\ mine = {} /\ missing = {}
  BY DEF Init
<1> QED BY <1>1, <1>2, <1>3 DEF IInv, BaselinesAreKnown, SavesAreThawed, FrozenIsTold,
           MissingIsNotMine, LaterEditsWait, UnsavedIsVisible, Sent

-----------------------------------------------------------------------------
(* Every step preserves the parts of the invariant *)

\* What no action but these few touches: an action either is one of those
\* that follow, or leaves texts, baselines, freezes, requests and histories as they are.
Quiet == UNCHANGED <<shown, base, frozen, missing, alerted, put, known, mine, told, misnamed>>

LEMMA Steps ==
    ASSUME [Next]_vars
    PROVE  \/ \E n \in Nodes : \/ Type(n) \/ StartPut(n) \/ Accept(n) \/ Refuse(n)
                               \/ Reject(n) \/ FailPut(n)
                               \/ Saved(n) \/ Conflict(n) \/ Failed(n)
                               \/ LabelTaken(n) \/ Duplicated(n)
                               \/ KeepMine(n) \/ LatestArrives(n)
                               \/ TimerFires(n) \/ FlushNow(n) \/ Retry(n)
           \/ Apply \/ Loaded
           \/ Quiet /\ UNCHANGED <<timer, chain>>
<1> USE DEF tab, history, Quiet
<1>1. ASSUME NEW n \in Nodes,
             Dismiss(n) \/ LoadLatest(n) \/ ReadNode(n) \/ LatestFails(n) \/ OtherTabWrites(n)
      PROVE  Quiet /\ UNCHANGED <<timer, chain>>
  BY <1>1 DEF Dismiss, LoadLatest, ReadNode, LatestFails, OtherTabWrites
<1>2. ASSUME AgentWrites \/ Gap \/ Drop \/ Reconnect \/ ReadCanvas \/ LoadFails
      PROVE  Quiet /\ UNCHANGED <<timer, chain>>
  BY <1>2 DEF AgentWrites, Gap, Drop, Reconnect, ReadCanvas, LoadFails
<1>3. ASSUME UNCHANGED vars PROVE Quiet /\ UNCHANGED <<timer, chain>>
  BY <1>3 DEF vars
<1> QED BY <1>1, <1>2, <1>3 DEF Next

\* Texts, once known, stay known.
LEMMA KnownGrows ==
    ASSUME TypeOK, [Next]_vars
    PROVE  \A n \in Nodes : known[n] \subseteq known'[n]
<1> USE DEF tab, history, Learn
<1>1. ASSUME NEW n \in Nodes, Type(n) \/ Saved(n) \/ Conflict(n) \/ LatestArrives(n)
      PROVE  \A m \in Nodes : known[m] \subseteq known'[m]
  BY <1>1, Types DEF Type, Saved, Conflict, LatestArrives
<1>2. ASSUME NEW n \in Nodes,
             \/ StartPut(n) \/ Accept(n) \/ Refuse(n) \/ Reject(n) \/ FailPut(n)
             \/ Failed(n) \/ LabelTaken(n) \/ Duplicated(n)
             \/ KeepMine(n) \/ TimerFires(n) \/ FlushNow(n) \/ Retry(n)
      PROVE  UNCHANGED known
  BY <1>2 DEF StartPut, Accept, Refuse, Reject, FailPut, Failed, LabelTaken, Duplicated,
              KeepMine, TimerFires, FlushNow, Retry
<1>3. ASSUME Loaded PROVE \A m \in Nodes : known[m] \subseteq known'[m]
  BY <1>3 DEF Loaded
<1>4. ASSUME Apply PROVE \A m \in Nodes : known[m] \subseteq known'[m]
  BY <1>4, Applies
<1> QED BY <1>1, <1>2, <1>3, <1>4, Steps DEF Quiet

LEMMA BaselinesStep ==
    ASSUME TypeOK, BaselinesAreKnown, [Next]_vars
    PROVE  BaselinesAreKnown'
<1> USE DEF tab, history, Learn, BaselinesAreKnown, Sent
<1>1. ASSUME NEW n \in Nodes, Type(n) PROVE BaselinesAreKnown'
  BY <1>1, Types DEF Type
<1>2. ASSUME NEW n \in Nodes, StartPut(n) PROVE BaselinesAreKnown'
  BY <1>2, Types DEF StartPut
<1>3. ASSUME NEW n \in Nodes, Accept(n) \/ Refuse(n) \/ Reject(n) \/ FailPut(n)
      PROVE  BaselinesAreKnown'
  <2>1. UNCHANGED <<shown, base, frozen, known>>
    BY <1>3 DEF Accept, Refuse, Reject, FailPut
  <2>2. put'[n].phase # "sent" /\ \A m \in Nodes : m # n => put'[m] = put[m]
    BY <1>3, Types DEF Accept, Refuse, Reject, FailPut
  <2> QED BY <2>1, <2>2
<1>4. ASSUME NEW n \in Nodes, Saved(n) PROVE BaselinesAreKnown'
  BY <1>4, Types DEF Saved
<1>5. ASSUME NEW n \in Nodes, Conflict(n) PROVE BaselinesAreKnown'
  BY <1>5, Types DEF Conflict
<1>6. ASSUME NEW n \in Nodes, Failed(n) \/ LabelTaken(n) \/ Duplicated(n)
      PROVE  BaselinesAreKnown'
  BY <1>6, Types DEF Failed, LabelTaken, Duplicated
<1>7. ASSUME NEW n \in Nodes, KeepMine(n) PROVE BaselinesAreKnown'
  BY <1>7, Types DEF KeepMine
<1>8. ASSUME NEW n \in Nodes, LatestArrives(n) PROVE BaselinesAreKnown'
  BY <1>8, Types DEF LatestArrives
<1>9. ASSUME NEW n \in Nodes, TimerFires(n) \/ FlushNow(n) \/ Retry(n)
      PROVE  BaselinesAreKnown'
  BY <1>9 DEF TimerFires, FlushNow, Retry
<1>10. ASSUME Apply PROVE BaselinesAreKnown'
  <2>1. PICK applied, skipped \in SUBSET Nodes :
          /\ applied \cup skipped = DOMAIN Head(updates)
          /\ applied \cap PendingIds = {} /\ skipped \subseteq PendingIds
          /\ mine' = mine \ applied /\ told' = told \ applied
          /\ missing' = missing \ applied
          /\ \A n \in Nodes :
               /\ n \in applied => shown'[n] = Head(updates)[n]
               /\ n \notin applied => shown'[n] = shown[n]
               /\ base'[n] = base[n] \/ base'[n] = shown'[n]
                    \/ (n \in DOMAIN Head(updates) /\ base'[n] = Head(updates)[n])
               /\ frozen'[n] = frozen[n] \/ frozen'[n] = None
               /\ n \in applied => frozen'[n] = None
               /\ known[n] \subseteq known'[n]
               /\ n \in DOMAIN Head(updates) => Head(updates)[n] \in known'[n]
          /\ shown' \in [Nodes -> Texts] /\ base' \in [Nodes -> Texts]
          /\ frozen' \in [Nodes -> Texts \cup {None}]
          /\ known' \in [Nodes -> SUBSET Texts]
    BY <1>10, Applies, Zenon
  <2>2. UNCHANGED put
    BY <1>10, Applies
  <2>3. ASSUME NEW n \in Nodes
        PROVE  /\ shown'[n] \in known'[n] /\ base'[n] \in known'[n]
               /\ frozen'[n] # None => frozen'[n] \in known'[n]
               /\ put[n] # None /\ put[n].phase = "sent" => put[n].expectRev \in known'[n]
    BY <2>1
  <2> QED BY <2>2, <2>3
<1>11. ASSUME Loaded PROVE BaselinesAreKnown'
  BY <1>11, Types DEF Loaded
<1> QED BY <1>1, <1>2, <1>3, <1>4, <1>5, <1>6, <1>7, <1>8, <1>9, <1>10, <1>11, Steps DEF Quiet

LEMMA ThawedStep ==
    ASSUME TypeOK, SavesAreThawed, [Next]_vars
    PROVE  SavesAreThawed'
<1> USE DEF tab, history, SavesAreThawed
<1>1. ASSUME NEW n \in Nodes, Type(n) \/ TimerFires(n) \/ FlushNow(n) \/ Retry(n)
      PROVE  SavesAreThawed'
  BY <1>1 DEF Type, TimerFires, FlushNow, Retry
<1>2. ASSUME NEW n \in Nodes, StartPut(n) PROVE SavesAreThawed'
  BY <1>2, Types DEF StartPut, Writable
<1>3. ASSUME NEW n \in Nodes, Accept(n) \/ Refuse(n) \/ Reject(n) \/ FailPut(n)
      PROVE  SavesAreThawed'
  <2>1. put[n] # None /\ UNCHANGED frozen /\ \A m \in Nodes : m # n => put'[m] = put[m]
    BY <1>3, Types DEF Accept, Refuse, Reject, FailPut
  <2> QED BY <2>1
<1>4. ASSUME NEW n \in Nodes, Answered(n) PROVE SavesAreThawed'
  <2>1. put'[n] = None /\ \A m \in Nodes : m # n => put'[m] = put[m] /\ frozen'[m] = frozen[m]
    BY <1>4, Types DEF Answered, Saved, Conflict, Failed, LabelTaken, Duplicated
  <2> QED BY <2>1
<1>5. ASSUME NEW n \in Nodes, KeepMine(n) \/ LatestArrives(n) PROVE SavesAreThawed'
  BY <1>5, Types DEF KeepMine, LatestArrives
<1>6. ASSUME Apply PROVE SavesAreThawed'
  <2>1. UNCHANGED put /\ \A n \in Nodes : frozen'[n] = frozen[n] \/ frozen'[n] = None
    BY <1>6, Applies
  <2> QED BY <2>1
<1>7. ASSUME Loaded PROVE SavesAreThawed'
  BY <1>7 DEF Loaded
<1> QED BY <1>1, <1>2, <1>3, <1>4, <1>5, <1>6, <1>7, Steps DEF Quiet, Answered

LEMMA FrozenStep ==
    ASSUME TypeOK, SavesAreThawed, FrozenIsTold, [Next]_vars
    PROVE  FrozenIsTold'
<1> USE DEF tab, history, FrozenIsTold
<1>1. ASSUME NEW n \in Nodes, \/ Type(n) \/ StartPut(n) \/ Accept(n) \/ Refuse(n)
                              \/ Reject(n) \/ FailPut(n) \/ LabelTaken(n)
                              \/ TimerFires(n) \/ FlushNow(n) \/ Retry(n)
      PROVE  FrozenIsTold'
  BY <1>1 DEF Type, StartPut, Accept, Refuse, Reject, FailPut, LabelTaken, TimerFires,
              FlushNow, Retry
<1>2. ASSUME NEW n \in Nodes, Saved(n) PROVE FrozenIsTold'
  BY <1>2 DEF Saved, SavesAreThawed
<1>3. ASSUME NEW n \in Nodes, Conflict(n) PROVE FrozenIsTold'
  BY <1>3, Types DEF Conflict
<1>4. ASSUME NEW n \in Nodes, Failed(n) \/ Duplicated(n) PROVE FrozenIsTold'
  BY <1>4 DEF Failed, Duplicated
<1>5. ASSUME NEW n \in Nodes, KeepMine(n) \/ LatestArrives(n) PROVE FrozenIsTold'
  BY <1>5, Types DEF KeepMine, LatestArrives
<1>6. ASSUME Apply PROVE FrozenIsTold'
  <2>1. PICK applied \in SUBSET Nodes :
          /\ told' = told \ applied
          /\ \A n \in Nodes : /\ frozen'[n] = frozen[n] \/ frozen'[n] = None
                              /\ n \in applied => frozen'[n] = None
    BY <1>6, Applies
  <2> QED BY <2>1
<1>7. ASSUME Loaded PROVE FrozenIsTold'
  BY <1>7 DEF Loaded
<1> QED BY <1>1, <1>2, <1>3, <1>4, <1>5, <1>6, <1>7, Steps DEF Quiet

LEMMA MissingStep ==
    ASSUME TypeOK, MissingIsNotMine, [Next]_vars
    PROVE  MissingIsNotMine'
<1> USE DEF tab, history, MissingIsNotMine
<1>1. ASSUME NEW n \in Nodes, Type(n) PROVE MissingIsNotMine'
  BY <1>1 DEF Type
<1>2. ASSUME NEW n \in Nodes, \/ StartPut(n) \/ Accept(n) \/ Refuse(n) \/ Reject(n)
                              \/ FailPut(n) \/ Answered(n) \/ KeepMine(n)
                              \/ TimerFires(n) \/ FlushNow(n) \/ Retry(n)
      PROVE  MissingIsNotMine'
  <2>1. UNCHANGED missing /\ mine' \subseteq mine
    BY <1>2 DEF StartPut, Accept, Refuse, Reject, FailPut, Answered, Saved, Conflict, Failed,
                LabelTaken, Duplicated, KeepMine, TimerFires, FlushNow, Retry
  <2> QED BY <2>1
<1>3. ASSUME NEW n \in Nodes, LatestArrives(n) PROVE MissingIsNotMine'
  BY <1>3 DEF LatestArrives
<1>4. ASSUME Apply PROVE MissingIsNotMine'
  <2>1. PICK applied \in SUBSET Nodes :
          mine' = mine \ applied /\ missing' = missing \ applied
    BY <1>4, Applies
  <2> QED BY <2>1
<1>5. ASSUME Loaded PROVE MissingIsNotMine'
  BY <1>5 DEF Loaded
<1> QED BY <1>1, <1>2, <1>3, <1>4, <1>5, Steps DEF Quiet, Answered

\* A pending node is not among those an update replaces.
LEMMA AppliedAreIdle ==
    ASSUME TypeOK, Apply
    PROVE  \E applied \in SUBSET Nodes :
              /\ mine' = mine \ applied /\ told' = told \ applied
              /\ \A n \in Nodes : n \notin applied => shown'[n] = shown[n]
              /\ \A n \in applied : n \notin timer /\ ~(chain[n] > 0) /\ put[n] = None
<1>1. PICK applied \in SUBSET Nodes :
          /\ applied \cap PendingIds = {}
          /\ mine' = mine \ applied /\ told' = told \ applied
          /\ \A n \in Nodes : n \notin applied => shown'[n] = shown[n]
  BY Applies
<1>2. \A n \in applied : n \notin timer /\ ~(chain[n] > 0) /\ put[n] = None
  BY <1>1 DEF PendingIds
<1> QED BY <1>1, <1>2

LEMMA LaterEditsStep ==
    ASSUME TypeOK, LaterEditsWait, [Next]_vars
    PROVE  LaterEditsWait'
<1> USE DEF tab, history, LaterEditsWait, Sent, Waiting
<1>0. mine \subseteq Nodes
  BY Types
<1>1. ASSUME NEW n \in Nodes, Type(n) PROVE LaterEditsWait'
  BY <1>1, <1>0, Types DEF Type
<1>2. ASSUME NEW n \in Nodes, StartPut(n) PROVE LaterEditsWait'
  <2>1. \A m \in Nodes : m # n => chain'[m] = chain[m] /\ put'[m] = put[m]
    BY <1>2, Types DEF StartPut
  <2>2. put'[n] = None \/ (put'[n].phase = "sent" /\ put'[n].text = shown[n])
    BY <1>2, Types DEF StartPut
  <2>3. UNCHANGED <<shown, timer, mine>>
    BY <1>2 DEF StartPut
  <2> QED BY <1>0, <2>1, <2>2, <2>3
<1>3. ASSUME NEW n \in Nodes, Accept(n) PROVE LaterEditsWait'
  <2>1. put[n] # None /\ put[n].phase = "sent"
    BY <1>3 DEF Accept
  <2>2. put'[n].phase = "saved" /\ (put'[n].rev = put[n].text \/ put[n].text = Empty)
    BY <1>3, Types DEF Accept, Resolved
  <2>3. UNCHANGED <<shown, timer, chain, mine>> /\ \A m \in Nodes : m # n => put'[m] = put[m]
    BY <1>3, Types DEF Accept
  <2> QED BY <1>0, <2>1, <2>2, <2>3
<1>4. ASSUME NEW n \in Nodes, Refuse(n) \/ Reject(n) \/ FailPut(n) PROVE LaterEditsWait'
  <2>1. /\ put'[n].phase \in {"conflict", "failed", "label", "duplicate"}
        /\ \A m \in Nodes : m # n => put'[m] = put[m]
    BY <1>4, Types DEF Refuse, Reject, FailPut
  <2>2. UNCHANGED <<shown, timer, chain, mine>>
    BY <1>4 DEF Refuse, Reject, FailPut
  <2> QED BY <1>0, <2>1, <2>2
<1>5. ASSUME NEW n \in Nodes, Answered(n) PROVE LaterEditsWait'
  <2>1. put'[n] = None /\ \A m \in Nodes : m # n => put'[m] = put[m]
    BY <1>5, Types DEF Answered, Saved, Conflict, Failed, LabelTaken, Duplicated
  <2>2. UNCHANGED <<shown, timer, chain>> /\ mine' \subseteq mine
    BY <1>5 DEF Answered, Saved, Conflict, Failed, LabelTaken, Duplicated
  <2> QED BY <1>0, <2>1, <2>2
<1>6. ASSUME NEW n \in Nodes, TimerFires(n) \/ FlushNow(n) \/ Retry(n) \/ KeepMine(n)
      PROVE  LaterEditsWait'
  <2>1. chain'[n] > 0 /\ \A m \in Nodes : m # n => chain'[m] = chain[m]
    BY <1>6, Flushes DEF TimerFires, FlushNow, Retry, KeepMine
  <2>2. \A m \in Nodes : m # n => (m \in timer' <=> m \in timer)
    BY <1>6 DEF TimerFires, FlushNow, Retry, KeepMine
  <2>3. UNCHANGED <<shown, put, mine>>
    BY <1>6 DEF TimerFires, FlushNow, Retry, KeepMine
  <2> QED BY <1>0, <2>1, <2>2, <2>3
<1>7. ASSUME NEW n \in Nodes, LatestArrives(n) PROVE LaterEditsWait'
  BY <1>7, <1>0, Types DEF LatestArrives
<1>8. ASSUME Apply PROVE LaterEditsWait'
  <2>1. PICK applied \in SUBSET Nodes :
          /\ mine' = mine \ applied
          /\ \A n \in Nodes : n \notin applied => shown'[n] = shown[n]
    BY <1>8, AppliedAreIdle
  <2>2. UNCHANGED <<put, timer, chain>>
    BY <1>8, Applies
  <2> QED BY <1>0, <2>1, <2>2
<1>9. ASSUME Loaded PROVE LaterEditsWait'
  BY <1>9 DEF Loaded
<1> QED BY <1>1, <1>2, <1>3, <1>4, <1>5, <1>6, <1>7, <1>8, <1>9, Steps DEF Quiet, Answered

LEMMA VisibleStep ==
    ASSUME TypeOK, FrozenIsTold, MissingIsNotMine, LaterEditsWait, UnsavedIsVisible, [Next]_vars
    PROVE  UnsavedIsVisible'
<1> USE DEF tab, history, Underway, Announced
<1> DEFINE Visible == \A n \in mine :
                          Underway(n) \/ Announced(n) \/ n \in misnamed \/ shown[n] = Empty
<1>0. mine \subseteq Nodes /\ Visible
  BY Types DEF UnsavedIsVisible
<1> SUFFICES Visible'
  BY TypeStep DEF UnsavedIsVisible
<1>1. ASSUME NEW n \in Nodes, Type(n) PROVE Visible'
  BY <1>1, <1>0, Types DEF Type
<1>2. ASSUME NEW n \in Nodes, StartPut(n) PROVE Visible'
  <2>1. \A m \in Nodes : m # n => chain'[m] = chain[m] /\ put'[m] = put[m]
    BY <1>2, Types DEF StartPut
  <2>2. put'[n] # None \/ n \in told \/ n \notin mine
    <3>1. CASE Writable(n)
      <4>1. put'[n] \in Requests
        BY <1>2, <3>1, Types DEF StartPut, Requests
      <4> QED BY <4>1, NotNone
    <3>2. CASE ~Writable(n)
      BY <3>2 DEF Writable, FrozenIsTold, MissingIsNotMine
    <3> QED BY <3>1, <3>2
  <2>3. /\ UNCHANGED <<shown, timer, mine, told, alerted>>
        /\ \A m \in Nodes : m # n => (m \in misnamed' <=> m \in misnamed)
    BY <1>2 DEF StartPut
  <2> QED BY <1>0, <2>1, <2>2, <2>3
<1>3. ASSUME NEW n \in Nodes, Accept(n) \/ Refuse(n) \/ Reject(n) \/ FailPut(n) PROVE Visible'
  <2>1. UNCHANGED <<shown, timer, chain, mine, told, alerted, misnamed>>
    BY <1>3 DEF Accept, Refuse, Reject, FailPut
  <2>2. put[n] # None /\ \A m \in Nodes : m # n => put'[m] = put[m]
    BY <1>3, Types DEF Accept, Refuse, Reject, FailPut
  <2>3. put'[n] # None
    <3>2. ASSUME Accept(n) PROVE put'[n] \in Answers
      BY <3>2, Puts, Types DEF Accept, Resolved, Answers
    <3>3. ASSUME Refuse(n) PROVE put'[n] \in Answers
      BY <3>3, Types DEF Refuse, Answers
    <3>4. ASSUME FailPut(n) PROVE put'[n] \in Answers
      BY <3>4, Types DEF FailPut, Answers
    <3>5. ASSUME Reject(n) PROVE put'[n] \in Answers
      BY <3>5, Types DEF Reject, Answers
    <3> QED BY <1>3, <3>2, <3>3, <3>4, <3>5, NotNone
  <2> QED BY <1>0, <2>1, <2>2, <2>3
<1>4. ASSUME NEW n \in Nodes, Saved(n) PROVE Visible'
  <2>1. n \in mine' => shown[n] = Empty \/ n \in timer \/ chain[n] > 0
    BY <1>4 DEF Saved, LaterEditsWait, Waiting
  <2>2. /\ \A m \in Nodes : m # n => put'[m] = put[m]
        /\ told' = told \ {n} /\ alerted' = alerted \ {n}
    BY <1>4, Types DEF Saved
  <2>3. UNCHANGED <<shown, timer, chain, misnamed>> /\ mine' \subseteq mine
    BY <1>4 DEF Saved
  <2> QED BY <1>0, <2>1, <2>2, <2>3
<1>5. ASSUME NEW n \in Nodes, Conflict(n) \/ Failed(n) \/ LabelTaken(n) \/ Duplicated(n)
      PROVE  Visible'
  <2>1. /\ UNCHANGED <<shown, timer, chain, mine>>
        /\ told \subseteq told' /\ alerted \subseteq alerted' /\ misnamed \subseteq misnamed'
    BY <1>5 DEF Conflict, Failed, LabelTaken, Duplicated
  <2>2. n \in told' \/ n \in alerted' \/ n \in misnamed'
    BY <1>5 DEF Conflict, Failed, LabelTaken, Duplicated
  <2>3. \A m \in Nodes : m # n => put'[m] = put[m]
    BY <1>5, Types DEF Conflict, Failed, LabelTaken, Duplicated
  <2> QED BY <1>0, <2>1, <2>2, <2>3
<1>6. ASSUME NEW n \in Nodes, TimerFires(n) \/ FlushNow(n) \/ Retry(n) \/ KeepMine(n)
      PROVE  Visible'
  <2>1. chain'[n] > 0 /\ \A m \in Nodes : m # n => chain'[m] = chain[m]
    BY <1>6, Flushes DEF TimerFires, FlushNow, Retry, KeepMine
  <2>2. \A m \in Nodes : m # n => (m \in timer' <=> m \in timer)
    BY <1>6 DEF TimerFires, FlushNow, Retry, KeepMine
  <2>3. /\ UNCHANGED <<shown, put, mine, told, misnamed>>
        /\ \A m \in Nodes : m # n => (m \in alerted' <=> m \in alerted)
    BY <1>6 DEF TimerFires, FlushNow, Retry, KeepMine
  <2> QED BY <1>0, <2>1, <2>2, <2>3
<1>7. ASSUME NEW n \in Nodes, LatestArrives(n) PROVE Visible'
  BY <1>7, <1>0, Types DEF LatestArrives
<1>8. ASSUME Apply PROVE Visible'
  <2>1. PICK applied \in SUBSET Nodes :
          /\ mine' = mine \ applied /\ told' = told \ applied
          /\ \A n \in Nodes : n \notin applied => shown'[n] = shown[n]
    BY <1>8, AppliedAreIdle
  <2>2. UNCHANGED <<put, timer, chain, alerted, misnamed>>
    BY <1>8, Applies
  <2> QED BY <1>0, <2>1, <2>2
<1>9. ASSUME Loaded PROVE Visible'
  BY <1>9 DEF Loaded
<1> QED BY <1>0, <1>1, <1>2, <1>3, <1>4, <1>5, <1>6, <1>7, <1>8, <1>9, Steps DEF Quiet

-----------------------------------------------------------------------------
(* The theorems *)

\* The inductive invariant holds in every state.
THEOREM Invariance == Spec => [](TypeOK /\ IInv)
<1>1. Init => TypeOK /\ IInv
  BY InitInv
<1>2. (TypeOK /\ IInv) /\ [Next]_vars => (TypeOK /\ IInv)'
  BY TypeStep, BaselinesStep, ThawedStep, FrozenStep, MissingStep, LaterEditsStep, VisibleStep
     DEF IInv
<1> QED BY <1>1, <1>2, PTL DEF Spec

\* nodeContentQueue.ts: whatever answers are lost and whatever agents and other tabs
\* do, a typed text that is not saved is on its way to the server or announced, unless
\* its save was refused for the label that it carried.
THEOREM UnsavedStaysVisible == Spec => []UnsavedIsVisible
<1>1. IInv => UnsavedIsVisible
  BY DEF IInv
<1> QED BY <1>1, Invariance, PTL

\* canvas.route.ts:795: the compare-and-set on the baseline is enough, for every way
\* the tab comes by a baseline.
THEOREM NoTextIsOverwrittenUnseen == Spec => NoBlindOverwrite
<1>1. (TypeOK /\ IInv) /\ [Next]_vars =>
        [\A n \in Nodes : Accept(n) /\ disk'[n] # disk[n] => disk[n] \in known[n]]_vars
  BY DEF IInv, BaselinesAreKnown, Sent, Accept, RevisionMatches
<1> QED BY <1>1, Invariance, PTL DEF Spec, NoBlindOverwrite

\* nodeContentQueue.ts:415: a save cannot have been sent before its node was frozen.
THEOREM FrozenNodesAreNotWritten == Spec => FrozenNeverWrites
<1>1. (TypeOK /\ IInv) /\ [Next]_vars => [\A n \in Nodes : Accept(n) => frozen[n] = None]_vars
  BY DEF IInv, SavesAreThawed, Accept
<1> QED BY <1>1, Invariance, PTL DEF Spec, FrozenNeverWrites

\* canvasStore.ts:1568: a node with a timer, a queued flush or a save in flight keeps
\* its text when an update arrives.
THEOREM UpdatesSparePendingTexts == Spec => UpdateSparesPending
<1>1. TypeOK /\ [Next]_vars =>
        [Apply => \A n \in Nodes : Underway(n) => shown'[n] = shown[n]]_vars
  <2> SUFFICES ASSUME TypeOK, Apply, NEW n \in Nodes, Underway(n)
               PROVE  shown'[n] = shown[n]
    OBVIOUS
  <2> QED BY AppliedAreIdle DEF Underway
<1> QED BY <1>1, Invariance, PTL DEF Spec, UpdateSparesPending

===============================================================================
