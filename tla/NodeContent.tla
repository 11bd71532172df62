------------------------------ MODULE NodeContent ------------------------------
(***************************************************************************)
(* The texts of a canvas: one browser tab that saves what the user types,  *)
(* node by node (nodeContentQueue.ts), the server's PUT and GET of a       *)
(* node's sidecar (canvas.route.ts over write-coordinator.ts), and what    *)
(* else reaches them: agents and other tabs that write the sidecars, the   *)
(* updates that agents broadcast, and reloads of the canvas                *)
(* (canvasStore.ts).                                                       *)
(*                                                                         *)
(* The revision of a text is its hash; here it is the text itself.  Which  *)
(* updates fit the tab's version is the matter of module StructureSave;    *)
(* here an update that arrives may fit, leave a gap, or be old.            *)
(***************************************************************************)
EXTENDS Naturals, Sequences, FiniteSets

CONSTANTS
    Nodes,       \* text nodes of the canvas
    Texts,       \* what they may say
    Empty,       \* the text of a new node, and of a missing sidecar
    MaxChain,    \* bound on the flushes of a node waiting for an earlier one
    MaxTyping,   \* bound on the edits of the user
    MaxForeign,  \* bound on the writes of agents and other tabs
    MaxFaults,   \* bound on failing requests and broken streams
    MaxReplies,  \* bound on the user's answers to toasts
    None

Bodies == [Nodes -> Texts]
Batches == UNION {[changed -> Texts] : changed \in SUBSET Nodes}
Requests == [phase : {"sent"}, text : Texts, expectRev : Texts]
Answers == [phase : {"saved", "conflict"}, rev : Texts]
           \cup [phase : {"failed", "label", "duplicate"}]
Fetch == [phase : {"sent", "failed"}] \cup [phase : {"read"}, text : Texts]
Load == [phase : {"sent", "failed"}] \cup [phase : {"read"}, texts : Bodies]

ASSUME NodeContentAssumption ==
    /\ Empty \in Texts
    /\ None \notin Texts \cup Requests \cup Answers \cup Fetch \cup Load
    /\ MaxChain \in Nat \ {0}
    /\ {MaxTyping, MaxForeign, MaxFaults, MaxReplies} \subseteq Nat

VARIABLES
    disk,     \* the body of the node's sidecar
    shown,    \* data.content in the tab's store
    base,     \* baselineRev: the revision the next PUT expects
    frozen,   \* frozen: the revision the node collided with
    missing,  \* data.contentMissing: nodes loaded without a sidecar
    timer,    \* debounced saves
    chain,    \* flushes chained behind the one in flight
    put,      \* the PUT in flight, or its answer
    fetch,    \* the GET of Load latest, or its answer
    load,     \* the canvas reload in flight, or its answer
    prompts,  \* nodes whose conflict toast is on the screen
    alerted,  \* saveErrorToasted
    updates,  \* broadcasts on their way to the tab
    count,    \* steps taken towards the bounds
    mine,     \* history: nodes whose text was typed here and is not known to be saved
    told,     \* history: nodes for which a toast or banner said so since their last save
    misnamed, \* history: nodes whose last PUT was refused for the label it carried
    known,    \* history: texts of the node the tab has held, or was told to collide with
    touched   \* history: nodes written by others

tab == <<shown, base, frozen, missing, timer, chain, prompts, alerted>>
history == <<mine, told, misnamed, known, touched>>
vars == <<disk, tab, put, fetch, load, updates, count, history>>

TypeOK ==
    /\ {disk, shown, base} \subseteq Bodies
    /\ frozen \in [Nodes -> Texts \cup {None}]
    /\ chain \in [Nodes -> 0..MaxChain]
    /\ put \in [Nodes -> {None} \cup Requests \cup Answers]
    /\ fetch \in [Nodes -> Fetch \cup {None}]
    /\ load \in Load \cup {None}
    /\ updates \in Seq(Batches)
    /\ count \in [{"typing", "foreign", "faults", "replies"} -> Nat]
    /\ {missing, timer, prompts, alerted} \subseteq SUBSET Nodes
    /\ {mine, told, misnamed, touched} \subseteq SUBSET Nodes
    /\ known \in [Nodes -> SUBSET Texts]

\* A canvas just loaded.
Init ==
    /\ disk \in Bodies
    /\ shown = disk /\ base = disk
    /\ frozen = [n \in Nodes |-> None]
    /\ missing = {} /\ timer = {} /\ prompts = {} /\ alerted = {}
    /\ chain = [n \in Nodes |-> 0]
    /\ put = [n \in Nodes |-> None]
    /\ fetch = [n \in Nodes |-> None]
    /\ load = None
    /\ updates = <<>>
    /\ count = [b \in {"typing", "foreign", "faults", "replies"} |-> 0]
    /\ mine = {} /\ told = {} /\ misnamed = {} /\ touched = {}
    /\ known = [n \in Nodes |-> {disk[n]}]

Once(kind, max) == count[kind] < max /\ count' = [count EXCEPT ![kind] = @ + 1]
Learn(n, t) == known' = [known EXCEPT ![n] = @ \cup {t}]

-----------------------------------------------------------------------------
(* Typing and flushing.  A canvas that reloads shows a spinner instead, and a *)
(* node without a sidecar a banner.                                           *)

Type(n) ==
    /\ load = None /\ n \notin missing
    /\ Once("typing", MaxTyping)
    /\ \E t \in Texts \ {shown[n]} :
          /\ shown' = [shown EXCEPT ![n] = t]
          /\ Learn(n, t)
    /\ timer' = timer \cup {n}
    /\ mine' = mine \cup {n}
    /\ misnamed' = misnamed \ {n}
    /\ UNCHANGED <<disk, base, frozen, missing, chain, prompts, alerted, put, fetch,
                   load, updates, told, touched>>

Flush(n) ==
    /\ chain[n] < MaxChain
    /\ chain' = [chain EXCEPT ![n] = @ + 1]

TimerFiresIfIdle(n) ==
    /\ n \in timer
    /\ timer' = timer \ {n}
    /\ IF put[n] = None THEN Flush(n) ELSE UNCHANGED chain
    /\ UNCHANGED <<disk, shown, base, frozen, missing, prompts, alerted, put, fetch,
                   load, updates, count, history>>
TimerFires(n) ==
    /\ n \in timer
    /\ timer' = timer \ {n}
    /\ Flush(n)
    /\ UNCHANGED <<disk, shown, base, frozen, missing, prompts, alerted, put, fetch,
                   load, updates, count, history>>

\* flushNow(), by a rename.
FlushNow(n) ==
    /\ Once("replies", MaxReplies)
    /\ timer' = timer \ {n}
    /\ Flush(n)
    /\ UNCHANGED <<disk, shown, base, frozen, missing, prompts, alerted, put, fetch,
                   load, updates, history>>

\* buildRequest(): a node that is frozen, or has lost its sidecar, is not written.
MayWrite(n) == n \notin missing
Writable(n) == frozen[n] = None /\ n \notin missing

\* performSave(): the text is read when the flush gets its turn.
StartPut(n) ==
    /\ chain[n] > 0 /\ put[n] = None
    /\ chain' = [chain EXCEPT ![n] = @ - 1]
    /\ put' = IF Writable(n)
              THEN [put EXCEPT ![n] = [phase |-> "sent", text |-> shown[n],
                                       expectRev |-> base[n]]]
              ELSE put
    /\ misnamed' = IF Writable(n) THEN misnamed \ {n} ELSE misnamed
    /\ UNCHANGED <<disk, shown, base, frozen, missing, timer, prompts, alerted, fetch,
                   load, updates, count, mine, told, known, touched>>

-----------------------------------------------------------------------------
(* The server *)

AnyRevision(n) == TRUE
RevisionMatches(n) == put[n].expectRev = disk[n]

\* An empty body never wipes a text: the old one stays.
Resolved(n) == IF put[n].text = Empty THEN disk[n] ELSE put[n].text

Accept(n) ==
    /\ put[n] # None /\ put[n].phase = "sent"
    /\ RevisionMatches(n)
    /\ disk' = [disk EXCEPT ![n] = Resolved(n)]
    /\ put' = [put EXCEPT ![n] = [phase |-> "saved", rev |-> Resolved(n)]]
    /\ UNCHANGED <<tab, fetch, load, updates, count, history>>

Refuse(n) ==
    /\ put[n] # None /\ put[n].phase = "sent"
    /\ ~RevisionMatches(n)
    /\ put' = [put EXCEPT ![n] = [phase |-> "conflict", rev |-> disk[n]]]
    /\ UNCHANGED <<disk, tab, fetch, load, updates, count, history>>

\* The baseline holds, but another node has the label that the PUT carries, or a
\* second sidecar claims the node.
Reject(n) ==
    /\ put[n] # None /\ put[n].phase = "sent"
    /\ RevisionMatches(n)
    /\ Once("faults", MaxFaults)
    /\ \E reason \in {"label", "duplicate"} :
          put' = [put EXCEPT ![n] = [phase |-> reason]]
    /\ UNCHANGED <<disk, tab, fetch, load, updates, history>>

\* The write failed, or the answer is lost.
FailPut(n) ==
    /\ put[n] # None /\ put[n].phase # "failed"
    /\ Once("faults", MaxFaults)
    /\ put' = [put EXCEPT ![n] = [phase |-> "failed"]]
    /\ UNCHANGED <<disk, tab, fetch, load, updates, history>>

-----------------------------------------------------------------------------
(* The answer of a PUT *)

Saved(n) ==
    /\ put[n] # None /\ put[n].phase = "saved"
    /\ base' = [base EXCEPT ![n] = put[n].rev]
    /\ Learn(n, put[n].rev)
    /\ alerted' = alerted \ {n}
    /\ mine' = IF shown[n] = put[n].rev THEN mine \ {n} ELSE mine
    /\ told' = told \ {n}
    /\ put' = [put EXCEPT ![n] = None]
    /\ UNCHANGED <<disk, shown, frozen, missing, timer, chain, prompts, fetch, load,
                   updates, count, misnamed, touched>>

\* handleContentConflict()
Conflict(n) ==
    /\ put[n] # None /\ put[n].phase = "conflict"
    /\ frozen' = [frozen EXCEPT ![n] = put[n].rev]
    /\ Learn(n, put[n].rev)
    /\ prompts' = prompts \cup {n}
    /\ told' = told \cup {n}
    /\ put' = [put EXCEPT ![n] = None]
    /\ UNCHANGED <<disk, shown, base, missing, timer, chain, alerted, fetch, load,
                   updates, count, mine, misnamed, touched>>

\* handleSaveFailure(): nothing is sent again until the user types or clicks.
FailedQuietly(n) ==
    /\ put[n] # None /\ put[n].phase = "failed"
    /\ put' = [put EXCEPT ![n] = None]
    /\ UNCHANGED <<disk, tab, fetch, load, updates, count, history>>
Failed(n) ==
    /\ put[n] # None /\ put[n].phase = "failed"
    /\ \/ alerted' = alerted \cup {n} /\ told' = told \cup {n}
       \* a save by the debounce fails again: the toast is not repeated
       \/ n \in alerted /\ UNCHANGED <<alerted, told>>
    /\ put' = [put EXCEPT ![n] = None]
    /\ UNCHANGED <<disk, shown, base, frozen, missing, timer, chain, prompts, fetch,
                   load, updates, count, mine, misnamed, known, touched>>

\* The label conflict is for tryRename(), which toasts about the name and reverts it;
\* after a debounced save nobody catches it.  The text is not sent again.
LabelTaken(n) ==
    /\ put[n] # None /\ put[n].phase = "label"
    /\ misnamed' = misnamed \cup {n}
    /\ put' = [put EXCEPT ![n] = None]
    /\ UNCHANGED <<disk, tab, fetch, load, updates, count, mine, told, known, touched>>

\* notifyDuplicate(): a banner over the node
Duplicated(n) ==
    /\ put[n] # None /\ put[n].phase = "duplicate"
    /\ told' = told \cup {n}
    /\ put' = [put EXCEPT ![n] = None]
    /\ UNCHANGED <<disk, tab, fetch, load, updates, count, mine, misnamed, known, touched>>

-----------------------------------------------------------------------------
(* The user answers a toast; the click closes it *)

Retry(n) ==
    /\ n \in alerted
    /\ Once("replies", MaxReplies)
    /\ alerted' = alerted \ {n}
    /\ Flush(n)
    /\ UNCHANGED <<disk, shown, base, frozen, missing, timer, prompts, put, fetch,
                   load, updates, history>>

Dismiss(n) ==
    /\ n \in prompts
    /\ Once("replies", MaxReplies)
    /\ prompts' = prompts \ {n}
    /\ UNCHANGED <<disk, shown, base, frozen, missing, timer, chain, alerted, put,
                   fetch, load, updates, history>>

KeepMine(n) ==
    /\ n \in prompts
    /\ Once("replies", MaxReplies)
    /\ prompts' = prompts \ {n}
    /\ base' = IF frozen[n] = None THEN base ELSE [base EXCEPT ![n] = frozen[n]]
    /\ frozen' = [frozen EXCEPT ![n] = None]
    /\ Flush(n)
    /\ UNCHANGED <<disk, shown, missing, timer, alerted, put, fetch, load, updates,
                   history>>

\* One refetch of a node at a time.
LoadLatest(n) ==
    /\ n \in prompts /\ fetch[n] = None
    /\ Once("replies", MaxReplies)
    /\ prompts' = prompts \ {n}
    /\ fetch' = [fetch EXCEPT ![n] = [phase |-> "sent"]]
    /\ UNCHANGED <<disk, shown, base, frozen, missing, timer, chain, alerted, put,
                   load, updates, history>>

ReadNode(n) ==
    /\ fetch[n] # None /\ fetch[n].phase = "sent"
    /\ \/ /\ fetch' = [fetch EXCEPT ![n] = [phase |-> "read", text |-> disk[n]]]
          /\ UNCHANGED count
       \/ /\ Once("faults", MaxFaults)
          /\ fetch' = [fetch EXCEPT ![n] = [phase |-> "failed"]]
    /\ UNCHANGED <<disk, tab, put, load, updates, history>>

LatestArrives(n) ==
    /\ fetch[n] # None /\ fetch[n].phase = "read"
    /\ shown' = [shown EXCEPT ![n] = fetch[n].text]
    /\ base' = [base EXCEPT ![n] = fetch[n].text]
    /\ Learn(n, fetch[n].text)
    /\ frozen' = [frozen EXCEPT ![n] = None]
    /\ \/ missing' = missing \ {n}
       \/ fetch[n].text = Empty /\ missing' = missing \cup {n}
    /\ mine' = mine \ {n} /\ told' = told \ {n}
    /\ fetch' = [fetch EXCEPT ![n] = None]
    /\ UNCHANGED <<disk, timer, chain, prompts, alerted, put, load, updates, count,
                   misnamed, touched>>

LatestFails(n) ==
    /\ fetch[n] # None /\ fetch[n].phase = "failed"
    /\ fetch' = [fetch EXCEPT ![n] = None]
    /\ UNCHANGED <<disk, tab, put, load, updates, count, history>>

-----------------------------------------------------------------------------
(* Others write sidecars: agents broadcast the nodes they replaced, whole; *)
(* other tabs do not                                                       *)

AgentWrites ==
    /\ Once("foreign", MaxForeign)
    /\ \E batch \in Batches :
          /\ batch # <<>>
          /\ disk' = [n \in Nodes |-> IF n \in DOMAIN batch THEN batch[n] ELSE disk[n]]
          /\ updates' = Append(updates, batch)
          /\ touched' = touched \cup DOMAIN batch
    /\ UNCHANGED <<tab, put, fetch, load, mine, told, misnamed, known>>

OtherTabWrites(n) ==
    /\ Once("foreign", MaxForeign)
    /\ \E t \in Texts \ {disk[n]} : disk' = [disk EXCEPT ![n] = t]
    /\ touched' = touched \cup {n}
    /\ UNCHANGED <<tab, put, fetch, load, updates, mine, told, misnamed, known>>

-----------------------------------------------------------------------------
(* Updates arrive *)

DebouncedIds == timer
\* pendingNodeIds()
PendingIds == timer \cup {n \in Nodes : chain[n] > 0 \/ put[n] # None}

\* applyDeltasFromAgent(): nodes with a pending save keep their text and adopt the
\* revision; if anything was applied, all the others are seeded, changed or not.
Apply ==
    /\ updates # <<>>
    /\ LET batch == Head(updates)
           skipped == DOMAIN batch \cap PendingIds
           applied == DOMAIN batch \ skipped
           seeded == IF applied = {} THEN skipped ELSE Nodes
       IN /\ shown' = [n \in Nodes |-> IF n \in applied THEN batch[n] ELSE shown[n]]
          /\ base' = [n \in Nodes |-> IF n \in skipped THEN batch[n]
                                      ELSE IF n \in seeded THEN shown'[n] ELSE base[n]]
          /\ frozen' = [n \in Nodes |-> IF n \in seeded THEN None ELSE frozen[n]]
          /\ known' = [n \in Nodes |-> IF n \in DOMAIN batch
                                       THEN known[n] \cup {batch[n]} ELSE known[n]]
          /\ missing' = missing \ applied
          /\ mine' = mine \ applied /\ told' = told \ applied
    /\ updates' = Tail(updates)
    /\ UNCHANGED <<disk, timer, chain, prompts, alerted, put, fetch, load, count, misnamed,
                   touched>>

\* A gap while nothing is pending is healed by a reload; otherwise, as an old one, it
\* is dropped.
Gap ==
    /\ updates # <<>> /\ PendingIds = {} /\ load = None
    /\ updates' = Tail(updates)
    /\ load' = [phase |-> "sent"]
    /\ UNCHANGED <<disk, tab, put, fetch, count, history>>

Drop ==
    /\ updates # <<>>
    /\ updates' = Tail(updates)
    /\ UNCHANGED <<disk, tab, put, fetch, load, count, history>>

-----------------------------------------------------------------------------
(* Reloads, one at a time *)

\* The stream breaks and connects again; the version of the snapshot differs.
Reconnect ==
    /\ load = None
    /\ Once("faults", MaxFaults)
    /\ updates' = <<>>
    /\ load' = [phase |-> "sent"]
    /\ UNCHANGED <<disk, tab, put, fetch, history>>

ReadCanvas ==
    /\ load # None /\ load.phase = "sent"
    /\ \/ load' = [phase |-> "read", texts |-> disk] /\ UNCHANGED count
       \/ Once("faults", MaxFaults) /\ load' = [phase |-> "failed"]
    /\ UNCHANGED <<disk, tab, put, fetch, updates, history>>

\* loadCanvas(): the store is replaced and seeded; timers and requests stay.
Loaded ==
    /\ load # None /\ load.phase = "read"
    /\ shown' = load.texts
    /\ base' = load.texts
    /\ frozen' = [n \in Nodes |-> None]
    /\ known' = [n \in Nodes |-> known[n] \cup {load.texts[n]}]
    /\ missing' \in SUBSET {n \in Nodes : load.texts[n] = Empty}
    /\ mine' = {} /\ told' = {}
    /\ load' = None
    /\ UNCHANGED <<disk, timer, chain, prompts, alerted, put, fetch, updates, count,
                   misnamed, touched>>

LoadFails ==
    /\ load # None /\ load.phase = "failed"
    /\ load' = None
    /\ UNCHANGED <<disk, tab, put, fetch, updates, count, history>>

-----------------------------------------------------------------------------
Answered(n) == Saved(n) \/ Conflict(n) \/ Failed(n) \/ LabelTaken(n) \/ Duplicated(n)

Next ==
    \/ \E n \in Nodes :
          \/ Type(n) \/ TimerFires(n) \/ FlushNow(n) \/ StartPut(n)
          \/ Accept(n) \/ Refuse(n) \/ Reject(n) \/ FailPut(n)
          \/ Saved(n) \/ Conflict(n) \/ Failed(n) \/ LabelTaken(n) \/ Duplicated(n)
          \/ Retry(n) \/ Dismiss(n) \/ KeepMine(n) \/ LoadLatest(n)
          \/ ReadNode(n) \/ LatestArrives(n) \/ LatestFails(n)
          \/ OtherTabWrites(n)
    \/ AgentWrites
    \/ Apply \/ Gap \/ Drop
    \/ Reconnect \/ ReadCanvas \/ Loaded \/ LoadFails

\* The user pauses, so that the debounce ends; requests are answered, or fail.
Fairness ==
    \A n \in Nodes :
        /\ WF_vars(TimerFires(n))
        /\ WF_vars(StartPut(n))
        /\ WF_vars(Accept(n) \/ Refuse(n))
        /\ WF_vars(Answered(n))

Spec == Init /\ [][Next]_vars
FairSpec == Spec /\ Fairness

-----------------------------------------------------------------------------
(* Properties *)

Underway(n) == n \in timer \/ chain[n] > 0 \/ put[n] # None

\* canvas.route.ts:795: a save never replaces a text the tab has neither held nor been
\* told to collide with, whatever agents, other tabs and lost answers did in between.
NoBlindOverwrite ==
    [][\A n \in Nodes : Accept(n) /\ disk'[n] # disk[n] => disk[n] \in known[n]]_vars

\* nodeContentQueue.ts:415: while a node is frozen none of its save paths can write.
FrozenNeverWrites ==
    [][\A n \in Nodes : Accept(n) => frozen[n] = None]_vars

\* A toast or banner says that the node is not saved: one shown since the text was
\* loaded or saved, or the toast of an earlier failure, which stays on the screen.
Announced(n) == n \in told \cup alerted

\* What the user typed and the server has not confirmed is on its way, or the user has
\* been told.  (Two exceptions: emptying a node, since the server keeps the old text
\* and the tab believes it is saved, and a text whose PUT was refused for the label.)
UnsavedIsVisible ==
    /\ TypeOK
    /\ \A n \in mine :
          Underway(n) \/ Announced(n) \/ n \in misnamed \/ shown[n] = Empty

\* canvasStore.ts:1568: an agent's update never replaces a text that waits to be saved
\* or is being saved.
UpdateSparesPending ==
    [][Apply => \A n \in Nodes : Underway(n) => shown'[n] = shown[n]]_vars

\* Everything typed is in the end saved, replaced by what the tab loads, or announced,
\* with the two exceptions of UnsavedIsVisible.
SavedOrTold ==
    \A n \in Nodes : n \in mine ~>
        (n \notin mine \/ Announced(n) \/ n \in misnamed \/ shown[n] = Empty)

\* The comment of canvasStore.ts:1667 re-seeds "the nodes this agent write actually
\* applied": a node nobody else has written never collides.
NoFalseConflict == \A n \in Nodes \ touched : frozen[n] = None

===============================================================================
