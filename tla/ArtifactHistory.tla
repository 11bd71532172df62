---------------------------- MODULE ArtifactHistory ----------------------------
(***************************************************************************)
(* What the revision ledger promises an author: every artifact has one     *)
(* line of history.  A revision enters it once, on top of the very head it *)
(* was made from, and only undo and redo bring back one of the past, which *)
(* is lost with the artifact and never before.                             *)
(***************************************************************************)
CONSTANTS Artifacts, Revisions, None

VARIABLES
    head,    \* the content of each artifact, or None
    past,    \* what it was before, and can be again
    draft,   \* revisions proposed and not adopted
    made,    \* revisions ever written
    base     \* what each of them was made from

Init ==
    /\ head = [a \in Artifacts |-> None]
    /\ past = [a \in Artifacts |-> {}]
    /\ draft = {}
    /\ made = {}
    /\ base = [v \in Revisions |-> None]

Make(v, b) ==
    /\ v \notin made
    /\ made' = made \cup {v}
    /\ base' = [base EXCEPT ![v] = b]

Propose(v, b) ==
    /\ Make(v, b)
    /\ draft' = draft \cup {v}
    /\ UNCHANGED <<head, past>>

\* A revision made from b becomes history: one just written, or a draft.
Enter(v, b) ==
    \/ Make(v, b) /\ UNCHANGED draft
    \/ /\ v \in draft /\ base[v] = b
       /\ draft' = draft \ {v}
       /\ UNCHANGED <<made, base>>

\* An artifact without content gets some; what it was made from may come back
\* with it, if the artifact had been deleted meanwhile.
Begin(a, v, b) ==
    /\ head[a] = None
    /\ Enter(v, b)
    /\ head' = [head EXCEPT ![a] = v]
    /\ \E back \in SUBSET ({b} \ {None}) : past' = [past EXCEPT ![a] = @ \cup back]

Commit(a, v) ==
    /\ head[a] # None
    /\ Enter(v, head[a])
    /\ head' = [head EXCEPT ![a] = v]
    /\ past' = [past EXCEPT ![a] = @ \cup {head[a]}]

Restore(a, v) ==
    /\ head[a] # None
    /\ v \in past[a]
    /\ head' = [head EXCEPT ![a] = v]
    /\ past' = [past EXCEPT ![a] = (@ \cup {head[a]}) \ {v}]
    /\ UNCHANGED <<draft, made, base>>

Delete(a) ==
    /\ head[a] # None
    /\ head' = [head EXCEPT ![a] = None]
    /\ past' = [past EXCEPT ![a] = {}]
    /\ UNCHANGED <<draft, made, base>>

Next ==
    \/ \E v \in Revisions, b \in Revisions \cup {None} : Propose(v, b)
    \/ \E a \in Artifacts, v \in Revisions :
          \/ \E b \in Revisions \cup {None} : Begin(a, v, b)
          \/ Commit(a, v)
          \/ Restore(a, v)
    \/ \E a \in Artifacts : Delete(a)

Spec == Init /\ [][Next]_<<head, past, draft, made, base>>

================================================================================
