------------------------------- MODULE RunPromise -------------------------------
(***************************************************************************)
(* What Local Core promises about a run, whoever asks, polls or crashes    *)
(* meanwhile: each link of the chain from the provider's task to a decided *)
(* return is made once, on the link before it, and never taken back.  Only *)
(* the completion of a run may be: a late poll or answer can reopen it.    *)
(***************************************************************************)
CONSTANTS Runs, Questions, Outputs, Results, None

VARIABLES
    intent,   \* what each run was asked for; it never changes
    handed,   \* runs whose task the provider has
    bound,    \* runs known to be handed over
    heard,    \* answers the provider has
    told,     \* questions shown to the user as answered
    files,    \* what the agent submitted
    result,   \* the archived outcome
    verdict,  \* of each output: none, pending_review, adopted or rejected
    done      \* completed runs

link == <<handed, bound, heard, told, files, result, verdict, done>>

Init ==
    /\ handed = {} /\ bound = {} /\ done = {}
    /\ heard = [r \in Runs |-> {}] /\ told = [r \in Runs |-> {}]
    /\ files = [r \in Runs |-> {}]
    /\ result = [r \in Runs |-> None]
    /\ verdict = [r \in Runs |-> [o \in Outputs |-> "none"]]

HandOver(r) ==
    /\ handed' = handed \cup {r}
    /\ UNCHANGED <<bound, heard, told, files, result, verdict, done>>

Bind(r) ==
    /\ r \in handed
    /\ bound' = bound \cup {r}
    /\ UNCHANGED <<handed, heard, told, files, result, verdict, done>>

Hear(r, q) ==
    /\ r \in handed
    /\ heard' = [heard EXCEPT ![r] = @ \cup {q}]
    /\ UNCHANGED <<handed, bound, told, files, result, verdict, done>>

\* The agent goes on with the answer: the run is under way again.
Tell(r, q) ==
    /\ r \in bound /\ q \in heard[r]
    /\ told' = [told EXCEPT ![r] = @ \cup {q}]
    /\ done' = done \ {r}
    /\ UNCHANGED <<handed, bound, heard, files, result, verdict>>

\* What is under review does not change any more.
Submit(r, fs) ==
    /\ r \in handed /\ result[r] # "review"
    /\ files' = [files EXCEPT ![r] = fs]
    /\ UNCHANGED <<handed, bound, heard, told, result, verdict, done>>

Archive(r, s) ==
    /\ r \in bound /\ result[r] = None
    /\ result' = [result EXCEPT ![r] = s]
    /\ UNCHANGED <<handed, bound, heard, told, files, verdict, done>>

Propose(r, o) ==
    /\ result[r] = "review" /\ intent[r] # "analyze"
    /\ o \in files[r] /\ verdict[r][o] = "none"
    /\ verdict' = [verdict EXCEPT ![r][o] = "pending_review"]
    /\ UNCHANGED <<handed, bound, heard, told, files, result, done>>

Decide(r, o, d) ==
    /\ verdict[r][o] = "pending_review"
    /\ verdict' = [verdict EXCEPT ![r][o] = d]
    /\ done' = done \cup {r}
    /\ UNCHANGED <<handed, bound, heard, told, files, result>>

Conclude(r) ==
    /\ result[r] = "review" /\ intent[r] = "analyze"
    /\ done' = done \cup {r}
    /\ UNCHANGED <<handed, bound, heard, told, files, result, verdict>>

Reopen(r) ==
    /\ r \in bound
    /\ done' = done \ {r}
    /\ UNCHANGED <<handed, bound, heard, told, files, result, verdict>>

Next ==
    /\ UNCHANGED intent
    /\ \E r \in Runs :
          \/ HandOver(r) \/ Bind(r) \/ Conclude(r) \/ Reopen(r)
          \/ \E q \in Questions : Hear(r, q) \/ Tell(r, q)
          \/ \E fs \in SUBSET Outputs : Submit(r, fs)
          \/ \E s \in Results : Archive(r, s)
          \/ \E o \in Outputs :
                Propose(r, o) \/ \E d \in {"adopted", "rejected"} : Decide(r, o, d)

Spec == Init /\ [][Next]_<<intent, link>>

=================================================================================
