--------------------------- MODULE RunPromiseProofs ---------------------------
(***************************************************************************)
(* What follows from RunPromise alone, for whatever implements it: a link  *)
(* of the chain stands on the links before it, and none is taken back.     *)
(* RunLifecycleProofs shows that Local Core implements it, so these hold   *)
(* of the runs, the bindings, the evidence and the returns in its tables.  *)
(***************************************************************************)
EXTENDS RunPromise, TLAPS

Decided == {"adopted", "rejected"}

\* The maps are maps over the runs.
Maps ==
    /\ heard \in [Runs -> SUBSET Questions] /\ told \in [Runs -> SUBSET Questions]
    /\ files \in [Runs -> SUBSET Outputs]
    /\ result \in [Runs -> Results \cup {None}]
    /\ verdict \in [Runs -> [Outputs -> {"none", "pending_review"} \cup Decided]]

\* Each link with the one it was made on.
Chained ==
    /\ bound \subseteq handed
    /\ \A r \in Runs :
          /\ told[r] \subseteq heard[r]
          /\ told[r] # {} \/ result[r] # None => r \in bound
          /\ \A o \in Outputs : verdict[r][o] # "none" =>
                result[r] = "review" /\ o \in files[r] /\ intent[r] # "analyze"
          /\ r \in done =>
                \/ \E o \in Outputs : verdict[r][o] \in Decided
                \/ intent[r] = "analyze" /\ result[r] = "review"

\* What was heard, told, archived or decided stays.
Kept ==
    /\ handed \subseteq handed' /\ bound \subseteq bound'
    /\ \A r \in Runs :
          /\ heard[r] \subseteq heard'[r] /\ told[r] \subseteq told'[r]
          /\ result[r] # None => result'[r] = result[r]
          /\ result[r] = "review" => files'[r] = files[r]
          /\ \A o \in Outputs :
                /\ verdict[r][o] \in Decided => verdict'[r][o] = verdict[r][o]
                /\ verdict[r][o] # "none" => verdict'[r][o] # "none"

\* A verdict changes for one output of one run.
LEMMA OneVerdict ==
    ASSUME Maps, NEW r \in Runs, NEW o \in Outputs, NEW d \in {"pending_review"} \cup Decided,
           verdict' = [verdict EXCEPT ![r][o] = d]
    PROVE  /\ verdict' \in [Runs -> [Outputs -> {"none", "pending_review"} \cup Decided]]
           /\ \A s \in Runs, p \in Outputs :
                 \/ verdict'[s][p] = verdict[s][p]
                 \/ s = r /\ p = o /\ verdict'[s][p] = d
           /\ verdict'[r][o] = d
<1>1. verdict' = [verdict EXCEPT ![r] = [verdict[r] EXCEPT ![o] = d]]
  BY Zenon DEF Maps
<1> QED BY <1>1 DEF Maps

LEMMA ChainInit == ASSUME Init PROVE Maps /\ Chained
BY DEF Init, Maps, Chained

LEMMA ChainStep ==
    ASSUME None # "review", Maps, Chained, [Next]_<<intent, link>>
    PROVE  (Maps /\ Chained)' /\ Kept
<1>1. CASE UNCHANGED <<intent, link>>
  BY <1>1 DEF link, Maps, Chained, Kept
<1> SUFFICES ASSUME Next PROVE (Maps /\ Chained)' /\ Kept
  BY <1>1
<1>0. intent' = intent
  BY DEF Next
<1>2. ASSUME NEW r \in Runs, HandOver(r) \/ Bind(r) \/ Reopen(r) \/ Conclude(r)
      PROVE  (Maps /\ Chained)' /\ Kept
  <2>1. UNCHANGED <<heard, told, files, result, verdict>>
    BY <1>2 DEF HandOver, Bind, Reopen, Conclude
  <2>2. handed \subseteq handed' /\ bound \subseteq bound' /\ bound' \subseteq handed'
    BY <1>2 DEF HandOver, Bind, Reopen, Conclude, Chained
  <2>3. \A s \in Runs : s \in done' =>
          \/ s \in done
          \/ intent[s] = "analyze" /\ result[s] = "review"
    BY <1>2 DEF HandOver, Bind, Reopen, Conclude
  <2> QED BY <1>0, <2>1, <2>2, <2>3 DEF Maps, Chained, Kept
<1>3. ASSUME NEW r \in Runs, NEW q \in Questions, Hear(r, q) \/ Tell(r, q)
      PROVE  (Maps /\ Chained)' /\ Kept
  <2>1. UNCHANGED <<handed, bound, files, result, verdict>> /\ done' \subseteq done
    BY <1>3 DEF Hear, Tell
  <2>2. /\ heard' \in [Runs -> SUBSET Questions] /\ told' \in [Runs -> SUBSET Questions]
        /\ \A s \in Runs :
              /\ heard[s] \subseteq heard'[s] /\ told[s] \subseteq told'[s]
              /\ told'[s] \subseteq heard'[s]
              /\ told'[s] = told[s] \/ s \in bound
    BY <1>3 DEF Hear, Tell, Maps, Chained
  <2> QED BY <1>0, <2>1, <2>2 DEF Maps, Chained, Kept
<1>4. ASSUME NEW r \in Runs, NEW fs \in SUBSET Outputs, Submit(r, fs)
      PROVE  (Maps /\ Chained)' /\ Kept
  BY <1>0, <1>4 DEF Submit, Maps, Chained, Kept
<1>5. ASSUME NEW r \in Runs, NEW s \in Results, Archive(r, s)
      PROVE  (Maps /\ Chained)' /\ Kept
  BY <1>0, <1>5 DEF Archive, Maps, Chained, Kept
<1>6. ASSUME NEW r \in Runs, NEW o \in Outputs, Propose(r, o)
      PROVE  (Maps /\ Chained)' /\ Kept
  <2>1. /\ result[r] = "review" /\ intent[r] # "analyze" /\ o \in files[r]
        /\ verdict[r][o] = "none" /\ verdict' = [verdict EXCEPT ![r][o] = "pending_review"]
        /\ UNCHANGED <<handed, bound, heard, told, files, result, done>>
    BY <1>6 DEF Propose
  <2>2. /\ verdict' \in [Runs -> [Outputs -> {"none", "pending_review"} \cup Decided]]
        /\ \A s \in Runs, p \in Outputs :
              \/ verdict'[s][p] = verdict[s][p]
              \/ s = r /\ p = o /\ verdict'[s][p] = "pending_review"
    BY <2>1, OneVerdict
  <2> QED BY <1>0, <2>1, <2>2 DEF Maps, Chained, Kept, Decided
<1>7. ASSUME NEW r \in Runs, NEW o \in Outputs, NEW d \in Decided, Decide(r, o, d)
      PROVE  (Maps /\ Chained)' /\ Kept
  <2>1. /\ verdict[r][o] = "pending_review" /\ verdict' = [verdict EXCEPT ![r][o] = d]
        /\ done' = done \cup {r}
        /\ UNCHANGED <<handed, bound, heard, told, files, result>>
    BY <1>7 DEF Decide
  <2>2. /\ verdict' \in [Runs -> [Outputs -> {"none", "pending_review"} \cup Decided]]
        /\ \A s \in Runs, p \in Outputs :
              \/ verdict'[s][p] = verdict[s][p]
              \/ s = r /\ p = o /\ verdict'[s][p] = d
        /\ verdict'[r][o] = d
    BY <2>1, OneVerdict
  <2> QED BY <1>0, <2>1, <2>2 DEF Maps, Chained, Kept, Decided
<1> QED BY <1>2, <1>3, <1>4, <1>5, <1>6, <1>7 DEF Next, Decided

\* A completed run was decided or is an archived analysis; a verdict is of a file of an
\* archived review; an archive or an answer is of a run that was bound, and only a run
\* that was handed over is bound.
THEOREM LinksStandOnEachOther == ASSUME None # "review" PROVE Spec => []Chained
<1>1. Init => Maps /\ Chained
  BY ChainInit
<1>2. (Maps /\ Chained) /\ [Next]_<<intent, link>> => (Maps /\ Chained)'
  BY ChainStep
<1> QED BY <1>1, <1>2, PTL DEF Spec

\* Evidence, answers and decisions are final, and what is under review does not change.
THEOREM LinksAreKept == ASSUME None # "review" PROVE Spec => [][Kept]_<<intent, link>>
<1>1. Init => Maps /\ Chained
  BY ChainInit
<1>2. (Maps /\ Chained) /\ [Next]_<<intent, link>> => (Maps /\ Chained)' /\ [Kept]_<<intent, link>>
  BY ChainStep
<1> QED BY <1>1, <1>2, PTL DEF Spec

===============================================================================
