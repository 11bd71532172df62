-------------------------- MODULE RunLifecycleProofs --------------------------
(***************************************************************************)
(* The safety properties of RunLifecycle for any runs, handlers, questions *)
(* and outputs.                                                            *)
(*                                                                         *)
(* What a suspended handler was told stays true while it is suspended,     *)
(* because the rows and the Bridge only grow: a task is never forgotten, a *)
(* submitted task is never taken up again, evidence and decisions stay.    *)
(* So the proof first shows that growth and how one call moves, and then   *)
(* relates what a call remembers to the rows it will write.                *)
(***************************************************************************)
EXTENDS RunLifecycle, TLAPS

Submitted == {"review", "cancelled", "finalized"}
Bound == {"getTask", "getResult", "archive", "settle", "read",
          "answerInput", "cancelTask", "finalizeReview"}
Writing == {"getTask", "archive", "settle", "answerInput", "cancelTask"}

\* A handler past the binding guard works on a bound run, and the binding it will
\* write back is one.
CallsAreBound ==
    \A c \in Callers :
        /\ call[c].at \in Bound => binding[call[c].run] # "none"
        /\ call[c].at \in Writing => call[c].binding # "none"

\* What is archived and applied is a status that comes with a result.
RepliesFit ==
    \A c \in Callers :
        /\ At(c, "getResult") => call[c].reply \in Reported \cup {"none", "error", None}
        /\ call[c].at \in {"archive", "settle"} => call[c].reply \in Reported

\* A task that was found or created exists.
FoundTasksExist ==
    \A c \in Callers :
        /\ call[c].at \in {"createTask", "findTask"}
        /\ call[c].reply \notin {None, "error", "absent"}
        => task[call[c].run] # "absent"

\* An acknowledged answer was heard.
AcknowledgedIsHeard ==
    \A c \in Callers : At(c, "answerInput") =>
        /\ call[c].arg \in Questions
        /\ Got(c) => call[c].arg \in heard[call[c].run]

\* A review result comes from a submitted task, and is archived before it is applied.
ReviewIsArchived ==
    /\ \A r \in Runs : evidence[r] = "review" => task[r] \in Submitted
    /\ \A c \in Callers :
         LET r == call[c].run IN
         /\ call[c].at \in {"getResult", "archive"} /\ call[c].reply = "review"
              => task[r] \in Submitted
         /\ At(c, "settle") /\ call[c].reply = "review" => evidence[r] = "review"
         /\ At(c, "read") => evidence[r] = "review" /\ intent[r] # "analyze"

\* A completion that a handler saw when it started has been announced, or is excepted.
SeenIsAnnounced ==
    \A c \in Callers : call[c].at # "idle" /\ "completed" \in call[c].before =>
        "completed" \in events[call[c].run] \/ call[c].run \in unannounced

-----------------------------------------------------------------------------
(* Calls *)

\* What a call remembers, field by field.
LEMMA Calls ==
    ASSUME TypeOK, NEW c \in Callers, call[c].at # "idle"
    PROVE  /\ call[c] \in Call
           /\ call[c].at \in Remote \cup {"materialize", "archive", "settle", "read"}
           /\ call[c].run \in Runs /\ call[c].before \in SUBSET Tracked
           /\ call[c].binding \in Binding /\ call[c].cancelled \in BOOLEAN
           /\ call[c].arg \in Questions \cup {None}
           /\ call[c].reply \in TaskStatus \cup {"ok", "none", "error", None}
BY DEF TypeOK, Call, Idle

\* A handler that starts remembers the run and the review it read.
Began(c) ==
    /\ call'[c].at \in {"materialize", "findTask", "getTask", "answerInput", "cancelTask",
                        "finalizeReview"}
    /\ call'[c].run \in Runs /\ call'[c].reply = None
    /\ run[call'[c].run] # "absent"
    /\ call'[c].before = Phase(run[call'[c].run], ret[call'[c].run])
    /\ call'[c].at \in Bound =>
         call'[c].binding # "none" /\ binding[call'[c].run] # "none"
    /\ At(c, "answerInput")' => call'[c].arg \in Questions

LEMMA Begins ==
    ASSUME TypeOK, NEW c, NEW r \in Runs, NEW at \in Remote \cup {"materialize"},
           NEW b \in Binding, NEW arg \in Questions \cup {None}, Begin(c, r, at, b, arg)
    PROVE  /\ call' \in [Callers -> Call \cup {Idle}]
           /\ \A d \in Callers : d # c => call'[d] = call[d]
           /\ c \in Callers =>
                /\ call'[c].at = at /\ call'[c].run = r /\ call'[c].reply = None
                /\ call'[c].before = Phase(run[r], ret[r])
                /\ call'[c].binding = b /\ call'[c].arg = arg
           /\ run[r] # "absent" /\ UNCHANGED <<rows, faults, bridge>>
<1> DEFINE begun == [at |-> at, run |-> r, before |-> Phase(run[r], ret[r]), binding |-> b,
                     cancelled |-> FALSE, arg |-> arg, reply |-> None]
<1>1. begun \in Call
  BY DEF Call, Phase
<1>2. call' = [call EXCEPT ![c] = begun]
  BY DEF Begin
<1>3. run[r] # "absent" /\ UNCHANGED <<rows, faults, bridge>>
  BY DEF Begin
<1> HIDE DEF begun
<1>4. /\ call' \in [Callers -> Call \cup {Idle}]
      /\ \A d \in Callers : d # c => call'[d] = call[d]
      /\ c \in Callers => call'[c] = begun
  BY <1>1, <1>2 DEF TypeOK
<1> QED BY <1>3, <1>4 DEF begun

\* What a request, or the auto-sync loop, does.
LEMMA Starts ==
    ASSUME TypeOK, NEW c, NEW r \in Runs, Request(c, r) \/ Sync(c, r)
    PROVE  /\ call' \in [Callers -> Call \cup {Idle}]
           /\ \A d \in Callers : d # c => call'[d] = call[d]
           /\ c \in Callers => Began(c)
           /\ UNCHANGED <<rows, faults, bridge>>
<1> USE DEF Bound, At
<1>0. binding[r] \in Binding
  BY DEF TypeOK
<1>1. CASE Dispatch(c, r)
  <2>1. Begin(c, r, "materialize", "none", None)
    BY <1>1 DEF Dispatch
  <2>2. "materialize" \in Remote \cup {"materialize"} /\ "none" \in Binding /\ None \in Questions \cup {None}
    BY <1>0 DEF Remote, Binding
  <2>3. /\ call' \in [Callers -> Call \cup {Idle}]
        /\ \A d \in Callers : d # c => call'[d] = call[d]
        /\ run[r] # "absent" /\ UNCHANGED <<rows, faults, bridge>>
    BY <2>1, <2>2, Begins
  <2>4. ASSUME c \in Callers
        PROVE  /\ call'[c].at = "materialize" /\ call'[c].run = r /\ call'[c].reply = None
               /\ call'[c].before = Phase(run[r], ret[r])
               /\ call'[c].binding = "none" /\ call'[c].arg = None
    BY <2>1, <2>2, <2>4, Begins
  <2> QED BY <1>1, <2>3, <2>4 DEF Dispatch, Began
<1>2. CASE Recover(c, r)
  <2>1. Begin(c, r, "findTask", "none", None)
    BY <1>2 DEF Recover
  <2>2. "findTask" \in Remote \cup {"materialize"} /\ "none" \in Binding /\ None \in Questions \cup {None}
    BY <1>0 DEF Remote, Binding
  <2>3. /\ call' \in [Callers -> Call \cup {Idle}]
        /\ \A d \in Callers : d # c => call'[d] = call[d]
        /\ run[r] # "absent" /\ UNCHANGED <<rows, faults, bridge>>
    BY <2>1, <2>2, Begins
  <2>4. ASSUME c \in Callers
        PROVE  /\ call'[c].at = "findTask" /\ call'[c].run = r /\ call'[c].reply = None
               /\ call'[c].before = Phase(run[r], ret[r])
               /\ call'[c].binding = "none" /\ call'[c].arg = None
    BY <2>1, <2>2, <2>4, Begins
  <2> QED BY <1>2, <2>3, <2>4 DEF Recover, Began
<1>3. CASE Cancel(c, r)
  <2>1. Begin(c, r, "cancelTask", binding[r], None)
    BY <1>3 DEF Cancel
  <2>2. "cancelTask" \in Remote \cup {"materialize"} /\ binding[r] \in Binding /\ None \in Questions \cup {None}
    BY <1>0 DEF Remote, Binding
  <2>3. /\ call' \in [Callers -> Call \cup {Idle}]
        /\ \A d \in Callers : d # c => call'[d] = call[d]
        /\ run[r] # "absent" /\ UNCHANGED <<rows, faults, bridge>>
    BY <2>1, <2>2, Begins
  <2>4. ASSUME c \in Callers
        PROVE  /\ call'[c].at = "cancelTask" /\ call'[c].run = r /\ call'[c].reply = None
               /\ call'[c].before = Phase(run[r], ret[r])
               /\ call'[c].binding = binding[r] /\ call'[c].arg = None
    BY <2>1, <2>2, <2>4, Begins
  <2> QED BY <1>3, <2>3, <2>4 DEF Cancel, Began
<1>4. CASE Sync(c, r)
  <2>1. Begin(c, r, "getTask", binding[r], None)
    BY <1>4 DEF Sync
  <2>2. "getTask" \in Remote \cup {"materialize"} /\ binding[r] \in Binding /\ None \in Questions \cup {None}
    BY <1>0 DEF Remote, Binding
  <2>3. /\ call' \in [Callers -> Call \cup {Idle}]
        /\ \A d \in Callers : d # c => call'[d] = call[d]
        /\ run[r] # "absent" /\ UNCHANGED <<rows, faults, bridge>>
    BY <2>1, <2>2, Begins
  <2>4. ASSUME c \in Callers
        PROVE  /\ call'[c].at = "getTask" /\ call'[c].run = r /\ call'[c].reply = None
               /\ call'[c].before = Phase(run[r], ret[r])
               /\ call'[c].binding = binding[r] /\ call'[c].arg = None
    BY <2>1, <2>2, <2>4, Begins
  <2> QED BY <1>4, <2>3, <2>4 DEF Sync, Began
<1>5. CASE \E q \in Questions : AnswerInput(c, r, q)
  <2>0. PICK q \in Questions : AnswerInput(c, r, q)
    BY <1>5
  <2>1. Begin(c, r, "answerInput", binding[r], q)
    BY <1>5, <2>0 DEF AnswerInput
  <2>2. "answerInput" \in Remote \cup {"materialize"} /\ binding[r] \in Binding /\ q \in Questions \cup {None}
    BY <1>0 DEF Remote, Binding
  <2>3. /\ call' \in [Callers -> Call \cup {Idle}]
        /\ \A d \in Callers : d # c => call'[d] = call[d]
        /\ run[r] # "absent" /\ UNCHANGED <<rows, faults, bridge>>
    BY <2>1, <2>2, Begins
  <2>4. ASSUME c \in Callers
        PROVE  /\ call'[c].at = "answerInput" /\ call'[c].run = r /\ call'[c].reply = None
               /\ call'[c].before = Phase(run[r], ret[r])
               /\ call'[c].binding = binding[r] /\ call'[c].arg = q
    BY <2>1, <2>2, <2>4, Begins
  <2> QED BY <1>5, <2>3, <2>4, <2>0 DEF AnswerInput, Began
<1>6. CASE Finalize(c, r)
  <2>1. Begin(c, r, "finalizeReview", binding[r], None)
    BY <1>6 DEF Finalize
  <2>2. "finalizeReview" \in Remote \cup {"materialize"} /\ binding[r] \in Binding /\ None \in Questions \cup {None}
    BY <1>0 DEF Remote, Binding
  <2>3. /\ call' \in [Callers -> Call \cup {Idle}]
        /\ \A d \in Callers : d # c => call'[d] = call[d]
        /\ run[r] # "absent" /\ UNCHANGED <<rows, faults, bridge>>
    BY <2>1, <2>2, Begins
  <2>4. ASSUME c \in Callers
        PROVE  /\ call'[c].at = "finalizeReview" /\ call'[c].run = r /\ call'[c].reply = None
               /\ call'[c].before = Phase(run[r], ret[r])
               /\ call'[c].binding = binding[r] /\ call'[c].arg = None
    BY <2>1, <2>2, <2>4, Begins
  <2> QED BY <1>6, <2>3, <2>4 DEF Finalize, Began
<1> QED BY <1>1, <1>2, <1>3, <1>4, <1>5, <1>6 DEF Request

\* What the serving of a request leaves in the call.
LEMMA Serves ==
    ASSUME TypeOK, AcknowledgedIsHeard, NEW c \in Callers, BridgeServes(c)
    PROVE  /\ call[c].at # "idle"
           /\ call' \in [Callers -> Call \cup {Idle}]
           /\ \A d \in Callers : d # c => call'[d] = call[d]
           /\ call'[c].at = call[c].at /\ call'[c].run = call[c].run
           /\ call'[c].before = call[c].before /\ call'[c].binding = call[c].binding
           /\ call'[c].cancelled = call[c].cancelled
           /\ call[c].at # "getResult" => call'[c].arg = call[c].arg
           /\ task' \in [Runs -> TaskStatus] /\ asked' \in [Runs -> Questions \cup {None}]
           /\ heard' \in [Runs -> SUBSET Questions] /\ files' = files
           /\ UNCHANGED <<rows, queue, faults>>
<1> USE DEF At, bridge
<1>0. call[c].at # "idle"
  BY DEF BridgeServes, ServeCreate, ServeRead, ServeAnswer, ServeCancel, ServeFinalize
<1>1. /\ call[c] \in Call /\ call[c].run \in Runs /\ call[c].arg \in Questions \cup {None}
      /\ task[call[c].run] \in TaskStatus /\ asked[call[c].run] \in Questions \cup {None}
  BY <1>0, Calls DEF TypeOK
<1>2. \A v \in TaskStatus \cup {"ok", "none", "error"}, a \in Questions \cup {None} :
        /\ [call[c] EXCEPT !.reply = v] \in Call
        /\ [call[c] EXCEPT !.reply = v, !.arg = a] \in Call
  BY <1>1 DEF Call
<1> DEFINE Told(a) ==
           /\ call' \in [Callers -> Call \cup {Idle}]
           /\ \A d \in Callers : d # c => call'[d] = call[d]
           /\ call'[c].at = call[c].at /\ call'[c].run = call[c].run
           /\ call'[c].before = call[c].before /\ call'[c].binding = call[c].binding
           /\ call'[c].cancelled = call[c].cancelled
           /\ call'[c].arg = a
<1>3. ASSUME NEW v \in TaskStatus \cup {"ok", "none", "error"}, Reply(c, v)
      PROVE  Told(call[c].arg)
  BY <1>1, <1>2, <1>3 DEF Reply, TypeOK, Call
<1>4. UNCHANGED <<rows, queue, faults>>
  BY DEF BridgeServes
<1>5. CASE ServeCreate(c)
  <2>1. PICK v \in TaskStatus : Reply(c, v) /\ task' = [task EXCEPT ![call[c].run] = v]
    <3>1. CASE task[call[c].run] = "absent"
      BY <1>5, <3>1 DEF ServeCreate, TaskStatus
    <3>2. CASE task[call[c].run] # "absent"
      BY <1>1, <1>5, <3>2 DEF ServeCreate
    <3> QED BY <3>1, <3>2
  <2>2. Told(call[c].arg)
    <3> HIDE DEF Told
    <3> QED BY <1>3, <2>1
  <2>4. task' \in [Runs -> TaskStatus]
    BY <2>1 DEF TypeOK
  <2>3. UNCHANGED <<asked, heard, files>>
    BY <1>5 DEF ServeCreate
  <2> QED BY <1>0, <1>4, <2>2, <2>3, <2>4 DEF TypeOK
<1>6. CASE ServeRead(c)
  <2>1. UNCHANGED bridge
    BY <1>6 DEF ServeRead
  <2>2. \/ \E v \in TaskStatus \cup {"ok", "none", "error"} : Reply(c, v)
        \/ /\ At(c, "getResult")
           /\ call' = [call EXCEPT ![c].reply = task[call[c].run],
                                   ![c].arg = asked[call[c].run]]
    <3> HIDE DEF At
    <3> QED BY <1>1, <1>6 DEF ServeRead
  <2>3. CASE \E v \in TaskStatus \cup {"ok", "none", "error"} : Reply(c, v)
    BY <1>0, <1>3, <1>4, <2>1, <2>3 DEF TypeOK
  <2>4. CASE /\ At(c, "getResult")
             /\ call' = [call EXCEPT ![c].reply = task[call[c].run],
                                     ![c].arg = asked[call[c].run]]
    <3>1. call' = [call EXCEPT ![c] = [call[c] EXCEPT !.reply = task[call[c].run],
                                                      !.arg = asked[call[c].run]]]
      BY <2>4, Zenon DEF TypeOK
    <3>2. Told(asked[call[c].run])
      <4> DEFINE answer == [call[c] EXCEPT !.reply = task[call[c].run],
                                         !.arg = asked[call[c].run]]
      <4>1. answer \in Call
        BY <1>1, <1>2
      <4>2. /\ answer.at = call[c].at /\ answer.run = call[c].run
            /\ answer.before = call[c].before /\ answer.binding = call[c].binding
            /\ answer.cancelled = call[c].cancelled /\ answer.arg = asked[call[c].run]
        BY <1>1 DEF Call
      <4>3. call' = [call EXCEPT ![c] = answer]
        BY <3>1
      <4> HIDE DEF answer
      <4> QED BY <4>1, <4>2, <4>3 DEF TypeOK
    <3> QED BY <1>0, <1>4, <2>1, <2>4, <3>2 DEF TypeOK
  <2> QED BY <2>2, <2>3, <2>4
<1>7. CASE ServeAnswer(c)
  <2>1. \E v \in {"ok", "error"} : Reply(c, v)
    BY <1>7 DEF ServeAnswer
  <2>2. /\ task' \in [Runs -> TaskStatus] /\ asked' \in [Runs -> Questions \cup {None}]
        /\ files' = files
    BY <1>7 DEF ServeAnswer, TypeOK, TaskStatus
  <2>3. heard' \in [Runs -> SUBSET Questions]
    <3>1. call[c].arg \in Questions
      BY <1>7 DEF ServeAnswer, AcknowledgedIsHeard
    <3> QED BY <1>7, <3>1 DEF ServeAnswer, TypeOK
  <2> QED BY <1>0, <1>3, <1>4, <2>1, <2>2, <2>3
<1>8. CASE ServeCancel(c)
  <2>1. \E v \in {"ok", "error"} : Reply(c, v)
    BY <1>8 DEF ServeCancel
  <2>2. task' \in [Runs -> TaskStatus] /\ asked' \in [Runs -> Questions \cup {None}]
    BY <1>8 DEF ServeCancel, TypeOK, TaskStatus
  <2>3. UNCHANGED <<heard, files>>
    BY <1>8 DEF ServeCancel
  <2> QED BY <1>0, <1>3, <1>4, <2>1, <2>2, <2>3 DEF TypeOK
<1>9. CASE ServeFinalize(c)
  <2>1. \E v \in {"ok", "error"} : Reply(c, v)
    BY <1>9 DEF ServeFinalize
  <2>2. task' \in [Runs -> TaskStatus]
    <3>1. task' = task \/ task' = [task EXCEPT ![call[c].run] = "finalized"]
      BY <1>9 DEF ServeFinalize
    <3> QED BY <3>1 DEF TypeOK, TaskStatus
  <2>3. UNCHANGED <<asked, heard, files>>
    BY <1>9 DEF ServeFinalize
  <2> QED BY <1>0, <1>3, <1>4, <2>1, <2>2, <2>3 DEF TypeOK
<1> QED BY <1>5, <1>6, <1>7, <1>8, <1>9 DEF BridgeServes

\* A result is a provider status, or absent.
LEMMA ServesResult ==
    ASSUME TypeOK, NEW c \in Callers, BridgeServes(c), At(c, "getResult")
    PROVE  call'[c].reply \in Reported \cup {"none"}
<1>1. call[c] \in Call /\ call[c].run \in Runs
  BY Calls DEF At
<1>2. ServeRead(c)
  BY DEF BridgeServes, ServeCreate, ServeRead, ServeAnswer, ServeCancel, ServeFinalize, At
<1>3. CASE task[call[c].run] \in Reported
  <2>1. call' = [call EXCEPT ![c].reply = task[call[c].run], ![c].arg = asked[call[c].run]]
    BY <1>2, <1>3 DEF ServeRead, At
  <2>2. call' = [call EXCEPT ![c] = [call[c] EXCEPT !.reply = task[call[c].run],
                                                    !.arg = asked[call[c].run]]]
    BY <2>1, Zenon DEF TypeOK
  <2> QED BY <1>1, <1>3, <2>2 DEF TypeOK, Call
<1>4. CASE task[call[c].run] \notin Reported
  <2>1. Reply(c, "none")
    BY <1>2, <1>4 DEF ServeRead, At
  <2> QED BY <1>1, <2>1 DEF Reply, TypeOK, Call
<1> QED BY <1>3, <1>4

\* How the other handlers' steps move a call: it ends, goes on, is answered or cut off.
Others(c) == \A d \in Callers : d # c => call'[d] = call[d]
Kept(c) ==
    /\ call[c].at # "idle"
    /\ call'[c].run = call[c].run /\ call'[c].before = call[c].before
Moved(c) ==
    /\ Kept(c)
    /\ \/ call[c].at \in {"materialize", "findTask"}
          /\ call'[c].at = "createTask" /\ call'[c].reply = None
       \/ call[c].at = "getTask" /\ call'[c].at = "getResult" /\ call'[c].reply = None
       \/ /\ call[c].at = "getResult" /\ call'[c].at = "archive"
          /\ call[c].reply \notin {None, "error", "none"}
          /\ call'[c].reply = call[c].reply /\ call'[c].binding = binding[call[c].run]
       \/ /\ call[c].at = "archive" /\ call'[c].at = "settle"
          /\ call'[c].reply = call[c].reply /\ call'[c].binding = call[c].binding
          /\ call[c].reply = "review" => evidence'[call[c].run] = "review"
       \/ /\ call[c].at = "settle" /\ call'[c].at = "read"
          /\ call[c].reply = "review" /\ intent[call[c].run] # "analyze"
          /\ ~call'[c].cancelled
Served(c) ==
    /\ Kept(c) /\ BridgeServes(c)
    /\ call'[c].at = call[c].at /\ call'[c].binding = call[c].binding
    /\ call[c].at # "getResult" => call'[c].arg = call[c].arg
    /\ At(c, "getResult") => call'[c].reply \in Reported \cup {"none"}
Cut(c) ==
    /\ Kept(c) /\ call[c].at \in Remote /\ call'[c].reply = "error"
    /\ call'[c].at = call[c].at /\ call'[c].binding = call[c].binding
    /\ call'[c].arg = call[c].arg

CallsTyped == call' \in [Callers -> Call \cup {Idle}]

LEMMA Ends ==
    ASSUME TypeOK, NEW c \in Callers, Return(c)
    PROVE  CallsTyped /\ Others(c) /\ call'[c] = Idle
BY DEF TypeOK, Return, CallsTyped, Others

LEMMA Awaits ==
    ASSUME TypeOK, NEW c \in Callers, call[c].at # "idle", NEW at \in Remote, Await(c, at)
    PROVE  /\ CallsTyped /\ Others(c) /\ Kept(c)
           /\ call'[c].at = at /\ call'[c].reply = None
<1> DEFINE waiting == [call[c] EXCEPT !.at = at, !.reply = None, !.binding = "none"]
<1>1. call[c] \in Call
  BY Calls
<1>2. waiting \in Call
  BY <1>1 DEF Call, Binding
<1>3. /\ waiting.at = at /\ waiting.reply = None
      /\ waiting.run = call[c].run /\ waiting.before = call[c].before
  BY <1>1 DEF Call
<1>4. call' = [call EXCEPT ![c] = waiting]
  BY Zenon DEF Await, TypeOK
<1> HIDE DEF waiting
<1> QED BY <1>2, <1>3, <1>4 DEF TypeOK, CallsTyped, Others, Kept

\* How a handler goes on.
LEMMA Resumes ==
    ASSUME TypeOK, NEW c \in Callers, Resume(c)
    PROVE  /\ call[c].at # "idle" /\ CallsTyped /\ Others(c)
           /\ call'[c] \in {Idle, call[c]} \/ Moved(c)
           /\ UNCHANGED <<intent, queue, faults, bridge>>
<1> USE DEF At
<1>1. ASSUME call[c].at # "idle", Return(c), UNCHANGED <<intent, queue, faults, bridge>>
      PROVE  /\ call[c].at # "idle" /\ CallsTyped /\ Others(c)
             /\ call'[c] \in {Idle, call[c]} \/ Moved(c)
             /\ UNCHANGED <<intent, queue, faults, bridge>>
  BY <1>1, Ends
<1>2. CASE Materialized(c)
  BY <1>2, Awaits DEF Materialized, Remote, Moved
<1>3. CASE NotFound(c)
  BY <1>3, Awaits DEF NotFound, Remote, Moved, rows
<1>4. CASE Bind(c) \/ DispatchFails(c) \/ NoResult(c) \/ EvidenceConflict(c)
  BY <1>1, <1>4 DEF Bind, DispatchFails, NoResult, EvidenceConflict, rows
<1>5. CASE TaskPolled(c)
  BY <1>5, Awaits DEF TaskPolled, Remote, Moved
<1>6. CASE ResultPolled(c)
  <2> DEFINE next == [call[c] EXCEPT !.at = "archive", !.binding = binding[call[c].run],
                                     !.cancelled = (run[call[c].run] = "cancelled")]
  <2>1. call[c] \in Call /\ binding[call[c].run] \in Binding /\ call[c].at = "getResult"
    BY <1>6, Calls DEF ResultPolled, TypeOK
  <2>2. next \in Call
    BY <2>1 DEF Call
  <2>3. /\ next.at = "archive" /\ next.reply = call[c].reply
        /\ next.binding = binding[call[c].run]
        /\ next.run = call[c].run /\ next.before = call[c].before
    BY <2>1 DEF Call
  <2>4. call' = [call EXCEPT ![c] = next]
    BY <1>6, Zenon DEF ResultPolled, TypeOK
  <2>5. /\ call[c].reply \notin {None, "error", "none"}
        /\ UNCHANGED <<intent, queue, faults, bridge>>
    BY <1>6 DEF ResultPolled, Got, rows
  <2> HIDE DEF next
  <2> QED BY <2>1, <2>2, <2>3, <2>4, <2>5 DEF TypeOK, CallsTyped, Others, Moved, Kept
<1>7. CASE ArchiveEvidence(c)
  <2> DEFINE next == [call[c] EXCEPT !.at = "settle"]
  <2>1. call[c] \in Call /\ call[c].run \in Runs /\ call[c].at = "archive"
    BY <1>7, Calls DEF ArchiveEvidence
  <2>2. /\ next \in Call /\ next.at = "settle" /\ next.reply = call[c].reply
        /\ next.binding = call[c].binding
        /\ next.run = call[c].run /\ next.before = call[c].before
    BY <2>1 DEF Call
  <2>3. call' = [call EXCEPT ![c] = next]
    BY <1>7, Zenon DEF ArchiveEvidence, TypeOK
  <2>4. UNCHANGED <<intent, queue, faults, bridge>>
    BY <1>7 DEF ArchiveEvidence
  <2>5. call[c].reply = "review" => evidence'[call[c].run] = "review"
    BY <1>7, <2>1 DEF ArchiveEvidence, TypeOK
  <2> HIDE DEF next
  <2> QED BY <2>1, <2>2, <2>3, <2>4, <2>5 DEF TypeOK, CallsTyped, Others, Moved, Kept
<1>8. CASE \/ Quarantine(c) \/ SaveRunInputRequest(c) \/ ProviderFailed(c)
           \/ ContractUnsupported(c) \/ AnalysisCompleted(c)
  BY <1>1, <1>8 DEF Quarantine, SaveRunInputRequest, ProviderFailed, ContractUnsupported,
     AnalysisCompleted, Settles
<1>9. CASE ReadOutputs(c)
  <2> DEFINE next == [call[c] EXCEPT !.at = "read", !.binding = "none"]
  <2>1. /\ call[c] \in Call /\ call[c].run \in Runs /\ call[c].at = "settle"
        /\ call[c].reply = "review" /\ intent[call[c].run] # "analyze" /\ ~call[c].cancelled
    BY <1>9, Calls DEF ReadOutputs, Settles
  <2>2. /\ next \in Call /\ next.at = "read"
        /\ next.run = call[c].run /\ next.before = call[c].before
        /\ next.cancelled = call[c].cancelled
    BY <2>1 DEF Call, Binding
  <2>3. call' = [call EXCEPT ![c] = next]
    BY <1>9, Zenon DEF ReadOutputs, TypeOK
  <2>4. UNCHANGED <<intent, queue, faults, bridge>>
    BY <1>9 DEF ReadOutputs, Settles
  <2> HIDE DEF next
  <2> QED BY <2>1, <2>2, <2>3, <2>4 DEF TypeOK, CallsTyped, Others, Moved, Kept
<1>10. CASE \E o \in Outputs : CreateReturn(c, o)
  <2>1. call[c].at # "idle" /\ UNCHANGED <<intent, queue, faults, bridge>>
    BY <1>10 DEF CreateReturn, Collect
  <2>2. Return(c) \/ UNCHANGED call
    BY <1>10 DEF CreateReturn
  <2> QED BY <1>1, <2>1, <2>2 DEF TypeOK, CallsTyped, Others
<1>11. CASE Replayed(c) \/ Answered(c) \/ Cancelled(c) \/ Finalized(c)
  BY <1>1, <1>11 DEF Replayed, Answered, Cancelled, Finalized
<1>12. CASE Fails(c)
  <2>1. Return(c) /\ UNCHANGED <<intent, queue, faults, bridge>>
    BY <1>12 DEF Fails, rows
  <2>2. call[c].at # "idle"
    <3>1. Idle.at = "idle" /\ Idle.reply = None /\ None # "error"
      BY LifecycleAssumption DEF Idle
    <3>2. call[c] # Idle
      BY <1>12, <3>1 DEF Fails
    <3>3. call[c] \in Call
      BY <3>2 DEF TypeOK
    <3> QED BY <3>3 DEF Call, Remote
  <2> QED BY <1>1, <2>1, <2>2
<1> QED BY <1>2, <1>3, <1>4, <1>5, <1>6, <1>7, <1>8, <1>9, <1>10, <1>11, <1>12 DEF Resume

\* Each step moves each call in one of these ways.
LEMMA CallStep ==
    ASSUME TypeOK, AcknowledgedIsHeard, [Next]_vars
    PROVE  /\ CallsTyped
           /\ \A d \in Callers : \/ call'[d] \in {call[d], Idle} \/ Began(d)
                                 \/ Moved(d) \/ Served(d) \/ Cut(d)
<1> DEFINE Goal == /\ CallsTyped
                   /\ \A d \in Callers : \/ call'[d] \in {call[d], Idle} \/ Began(d)
                                         \/ Moved(d) \/ Served(d) \/ Cut(d)
<1>1. ASSUME UNCHANGED call PROVE Goal
  BY <1>1 DEF TypeOK, CallsTyped
<1>2. ASSUME ForgetCalls PROVE Goal
  BY <1>2 DEF ForgetCalls, CallsTyped
<1>3. ASSUME NEW c, NEW r \in Runs, Request(c, r) \/ Sync(c, r) PROVE Goal
  BY <1>3, Starts DEF CallsTyped
<1>4. ASSUME NEW c \in Callers, Resume(c) PROVE Goal
  BY <1>4, Resumes DEF Others
<1>5. ASSUME NEW c \in Callers, BridgeServes(c) PROVE Goal
  BY <1>5, Serves, ServesResult DEF CallsTyped, Served, Kept
<1>6. ASSUME NEW c \in Callers, BridgeFails(c) PROVE Goal
  <2> DEFINE next == [call[c] EXCEPT !.reply = "error"]
  <2>1. call[c].at \in Remote /\ call[c].at # "idle" /\ call[c] \in Call
    BY <1>6, Calls DEF BridgeFails, Remote
  <2>2. /\ next \in Call /\ next.at = call[c].at /\ next.reply = "error"
        /\ next.run = call[c].run /\ next.before = call[c].before
        /\ next.binding = call[c].binding /\ next.arg = call[c].arg
    BY <2>1 DEF Call
  <2>3. call' = [call EXCEPT ![c] = next]
    BY <1>6, Zenon DEF BridgeFails, Reply, TypeOK
  <2> HIDE DEF next
  <2> QED BY <2>1, <2>2, <2>3 DEF TypeOK, CallsTyped, Cut, Kept
<1> HIDE DEF Goal
<1>7. ASSUME NEW r \in Runs, CreateRunWithDispatch(r) \/ CancelUnbound(r) \/ AutoSync(r)
      PROVE  Goal
  BY <1>1, <1>3, <1>7 DEF CreateRunWithDispatch, CancelUnbound, AutoSync
<1>8. ASSUME NEW r \in Runs, NEW o \in Outputs, Review(r, o) PROVE Goal
  BY <1>1, <1>8 DEF Review, Accept, Reject, Decide, Retry
<1>9. ASSUME AutoTick \/ AgentStep PROVE Goal
  BY <1>1, <1>9 DEF AutoTick, AgentStep
<1>10. ASSUME NEW c, NEW r, NEW o, NEW d,
              CrashWithin(c) \/ CrashWhileAbandoning(r) \/ CrashWhileDeciding(r, o, d)
       PROVE  Goal
  BY <1>2, <1>10 DEF CrashWithin, CrashWhileAbandoning, CrashWhileDeciding
<1>11. ASSUME Crash PROVE Goal
  BY <1>2, <1>11 DEF Crash
<1>12. ASSUME UNCHANGED vars PROVE Goal
  BY <1>1, <1>12 DEF vars
<1>13. \A c \in Clients : c \in Callers
  BY DEF Clients
<1>14. Goal
  BY <1>3, <1>4, <1>5, <1>6, <1>7, <1>8, <1>9, <1>10, <1>11, <1>12, <1>13 DEF Next
<1> QED BY <1>14 DEF Goal

-----------------------------------------------------------------------------
(* Types *)

\* A handler that goes on, to its next await or to a crash.
Acts(c) == Resume(c) \/ CrashWithin(c)

\* What it may write, table by table.
RunWrite(c) ==
    LET r == call[c].run IN
    \/ UNCHANGED run
    \/ \E s \in RunStatus \ {"absent", "completed"} : SetRun(r, s)
    \/ At(c, "settle") /\ Analysed(c) /\ (Emit(c, r) \/ CompletesQuietly)
BindingWrite(c) ==
    LET r == call[c].run IN
    \/ UNCHANGED binding
    \/ call[c].at \in Writing /\ SetBinding(r, call[c].binding)
    \/ /\ SetBinding(r, "clear")
       /\ \/ At(c, "finalizeReview")
          \/ (At(c, "createTask") \/ At(c, "findTask")) /\ Got(c) /\ call[c].reply # "absent"
DispatchWrite(c) ==
    LET r == call[c].run IN
    \/ UNCHANGED dispatch
    \/ \E s \in {"dispatching", "recovery_required"} : dispatch' = [dispatch EXCEPT ![r] = s]
    \/ dispatch' = [dispatch EXCEPT ![r] = "bound"] /\ SetBinding(r, "clear")
QuestionWrite(c) ==
    LET r == call[c].run IN
    \/ UNCHANGED question
    \/ Ask(r, call[c].arg)
    \/ Answered(c)
EvidenceWrite(c) ==
    LET r == call[c].run IN
    \/ UNCHANGED evidence
    \/ /\ At(c, "archive") /\ call[c].reply # "waiting_input"
       /\ evidence[r] \in {None, call[c].reply}
       /\ evidence' = [evidence EXCEPT ![r] = call[c].reply]
ReturnWrite(c) ==
    LET r == call[c].run IN
    \/ UNCHANGED ret
    \/ \E o \in files[r] : /\ At(c, "read") /\ o \in Outputs /\ ret[r][o] = "none"
                           /\ ret' = [ret EXCEPT ![r][o] = "pending_review"]
EventsWrite(c) == UNCHANGED events \/ Emit(c, call[c].run)

LEMMA Writes ==
    ASSUME TypeOK, NEW c \in Callers, Acts(c)
    PROVE  /\ call[c].at # "idle" /\ call[c].run \in Runs /\ UNCHANGED <<intent, bridge>>
           /\ RunWrite(c) /\ BindingWrite(c) /\ DispatchWrite(c) /\ QuestionWrite(c)
           /\ EvidenceWrite(c) /\ ReturnWrite(c) /\ EventsWrite(c)
<1> DEFINE Goal == /\ RunWrite(c) /\ BindingWrite(c) /\ DispatchWrite(c) /\ QuestionWrite(c)
                   /\ EvidenceWrite(c) /\ ReturnWrite(c) /\ EventsWrite(c)
<1> USE DEF RunWrite, BindingWrite, DispatchWrite, QuestionWrite, EvidenceWrite, ReturnWrite,
            EventsWrite, At, rows, Writing
<1>a. call[c].at # "idle" /\ UNCHANGED <<intent, bridge>>
  <2>1. CASE Resume(c)
    BY <2>1, Resumes
  <2>2. CASE CrashWithin(c)
    BY <2>2 DEF CrashWithin, CrashWhileBinding, CrashWhileAnswering, CrashWhileCancelling,
       CrashAfterBinding, CrashWhileSettling, CrashWhileCollecting, Collect
  <2> QED BY <2>1, <2>2 DEF Acts
<1>b. call[c].run \in Runs
  BY <1>a, Calls
<1> SUFFICES Goal
  BY <1>a, <1>b
<1>0. ASSUME NEW s, SetRun(call[c].run, CanonicalStatus(s, call[c].run))
      PROVE  RunWrite(c)
  BY <1>0, <1>b DEF SetRun, CanonicalStatus, RunStatus, TypeOK
<1>1. CASE Materialized(c)
  BY <1>1 DEF Materialized
<1>2. CASE NotFound(c) \/ ResultPolled(c) \/ EvidenceConflict(c) \/ Fails(c)
  BY <1>2 DEF NotFound, ResultPolled, EvidenceConflict, Fails
<1>3. CASE Bind(c)
  BY <1>0, <1>3 DEF Bind
<1>4. CASE DispatchFails(c)
  BY <1>4 DEF DispatchFails
<1>5. CASE TaskPolled(c)
  BY <1>0, <1>5 DEF TaskPolled
<1>6. CASE NoResult(c) \/ Replayed(c)
  BY <1>6 DEF NoResult, Replayed
<1>7. CASE ArchiveEvidence(c)
  BY <1>7 DEF ArchiveEvidence
<1>8. CASE Quarantine(c) \/ ContractUnsupported(c) \/ ReadOutputs(c)
  BY <1>8 DEF Quarantine, ContractUnsupported, ReadOutputs, Settles
<1>9. CASE SaveRunInputRequest(c)
  BY <1>9 DEF SaveRunInputRequest, RunStatus, Settles
<1>10. CASE ProviderFailed(c)
  BY <1>10 DEF ProviderFailed, RunStatus, Settles
<1>11. CASE AnalysisCompleted(c)
  BY <1>11 DEF AnalysisCompleted, Settles
<1>12. CASE \E o \in Outputs : CreateReturn(c, o)
  BY <1>12 DEF CreateReturn, Collect
<1>13. CASE Answered(c)
  BY <1>13 DEF Answered, RunStatus
<1>14. CASE Cancelled(c)
  BY <1>14 DEF Cancelled, RunStatus
<1>15. CASE Finalized(c)
  BY <1>15 DEF Finalized
<1>16. CASE CrashWithin(c)
  <2>1. UNCHANGED evidence /\ CompletesQuietly
    BY <1>16 DEF CrashWithin, ForgetCalls
  <2>2. CASE CrashWhileBinding(c)
    BY <1>0, <2>1, <2>2 DEF CrashWhileBinding
  <2>3. CASE CrashWhileAnswering(c)
    BY <2>1, <2>3 DEF CrashWhileAnswering, RunStatus
  <2>4. CASE CrashWhileCancelling(c)
    BY <2>1, <2>4 DEF CrashWhileCancelling, RunStatus
  <2>5. CASE CrashAfterBinding(c)
    BY <2>1, <2>5 DEF CrashAfterBinding
  <2>6. CASE CrashWhileSettling(c)
    BY <2>1, <2>6 DEF CrashWhileSettling, RunStatus
  <2>7. CASE CrashWhileCollecting(c)
    BY <2>1, <2>7 DEF CrashWhileCollecting, Collect
  <2> QED BY <1>16, <2>2, <2>3, <2>4, <2>5, <2>6, <2>7 DEF CrashWithin
<1> QED
  BY <1>1, <1>2, <1>3, <1>4, <1>5, <1>6, <1>7, <1>8, <1>9, <1>10, <1>11, <1>12, <1>13,
     <1>14, <1>15, <1>16 DEF Resume, Acts

\* The steps that write rows.
LEMMA RowSteps ==
    ASSUME TypeOK, [Next]_vars
    PROVE  \/ UNCHANGED rows
           \/ \E r \in Runs :
                 \/ CreateRunWithDispatch(r)
                 \/ Abandoned(r) /\ (UNCHANGED events \/ Record(r, {"cancelled"}))
           \/ \E c \in Callers : Acts(c)
           \/ \E r \in Runs, o \in Outputs, d \in {"adopted", "rejected"} :
                 /\ Decided(r, o, d)
                 /\ \/ Record(r, {"completed"})
                    \/ CompletesQuietly /\ UNCHANGED events
           \/ \E r \in Runs, o \in Outputs, n \in Runs : Retry(r, o, n)
<1>1. ASSUME NEW c, NEW r \in Runs, Request(c, r) \/ Sync(c, r) PROVE UNCHANGED rows
  BY <1>1, Starts
<1>2. ASSUME NEW r \in Runs, AutoSync(r) PROVE UNCHANGED rows
  BY <1>1, <1>2 DEF AutoSync
<1>3. ASSUME NEW c \in Callers, BridgeServes(c) \/ BridgeFails(c) PROVE UNCHANGED rows
  BY <1>3 DEF BridgeServes, BridgeFails
<1>4. ASSUME AutoTick \/ AgentStep \/ Crash PROVE UNCHANGED rows
  BY <1>4 DEF AutoTick, AgentStep, Crash
<1>5. ASSUME NEW r \in Runs, NEW o \in Outputs, Review(r, o)
      PROVE  \/ \E d \in {"adopted", "rejected"} : Decided(r, o, d) /\ Record(r, {"completed"})
             \/ \E n \in Runs : Retry(r, o, n)
  BY <1>5 DEF Review, Accept, Reject, Decide
<1>6. ASSUME UNCHANGED vars PROVE UNCHANGED rows
  BY <1>6 DEF vars
<1>7. \A c \in Clients : c \in Callers
  BY DEF Clients
<1>8. ASSUME NEW r \in Runs, CancelUnbound(r) \/ CrashWhileAbandoning(r)
      PROVE  Abandoned(r) /\ (UNCHANGED events \/ Record(r, {"cancelled"}))
  BY <1>8 DEF CancelUnbound, CrashWhileAbandoning
<1>9. ASSUME NEW r, NEW o, NEW d, CrashWhileDeciding(r, o, d)
      PROVE  Decided(r, o, d) /\ CompletesQuietly /\ UNCHANGED events
  BY <1>9 DEF CrashWhileDeciding, ForgetCalls
<1> QED BY <1>1, <1>2, <1>3, <1>4, <1>5, <1>6, <1>7, <1>8, <1>9 DEF Next, Acts

\* The steps that move a task.
LEMMA BridgeSteps ==
    ASSUME TypeOK, [Next]_vars
    PROVE  \/ UNCHANGED bridge
           \/ \E c \in Callers : BridgeServes(c)
           \/ AgentStep
<1>1. ASSUME NEW c, NEW r \in Runs, Request(c, r) \/ Sync(c, r) PROVE UNCHANGED bridge
  BY <1>1, Starts
<1>2. ASSUME NEW r \in Runs, CreateRunWithDispatch(r) \/ CancelUnbound(r) \/ AutoSync(r)
      PROVE  UNCHANGED bridge
  BY <1>1, <1>2 DEF CreateRunWithDispatch, CancelUnbound, Abandoned, AutoSync
<1>3. ASSUME NEW c \in Callers, Resume(c) PROVE UNCHANGED bridge
  BY <1>3, Resumes
<1>4. ASSUME NEW c \in Callers, BridgeFails(c) PROVE UNCHANGED bridge
  BY <1>4 DEF BridgeFails
<1>5. ASSUME AutoTick \/ Crash PROVE UNCHANGED bridge
  BY <1>5 DEF AutoTick, Crash
<1>6. ASSUME NEW r \in Runs, NEW o \in Outputs, Review(r, o) PROVE UNCHANGED bridge
  BY <1>6 DEF Review, Accept, Reject, Decide, Decided, Retry
<1>7. ASSUME NEW c, NEW r, NEW o, NEW d,
             CrashWithin(c) \/ CrashWhileAbandoning(r) \/ CrashWhileDeciding(r, o, d)
      PROVE  UNCHANGED bridge
  BY <1>7 DEF CrashWithin, CrashWhileAbandoning, CrashWhileDeciding, Abandoned, Decided
<1>8. ASSUME UNCHANGED vars PROVE UNCHANGED bridge
  BY <1>8 DEF vars
<1>9. \A c \in Clients : c \in Callers
  BY DEF Clients
<1> QED BY <1>1, <1>2, <1>3, <1>4, <1>5, <1>6, <1>7, <1>8, <1>9 DEF Next

\* The Bridge never forgets a task, a submission or an answer.
LEMMA BridgeGrows ==
    ASSUME TypeOK, AcknowledgedIsHeard, [Next]_vars, NEW r \in Runs
    PROVE  /\ task[r] # "absent" => task'[r] # "absent"
           /\ task[r] \in Submitted => task'[r] \in Submitted /\ files'[r] = files[r]
           /\ heard[r] \subseteq heard'[r]
<1> DEFINE Goal == /\ task[r] # "absent" => task'[r] # "absent"
                   /\ task[r] \in Submitted => task'[r] \in Submitted /\ files'[r] = files[r]
                   /\ heard[r] \subseteq heard'[r]
<1>1. CASE UNCHANGED bridge
  BY <1>1 DEF bridge
<1>2. ASSUME NEW c \in Callers, BridgeServes(c) PROVE Goal
  <2>0. files' = files
    BY <1>2, Serves
  <2>1. CASE ServeCreate(c)
    <3>1. \/ UNCHANGED task
          \/ task[call[c].run] = "absent" /\ task' = [task EXCEPT ![call[c].run] = "queued"]
      BY <2>1 DEF ServeCreate, TypeOK
    <3> QED BY <2>0, <2>1, <3>1 DEF ServeCreate, TypeOK, Submitted
  <2>2. CASE ServeRead(c)
    BY <2>2 DEF ServeRead, bridge
  <2>3. CASE ServeAnswer(c)
    BY <2>0, <2>3 DEF ServeAnswer, TypeOK, Submitted
  <2>4. CASE ServeCancel(c)
    BY <2>0, <2>4 DEF ServeCancel, TypeOK, Submitted
  <2>5. CASE ServeFinalize(c)
    BY <2>0, <2>5 DEF ServeFinalize, TypeOK, Submitted
  <2> QED BY <1>2, <2>1, <2>2, <2>3, <2>4, <2>5 DEF BridgeServes
<1>3. CASE AgentStep
  BY <1>3 DEF AgentStep, AgentRuns, AgentAsks, AgentSubmits, AgentFails, TypeOK, Submitted
<1> QED BY <1>1, <1>2, <1>3, BridgeSteps

\* A crash ends every handler, and excepts what it completed.
LEMMA Forgets ==
    ASSUME TypeOK, ForgetCalls
    PROVE  /\ queue' \subseteq Runs /\ crashes' \in 0..MaxCrashes
           /\ unannounced \subseteq unannounced' /\ unannounced' \subseteq Runs
BY LifecycleAssumption DEF ForgetCalls, CompletesQuietly, TypeOK

\* Types of the rows after a handler went on.
LEMMA RowsAct ==
    ASSUME TypeOK, RepliesFit, CallsTyped, NEW c \in Callers, Acts(c)
    PROVE  TypeOK'
<1>0. /\ call[c].at # "idle" /\ UNCHANGED <<intent, bridge>>
      /\ queue' \subseteq Runs /\ crashes' \in 0..MaxCrashes /\ unannounced' \subseteq Runs
  <2>1. CASE Resume(c)
    BY <2>1, Resumes DEF faults, TypeOK
  <2>2. CASE CrashWithin(c)
    BY <2>2, Writes, Forgets DEF Acts, CrashWithin
  <2> QED BY <2>1, <2>2 DEF Acts
<1>1. /\ call[c].run \in Runs /\ call[c].binding \in Binding
  BY <1>0, Calls
<1>2. run' \in [Runs -> RunStatus]
  BY <1>1, Writes DEF RunWrite, SetRun, Analysed, RunStatus, TypeOK
<1>3. binding' \in [Runs -> Binding]
  BY <1>1, Writes DEF BindingWrite, SetBinding, Binding, TypeOK
<1>4. dispatch' \in [Runs -> {"none", "planned", "dispatching", "bound", "recovery_required"}]
  BY <1>1, Writes DEF DispatchWrite, TypeOK
<1>5. question' \in [Runs -> [Questions -> {"none", "pending", "answered"}]]
  <2> DEFINE r == call[c].run
             q == call[c].arg
  <2>1. question[r] \in [Questions -> {"none", "pending", "answered"}]
    BY <1>1 DEF TypeOK
  <2>2. CASE UNCHANGED question
    BY <2>2 DEF TypeOK
  <2>3. CASE question' = [question EXCEPT ![r][q] = IF @ = "answered" THEN @ ELSE "pending"]
    <3> DEFINE f == [question[r] EXCEPT ![q] = IF @ = "answered" THEN @ ELSE "pending"]
    <3>1. f \in [Questions -> {"none", "pending", "answered"}]
      BY <2>1
    <3>2. question' = [question EXCEPT ![r] = f]
      BY <2>3
    <3> HIDE DEF f
    <3> QED BY <3>1, <3>2 DEF TypeOK
  <2>4. CASE question' = [question EXCEPT ![r][q] = "answered"]
    <3> DEFINE f == [question[r] EXCEPT ![q] = "answered"]
    <3>1. f \in [Questions -> {"none", "pending", "answered"}]
      BY <2>1
    <3>2. question' = [question EXCEPT ![r] = f]
      BY <2>4
    <3> HIDE DEF f
    <3> QED BY <3>1, <3>2 DEF TypeOK
  <2> QED BY <2>2, <2>3, <2>4, Writes DEF QuestionWrite, Ask, Answered
<1>6. evidence' \in [Runs -> TaskStatus \cup {None}]
  <2>1. CASE UNCHANGED evidence
    BY <2>1 DEF TypeOK
  <2>2. CASE /\ call[c].at = "archive"
             /\ evidence' = [evidence EXCEPT ![call[c].run] = call[c].reply]
    BY <2>2 DEF RepliesFit, Reported, TaskStatus, TypeOK
  <2> QED BY <2>1, <2>2, Writes DEF EvidenceWrite, At
<1>7. ret' \in [Runs -> [Outputs -> {"none", "pending_review", "adopted", "rejected"}]]
  <2> DEFINE r == call[c].run
  <2>1. CASE UNCHANGED ret
    BY <2>1 DEF TypeOK
  <2>2. ASSUME NEW o \in Outputs, ret' = [ret EXCEPT ![r][o] = "pending_review"]
        PROVE  ret' \in [Runs -> [Outputs -> {"none", "pending_review", "adopted", "rejected"}]]
    <3> DEFINE f == [ret[r] EXCEPT ![o] = "pending_review"]
    <3>1. f \in [Outputs -> {"none", "pending_review", "adopted", "rejected"}]
      BY <1>1 DEF TypeOK
    <3>2. ret' = [ret EXCEPT ![r] = f]
      BY <2>2
    <3> HIDE DEF f
    <3> QED BY <3>1, <3>2 DEF TypeOK
  <2> QED BY <2>1, <2>2, Writes DEF ReturnWrite
<1>8. events' \in [Runs -> SUBSET Tracked]
  <2>1. CASE UNCHANGED events
    BY <2>1 DEF TypeOK
  <2>2. ASSUME NEW types, Record(call[c].run, types)
        PROVE  events' \in [Runs -> SUBSET Tracked]
    BY <1>1, <2>2 DEF Record, TypeOK
  <2> QED BY <2>1, <2>2, Writes DEF EventsWrite, Emit
<1> QED BY <1>0, <1>2, <1>3, <1>4, <1>5, <1>6, <1>7, <1>8
        DEF CallsTyped, TypeOK, bridge

LEMMA TypeStep ==
    ASSUME TypeOK, RepliesFit, AcknowledgedIsHeard, [Next]_vars
    PROVE  TypeOK'
<1>0. CallsTyped
  BY CallStep
<1>1. ASSUME NEW r \in Runs, CreateRunWithDispatch(r) \/ CancelUnbound(r) PROVE TypeOK'
  <2>1. CASE CreateRunWithDispatch(r)
    BY <2>1 DEF CreateRunWithDispatch, SetRun, RunStatus, TypeOK, bridge, faults
  <2>2. CASE CancelUnbound(r)
    BY <2>2 DEF CancelUnbound, Abandoned, SetRun, Record, RunStatus, TypeOK, bridge, faults
  <2> QED BY <1>1, <2>1, <2>2
<1>2. ASSUME NEW c, NEW r \in Runs, Request(c, r) \/ Sync(c, r), queue' \subseteq Runs
      PROVE  TypeOK'
  BY <1>2, Starts DEF TypeOK, rows, bridge, faults
<1>3. ASSUME NEW c, NEW r \in Runs, Request(c, r) PROVE UNCHANGED queue
  BY <1>3 DEF Request, Dispatch, Recover, Cancel, AnswerInput, Finalize
<1>4. ASSUME NEW c \in Callers, BridgeServes(c) PROVE TypeOK'
  BY <1>4, Serves DEF TypeOK, rows, faults
<1>5. ASSUME NEW c \in Callers, BridgeFails(c) PROVE TypeOK'
  BY <1>0, <1>5 DEF BridgeFails, CallsTyped, TypeOK, rows, bridge, faults
<1>6. ASSUME NEW r \in Runs, NEW o \in Outputs, NEW d \in {"adopted", "rejected"},
             Decide(r, o, d)
      PROVE  TypeOK'
  BY <1>6 DEF Decide, Decided, SetRun, Record, RunStatus, Binding, TypeOK, bridge, faults
<1>7. ASSUME NEW r \in Runs, NEW o \in Outputs, NEW n \in Runs, Retry(r, o, n) PROVE TypeOK'
  BY <1>7 DEF Retry, CompletesQuietly, RunStatus, Binding, TypeOK, bridge
<1>8. ASSUME AutoTick PROVE TypeOK'
  BY <1>8 DEF AutoTick, ListRunsNeedingSync, TypeOK, rows, bridge, faults
<1>9. ASSUME AgentStep PROVE TypeOK'
  <2> DEFINE Good == /\ task' \in [Runs -> TaskStatus]
                     /\ asked' \in [Runs -> Questions \cup {None}]
                     /\ heard' = heard /\ files' \in [Runs -> SUBSET Outputs]
  <2>1. ASSUME NEW r \in Runs, AgentRuns(r) PROVE Good
    BY <2>1 DEF AgentRuns, TaskStatus, TypeOK
  <2>2. ASSUME NEW r \in Runs, NEW q \in Questions, AgentAsks(r, q) PROVE Good
    BY <2>2 DEF AgentAsks, TaskStatus, TypeOK
  <2>4. ASSUME NEW r \in Runs, NEW fs \in SUBSET Outputs, AgentSubmits(r, fs) PROVE Good
    BY <2>4 DEF AgentSubmits, TaskStatus, TypeOK
  <2>5. ASSUME NEW r \in Runs, NEW s \in {"failed", "timeout"}, AgentFails(r, s) PROVE Good
    BY <2>5 DEF AgentFails, TaskStatus, TypeOK
  <2>6. Good
    <3> HIDE DEF Good
    <3> QED BY <1>9, <2>1, <2>2, <2>4, <2>5 DEF AgentStep
  <2>3. UNCHANGED <<rows, call, queue, faults>>
    BY <1>9 DEF AgentStep
  <2> QED BY <2>3, <2>6 DEF TypeOK, rows, faults
<1>10. ASSUME ForgetCalls
       PROVE  queue' \subseteq Runs /\ crashes' \in 0..MaxCrashes /\ unannounced' \subseteq Runs
  BY <1>10, Forgets
<1>11. ASSUME Crash PROVE TypeOK'
  BY <1>0, <1>10, <1>11 DEF Crash, CallsTyped, TypeOK, rows, bridge
<1>12. ASSUME NEW r \in Runs, CrashWhileAbandoning(r) PROVE TypeOK'
  BY <1>0, <1>10, <1>12
     DEF CrashWhileAbandoning, Abandoned, SetRun, RunStatus, CallsTyped, TypeOK, bridge
<1>13. ASSUME NEW r \in Runs, NEW o \in Outputs, NEW d \in {"adopted", "rejected"},
              CrashWhileDeciding(r, o, d)
       PROVE  TypeOK'
  BY <1>0, <1>10, <1>13
     DEF CrashWhileDeciding, Decided, SetRun, RunStatus, Binding, CallsTyped, TypeOK, bridge
<1>14. ASSUME UNCHANGED vars PROVE TypeOK'
  BY <1>14 DEF vars, rows, bridge, faults, TypeOK
<1>15. ASSUME NEW c, NEW r \in Runs, Request(c, r) PROVE TypeOK'
  <2>1. queue' \subseteq Runs
    BY <1>3, <1>15 DEF TypeOK
  <2> QED BY <1>2, <1>15, <2>1
<1>16. ASSUME NEW r \in Runs, AutoSync(r) PROVE TypeOK'
  <2>1. queue' \subseteq Runs
    BY <1>16 DEF AutoSync, TypeOK
  <2> QED BY <1>2, <1>16, <2>1 DEF AutoSync
<1>17. ASSUME NEW r \in Runs, NEW o \in Outputs, Review(r, o) PROVE TypeOK'
  BY <1>6, <1>7, <1>17 DEF Review, Accept, Reject
<1> QED BY <1>1, <1>15, <1>16, <1>4, <1>5, <1>17, <1>8, <1>9, <1>11, <1>12, <1>13, <1>14,
           <1>0, RowsAct DEF Next, Acts

-----------------------------------------------------------------------------
(* The rows only grow *)

LEMMA IntentStays == ASSUME TypeOK, [Next]_vars PROVE intent' = intent
BY RowSteps, Writes DEF rows, CreateRunWithDispatch, Abandoned, Decided, Retry

LEMMA EvidenceGrows ==
    ASSUME TypeOK, [Next]_vars, NEW r \in Runs, evidence[r] # None
    PROVE  evidence'[r] = evidence[r]
<1>1. ASSUME NEW c \in Callers, Acts(c) PROVE evidence'[r] = evidence[r]
  BY <1>1, Writes DEF EvidenceWrite, TypeOK
<1> QED BY <1>1, RowSteps DEF rows, CreateRunWithDispatch, Abandoned, Decided, Retry

\* A run stays bound: what a handler writes back is never the absence of a binding.
LEMMA BindingGrows ==
    ASSUME TypeOK, CallsAreBound, [Next]_vars, NEW r \in Runs, binding[r] # "none"
    PROVE  binding'[r] # "none"
<1> USE DEF SetBinding
<1>1. ASSUME NEW c \in Callers, Acts(c) PROVE binding'[r] # "none"
  BY <1>1, Writes DEF BindingWrite, CallsAreBound, TypeOK
<1>2. ASSUME NEW s \in Runs, NEW o \in Outputs, NEW d, Decided(s, o, d)
      PROVE  binding'[r] # "none"
  BY <1>2 DEF Decided, TypeOK
<1>3. ASSUME NEW s \in Runs, NEW o \in Outputs, NEW n \in Runs, Retry(s, o, n)
      PROVE  binding'[r] # "none"
  BY <1>3 DEF Retry, TypeOK
<1> QED BY <1>1, <1>2, <1>3, RowSteps DEF rows, CreateRunWithDispatch, Abandoned

LEMMA EventsGrow ==
    ASSUME TypeOK, [Next]_vars, NEW r \in Runs
    PROVE  events[r] \subseteq events'[r]
<1> USE DEF Record
<1>1. ASSUME NEW s, NEW types, Record(s, types) PROVE events[r] \subseteq events'[r]
  BY <1>1 DEF TypeOK
<1> HIDE DEF Record
<1>2. ASSUME NEW c \in Callers, Acts(c) PROVE events[r] \subseteq events'[r]
  BY <1>1, <1>2, Writes DEF EventsWrite, Emit
<1> QED BY <1>1, <1>2, RowSteps DEF rows, CreateRunWithDispatch, Abandoned, Decided, Retry

\* One return changes, from none to review or from review to a decision.
LEMMA OneReturn ==
    ASSUME TypeOK, NEW r \in Runs, NEW o \in Outputs, NEW d,
           ret' = [ret EXCEPT ![r][o] = d]
    PROVE  \A s \in Runs, p \in Outputs :
              ret'[s][p] = IF s = r /\ p = o THEN d ELSE ret[s][p]
<1>1. ret' = [ret EXCEPT ![r] = [ret[r] EXCEPT ![o] = d]]
  BY Zenon DEF TypeOK
<1>2. ret \in [Runs -> [Outputs -> {"none", "pending_review", "adopted", "rejected"}]]
  BY DEF TypeOK
<1> QED BY <1>1, <1>2

LEMMA ReturnsGrow ==
    ASSUME TypeOK, [Next]_vars, NEW r \in Runs, NEW o \in Outputs
    PROVE  /\ ret[r][o] \in {"adopted", "rejected"} => ret'[r][o] = ret[r][o]
           /\ ret[r][o] # "none" => ret'[r][o] # "none"
<1> DEFINE Goal == /\ ret[r][o] \in {"adopted", "rejected"} => ret'[r][o] = ret[r][o]
                   /\ ret[r][o] # "none" => ret'[r][o] # "none"
<1>1. ASSUME NEW s \in Runs, NEW p \in Outputs, NEW d \in {"pending_review", "adopted", "rejected"},
             ret' = [ret EXCEPT ![s][p] = d],
             ret[s][p] \in {"none", "pending_review"}
      PROVE  Goal
  BY <1>1, OneReturn
<1> HIDE DEF Goal
<1>2. ASSUME UNCHANGED ret PROVE Goal
  BY <1>2 DEF Goal
<1>3. ASSUME NEW c \in Callers, Acts(c) PROVE Goal
  <2>1. ReturnWrite(c) /\ call[c].run \in Runs
    BY <1>3, Writes
  <2> QED BY <1>1, <1>2, <2>1 DEF ReturnWrite
<1>4. ASSUME NEW s \in Runs, NEW p \in Outputs, NEW d \in {"adopted", "rejected"},
             Decided(s, p, d)
      PROVE  Goal
  BY <1>1, <1>4 DEF Decided
<1>5. ASSUME NEW s \in Runs, NEW p \in Outputs, NEW n \in Runs, Retry(s, p, n) PROVE Goal
  BY <1>1, <1>5 DEF Retry
<1>6. Goal
  BY <1>2, <1>3, <1>4, <1>5, RowSteps DEF rows, CreateRunWithDispatch, Abandoned
<1> QED BY <1>6 DEF Goal

LEMMA AnswersGrow ==
    ASSUME TypeOK, [Next]_vars, NEW r \in Runs, NEW q \in Questions,
           question[r][q] = "answered"
    PROVE  question'[r][q] = "answered"
<1>0. question \in [Runs -> [Questions -> {"none", "pending", "answered"}]]
  BY DEF TypeOK
<1>1. ASSUME NEW c \in Callers, Acts(c) PROVE question'[r][q] = "answered"
  <2>1. QuestionWrite(c) /\ call[c].run \in Runs
    BY <1>1, Writes
  <2>2. ASSUME NEW s \in Runs, NEW p,
               \/ question' = [question EXCEPT ![s][p] = IF @ = "answered" THEN @ ELSE "pending"]
               \/ question' = [question EXCEPT ![s][p] = "answered"]
        PROVE  question'[r][q] = "answered"
    BY <1>0, <2>2
  <2> QED BY <2>1, <2>2 DEF QuestionWrite, Ask, Answered
<1> QED BY <1>1, RowSteps DEF rows, CreateRunWithDispatch, Abandoned, Decided, Retry

-----------------------------------------------------------------------------
(* What the calls remember stays true *)

LEMMA BoundStep ==
    ASSUME TypeOK, AcknowledgedIsHeard, CallsAreBound, [Next]_vars
    PROVE  CallsAreBound'
<1> SUFFICES ASSUME NEW c \in Callers
             PROVE  /\ call'[c].at \in Bound => binding'[call'[c].run] # "none"
                    /\ call'[c].at \in Writing => call'[c].binding # "none"
  BY DEF CallsAreBound
<1> USE DEF Bound, Writing
<1>1. CASE call'[c] = call[c]
  <2>1. call[c].at \in Bound => call[c].run \in Runs
    BY Calls
  <2> QED BY <1>1, <2>1, BindingGrows DEF CallsAreBound
<1>2. CASE call'[c] = Idle
  BY <1>2 DEF Idle
<1>3. CASE Began(c)
  BY <1>3, BindingGrows DEF Began
<1>4. CASE Moved(c)
  BY <1>4, Calls, BindingGrows DEF Moved, Kept, CallsAreBound
<1>5. CASE Served(c) \/ Cut(c)
  BY <1>5, Calls, BindingGrows DEF Served, Cut, Kept, CallsAreBound
<1> QED BY <1>1, <1>2, <1>3, <1>4, <1>5, CallStep

LEMMA RepliesStep ==
    ASSUME TypeOK, AcknowledgedIsHeard, RepliesFit, [Next]_vars
    PROVE  RepliesFit'
<1> SUFFICES ASSUME NEW c \in Callers
             PROVE  /\ call'[c].at = "getResult" =>
                         call'[c].reply \in Reported \cup {"none", "error", None}
                    /\ call'[c].at \in {"archive", "settle"} => call'[c].reply \in Reported
  BY DEF RepliesFit, At
<1>1. CASE call'[c] = call[c]
  BY <1>1 DEF RepliesFit, At
<1>2. CASE call'[c] = Idle
  BY <1>2 DEF Idle
<1>3. CASE Began(c)
  BY <1>3 DEF Began
<1>4. CASE Moved(c)
  BY <1>4 DEF Moved, RepliesFit, At
<1>5. CASE Served(c)
  <2>1. call[c].at \notin {"archive", "settle"}
    BY <1>5 DEF Served, BridgeServes, ServeCreate, ServeRead, ServeAnswer, ServeCancel,
       ServeFinalize, At
  <2> QED BY <1>5, <2>1 DEF Served, At
<1>6. CASE Cut(c)
  BY <1>6 DEF Cut, Remote
<1> QED BY <1>1, <1>2, <1>3, <1>4, <1>5, <1>6, CallStep

LEMMA FoundStep ==
    ASSUME TypeOK, AcknowledgedIsHeard, FoundTasksExist, [Next]_vars
    PROVE  FoundTasksExist'
<1> SUFFICES ASSUME NEW c \in Callers, call'[c].at \in {"createTask", "findTask"},
                    call'[c].reply \notin {None, "error", "absent"}
             PROVE  task'[call'[c].run] # "absent"
  BY DEF FoundTasksExist
<1>1. CASE call'[c] = call[c]
  BY <1>1, Calls, BridgeGrows DEF FoundTasksExist
<1>2. CASE call'[c] = Idle
  BY <1>2 DEF Idle
<1>3. CASE Began(c)
  BY <1>3 DEF Began
<1>4. CASE Moved(c)
  BY <1>4 DEF Moved
<1>5. CASE Served(c)
  <2>1. /\ call'[c].run = call[c].run /\ call[c].run \in Runs /\ call[c] \in Call
        /\ call[c].at \in {"createTask", "findTask"}
    BY <1>5, Calls DEF Served, Kept
  <2>2. CASE ServeCreate(c)
    <3>1. \/ task[call[c].run] # "absent" /\ UNCHANGED task
          \/ task' = [task EXCEPT ![call[c].run] = "queued"]
      BY <2>1, <2>2 DEF ServeCreate, TypeOK
    <3> QED BY <2>1, <3>1 DEF TypeOK
  <2>3. CASE ServeRead(c)
    <3>1. Reply(c, task[call[c].run]) /\ UNCHANGED task
      BY <2>1, <2>3 DEF ServeRead, At, bridge
    <3>2. call'[c].reply = task[call[c].run]
      BY <2>1, <3>1 DEF Reply, TypeOK, Call
    <3> QED BY <2>1, <3>1, <3>2
  <2> QED BY <1>5, <2>1, <2>2, <2>3
          DEF Served, BridgeServes, ServeAnswer, ServeCancel, ServeFinalize, At
<1>6. CASE Cut(c)
  BY <1>6 DEF Cut
<1> QED BY <1>1, <1>2, <1>3, <1>4, <1>5, <1>6, CallStep

LEMMA HeardStep ==
    ASSUME TypeOK, AcknowledgedIsHeard, [Next]_vars
    PROVE  AcknowledgedIsHeard'
<1> SUFFICES ASSUME NEW c \in Callers, call'[c].at = "answerInput"
             PROVE  /\ call'[c].arg \in Questions
                    /\ call'[c].reply \notin {None, "error"} =>
                         call'[c].arg \in heard'[call'[c].run]
  BY DEF AcknowledgedIsHeard, At, Got
<1>1. CASE call'[c] = call[c]
  BY <1>1, Calls, BridgeGrows DEF AcknowledgedIsHeard, At, Got
<1>2. CASE call'[c] = Idle
  BY <1>2 DEF Idle
<1>3. CASE Began(c)
  BY <1>3 DEF Began, At
<1>4. CASE Moved(c)
  BY <1>4 DEF Moved
<1>5. CASE Served(c)
  <2>1. /\ call'[c].run = call[c].run /\ call'[c].arg = call[c].arg
        /\ call[c].at = "answerInput" /\ call[c].run \in Runs /\ call[c] \in Call
    BY <1>5, Calls DEF Served, Kept
  <2>2. ServeAnswer(c)
    BY <1>5, <2>1 DEF Served, BridgeServes, ServeCreate, ServeRead, ServeCancel,
       ServeFinalize, At
  <2>3. call[c].arg \in Questions
    BY <2>1 DEF AcknowledgedIsHeard, At
  <2>4. \/ Reply(c, "error")
        \/ heard' = [heard EXCEPT ![call[c].run] = @ \cup {call[c].arg}]
        \/ call[c].arg \in heard[call[c].run] /\ UNCHANGED heard
    BY <2>2 DEF ServeAnswer
  <2>5. CASE Reply(c, "error")
    BY <2>1, <2>3, <2>5 DEF Reply, TypeOK, Call
  <2> QED BY <2>1, <2>3, <2>4, <2>5 DEF TypeOK
<1>6. CASE Cut(c)
  BY <1>6 DEF Cut, AcknowledgedIsHeard, At
<1> QED BY <1>1, <1>2, <1>3, <1>4, <1>5, <1>6, CallStep

LEMMA ReviewStep ==
    ASSUME TypeOK, AcknowledgedIsHeard, RepliesFit, ReviewIsArchived, [Next]_vars
    PROVE  ReviewIsArchived'
<1>1. ASSUME NEW r \in Runs, evidence'[r] = "review" PROVE task'[r] \in Submitted
  <2>0. evidence[r] = "review" => task'[r] \in Submitted
    BY BridgeGrows DEF ReviewIsArchived
  <2>1. ASSUME NEW c \in Callers, Acts(c) PROVE task'[r] \in Submitted
    <3>1. call[c].run \in Runs /\ UNCHANGED task
      BY <2>1, Writes DEF bridge
    <3>2. EvidenceWrite(c)
      BY <2>1, Writes
    <3>3. CASE UNCHANGED evidence
      BY <1>1, <2>0, <3>3
    <3>4. CASE /\ call[c].at = "archive"
               /\ evidence' = [evidence EXCEPT ![call[c].run] = call[c].reply]
      BY <1>1, <2>0, <3>1, <3>4 DEF ReviewIsArchived, TypeOK
    <3> QED BY <3>2, <3>3, <3>4 DEF EvidenceWrite, At
  <2>2. ASSUME UNCHANGED evidence PROVE task'[r] \in Submitted
    BY <1>1, <2>0, <2>2
  <2> QED BY <2>1, <2>2, RowSteps DEF rows, CreateRunWithDispatch, Abandoned, Decided, Retry
<1>2. \A r \in Runs : evidence[r] = "review" => evidence'[r] = "review"
  <2>1. None # "review"
    BY LifecycleAssumption DEF TaskStatus
  <2> QED BY <2>1, EvidenceGrows
<1>3. intent' = intent
  BY IntentStays
<1>4. ASSUME NEW c \in Callers
      PROVE  /\ call'[c].at \in {"getResult", "archive"} /\ call'[c].reply = "review"
                  => task'[call'[c].run] \in Submitted
             /\ call'[c].at = "settle" /\ call'[c].reply = "review"
                  => evidence'[call'[c].run] = "review"
             /\ call'[c].at = "read"
                  => evidence'[call'[c].run] = "review" /\ intent'[call'[c].run] # "analyze"
  <2>0. None # "review"
    BY LifecycleAssumption DEF TaskStatus
  <2>1. CASE call'[c] = call[c]
    BY <1>2, <1>3, <2>1, Calls, BridgeGrows DEF ReviewIsArchived, At
  <2>2. CASE call'[c] = Idle
    BY <2>2 DEF Idle
  <2>3. CASE Began(c)
    BY <2>3 DEF Began
  <2>4. CASE Moved(c)
    <3>1. call[c].run \in Runs /\ call'[c].run = call[c].run
      BY <2>4, Calls DEF Moved, Kept
    <3> QED BY <1>2, <1>3, <2>0, <2>4, <3>1, BridgeGrows DEF Moved, ReviewIsArchived, At
  <2>5. CASE Served(c)
    <3>1. /\ call[c].run \in Runs /\ call'[c].run = call[c].run /\ call'[c].at = call[c].at
          /\ call[c] \in Call
      BY <2>5, Calls DEF Served, Kept
    <3>2. call[c].at \notin {"archive", "settle", "read"}
      BY <2>5 DEF Served, BridgeServes, ServeCreate, ServeRead, ServeAnswer, ServeCancel,
         ServeFinalize, At
    <3>3. ASSUME call[c].at = "getResult", call'[c].reply = "review"
          PROVE  task'[call[c].run] \in Submitted
      <4>1. ServeRead(c) /\ UNCHANGED task
        BY <2>5, <3>3 DEF Served, BridgeServes, ServeCreate, ServeRead, ServeAnswer,
           ServeCancel, ServeFinalize, At, bridge
      <4>2. \/ call' = [call EXCEPT ![c].reply = task[call[c].run],
                                    ![c].arg = asked[call[c].run]]
            \/ Reply(c, "none")
        BY <3>3, <4>1 DEF ServeRead, At
      <4>3. CASE Reply(c, "none")
        BY <3>1, <3>3, <4>3 DEF Reply, TypeOK, Call
      <4>4. CASE call' = [call EXCEPT ![c].reply = task[call[c].run],
                                      ![c].arg = asked[call[c].run]]
        <5>1. call'[c] = [call[c] EXCEPT !.reply = task[call[c].run],
                                         !.arg = asked[call[c].run]]
          BY <4>4, Zenon DEF TypeOK
        <5>2. call'[c].reply = task[call[c].run]
          BY <3>1, <5>1 DEF Call
        <5> QED BY <3>3, <4>1, <5>2 DEF Submitted
      <4> QED BY <4>2, <4>3, <4>4
    <3> QED BY <3>1, <3>2, <3>3
  <2>6. CASE Cut(c)
    BY <2>6 DEF Cut, Remote
  <2> QED BY <2>1, <2>2, <2>3, <2>4, <2>5, <2>6, CallStep
<1> QED BY <1>1, <1>4 DEF ReviewIsArchived, At

-----------------------------------------------------------------------------
(* The properties step by step *)

LEMMA BoundToATaskStep ==
    ASSUME TypeOK, AcknowledgedIsHeard, CallsAreBound, FoundTasksExist, BoundToATask,
           [Next]_vars
    PROVE  BoundToATask'
<1>1. ASSUME NEW r \in Runs, binding[r] = "none", binding'[r] # "none"
      PROVE  task'[r] # "absent"
  <2>1. ASSUME NEW c \in Callers, call[c].run \in Runs, SetBinding(call[c].run, "clear"),
               At(c, "createTask") \/ At(c, "findTask"), Got(c), call[c].reply # "absent"
        PROVE  task[r] # "absent"
    BY <1>1, <2>1 DEF SetBinding, At, Got, FoundTasksExist, TypeOK
  <2>2. ASSUME NEW c \in Callers, call[c].run \in Runs, call[c].at \in Bound,
               NEW b, SetBinding(call[c].run, b)
        PROVE  FALSE
    BY <1>1, <2>2 DEF SetBinding, CallsAreBound, TypeOK
  <2>3. ASSUME NEW c \in Callers, Acts(c) PROVE task[r] # "absent"
    <3>1. call[c].run \in Runs
      BY <2>3, Writes
    <3>2. BindingWrite(c)
      BY <2>3, Writes
    <3>3. UNCHANGED binding => FALSE
      BY <1>1
    <3> QED BY <2>1, <2>2, <3>1, <3>2, <3>3 DEF BindingWrite, At, Bound, Writing
  <2>6. ASSUME NEW s \in Runs, NEW o \in Outputs, NEW d, Decided(s, o, d) PROVE FALSE
    BY <1>1, <2>6 DEF Decided, TypeOK
  <2>7. ASSUME NEW s \in Runs, NEW o \in Outputs, NEW n \in Runs, Retry(s, o, n) PROVE FALSE
    BY <1>1, <2>7 DEF Retry, TypeOK
  <2> QED BY <1>1, <2>3, <2>6, <2>7, RowSteps, BridgeGrows
          DEF rows, CreateRunWithDispatch, Abandoned
<1>2. ASSUME NEW r \in Runs, dispatch[r] # "bound", dispatch'[r] = "bound"
      PROVE  binding'[r] # "none"
  <2>1. ASSUME NEW c \in Callers, Acts(c) PROVE binding'[r] # "none"
    <3>1. call[c].run \in Runs /\ DispatchWrite(c)
      BY <2>1, Writes
    <3> QED BY <1>2, <3>1 DEF DispatchWrite, SetBinding, TypeOK
  <2>3. ASSUME NEW s \in Runs, CreateRunWithDispatch(s) PROVE FALSE
    BY <1>2, <2>3 DEF CreateRunWithDispatch, TypeOK
  <2>4. ASSUME NEW s \in Runs, NEW o \in Outputs, NEW n \in Runs, Retry(s, o, n) PROVE FALSE
    BY <1>2, <2>4 DEF Retry, TypeOK
  <2> QED BY <1>2, <2>1, <2>3, <2>4, RowSteps DEF rows, Abandoned, Decided
<1>3. \A r \in Runs : binding[r] # "none" => task'[r] # "absent"
  BY BridgeGrows DEF BoundToATask
<1>4. \A r \in Runs : dispatch[r] = "bound" => binding'[r] # "none"
  BY BindingGrows DEF BoundToATask
<1> QED BY <1>1, <1>2, <1>3, <1>4 DEF BoundToATask

LEMMA AnswerStep ==
    ASSUME TypeOK, AcknowledgedIsHeard, AnswerReachedTheProvider, [Next]_vars
    PROVE  AnswerReachedTheProvider'
<1> SUFFICES ASSUME NEW r \in Runs, NEW q \in Questions, question'[r][q] = "answered"
             PROVE  q \in heard'[r]
  BY DEF AnswerReachedTheProvider
<1>0. question \in [Runs -> [Questions -> {"none", "pending", "answered"}]]
  BY DEF TypeOK
<1>1. CASE question[r][q] = "answered"
  BY <1>1, BridgeGrows DEF AnswerReachedTheProvider
<1>2. CASE question[r][q] # "answered"
  <2>1. ASSUME NEW c \in Callers, Acts(c) PROVE q \in heard[r]
    <3>1. call[c].run \in Runs /\ QuestionWrite(c)
      BY <2>1, Writes
    <3>2. UNCHANGED question => FALSE
      BY <1>2
    <3>3. ASSUME Ask(call[c].run, call[c].arg) PROVE FALSE
      BY <1>0, <1>2, <3>3 DEF Ask
    <3>4. ASSUME Answered(c) PROVE q \in heard[r]
      <4>1. At(c, "answerInput") /\ Got(c)
        BY <3>4 DEF Answered
      <4>2. question' = [question EXCEPT ![call[c].run][call[c].arg] = "answered"]
        BY <3>4 DEF Answered
      <4>3. r = call[c].run /\ q = call[c].arg
        BY <1>0, <1>2, <4>2
      <4> QED BY <4>1, <4>3 DEF AcknowledgedIsHeard
    <3> QED BY <3>1, <3>2, <3>3, <3>4 DEF QuestionWrite
  <2> QED BY <1>2, <2>1, RowSteps, BridgeGrows DEF rows, CreateRunWithDispatch, Abandoned,
             Decided, Retry
<1> QED BY <1>1, <1>2

LEMMA EvidenceKeepsReview ==
    ASSUME TypeOK, [Next]_vars, NEW r \in Runs, evidence[r] = "review"
    PROVE  evidence'[r] = "review"
BY EvidenceGrows, LifecycleAssumption DEF TaskStatus

LEMMA ReturnsStep ==
    ASSUME TypeOK, AcknowledgedIsHeard, ReviewIsArchived, ReturnsComeFromReview, [Next]_vars
    PROVE  ReturnsComeFromReview'
<1> SUFFICES ASSUME NEW r \in Runs, NEW o \in Outputs, ret'[r][o] # "none"
             PROVE  evidence'[r] = "review" /\ o \in files'[r] /\ intent'[r] # "analyze"
  BY DEF ReturnsComeFromReview
<1>1. ASSUME evidence[r] = "review", o \in files[r], intent[r] # "analyze"
      PROVE  evidence'[r] = "review" /\ o \in files'[r] /\ intent'[r] # "analyze"
  <2>1. task[r] \in Submitted
    BY <1>1 DEF ReviewIsArchived
  <2>2. files'[r] = files[r]
    BY <2>1, BridgeGrows
  <2>3. intent' = intent
    BY IntentStays
  <2> QED BY <1>1, <2>2, <2>3, EvidenceKeepsReview
<1>2. CASE ret[r][o] # "none"
  BY <1>1, <1>2 DEF ReturnsComeFromReview
<1>3. CASE ret[r][o] = "none"
  <2>1. ASSUME NEW c \in Callers, Acts(c)
        PROVE  evidence[r] = "review" /\ o \in files[r] /\ intent[r] # "analyze"
    <3>1. call[c].run \in Runs /\ ReturnWrite(c)
      BY <2>1, Writes
    <3>2. PICK p \in files[call[c].run] :
             /\ At(c, "read") /\ p \in Outputs
             /\ ret' = [ret EXCEPT ![call[c].run][p] = "pending_review"]
      BY <1>3, <3>1 DEF ReturnWrite
    <3>3. r = call[c].run /\ o = p
      BY <1>3, <3>1, <3>2, OneReturn
    <3> QED BY <3>2, <3>3 DEF ReviewIsArchived
  <2>2. ASSUME NEW s \in Runs, NEW p \in Outputs, NEW d, Decided(s, p, d) PROVE FALSE
    BY <1>3, <2>2, OneReturn DEF Decided
  <2>3. ASSUME NEW s \in Runs, NEW p \in Outputs, NEW n \in Runs, Retry(s, p, n) PROVE FALSE
    BY <1>3, <2>3, OneReturn DEF Retry
  <2> QED BY <1>1, <1>3, <2>1, <2>2, <2>3, RowSteps DEF rows, CreateRunWithDispatch,
             Abandoned
<1> QED BY <1>2, <1>3

\* Only an applied analysis, a decision and a retry complete a run; those that record
\* no event say so.
LEMMA Completions ==
    ASSUME TypeOK, [Next]_vars, NEW r \in Runs, run[r] # "completed", run'[r] = "completed"
    PROVE  \/ \E c \in Callers : /\ call[c].at = "settle" /\ call[c].run = r /\ Analysed(c)
                                 /\ Emit(c, r) \/ CompletesQuietly
           \/ (\E o \in Outputs : ret'[r][o] = "rejected") /\ CompletesQuietly
           \/ \E o \in Outputs, d \in {"adopted", "rejected"} :
                 Decided(r, o, d) /\ (Record(r, {"completed"}) \/ CompletesQuietly)
<1>1. ASSUME NEW c \in Callers, Acts(c)
      PROVE  /\ call[c].at = "settle" /\ call[c].run = r /\ Analysed(c)
             /\ Emit(c, r) \/ CompletesQuietly
  <2>1. call[c].run \in Runs /\ RunWrite(c)
    BY <1>1, Writes
  <2>2. SetRun(call[c].run, run'[call[c].run])
    BY <1>1, <2>1 DEF RunWrite, Analysed, SetRun, TypeOK
  <2>3. call[c].run = r
    BY <2>1, <2>2 DEF SetRun, TypeOK
  <2> QED BY <2>1, <2>3 DEF RunWrite, SetRun, TypeOK, At
<1>2. ASSUME NEW s \in Runs, NEW o \in Outputs, NEW d, Decided(s, o, d)
      PROVE  s = r
  BY <1>2 DEF Decided, SetRun, TypeOK
<1>3. ASSUME NEW s \in Runs, NEW o \in Outputs, NEW n \in Runs, Retry(s, o, n)
      PROVE  ret'[r][o] = "rejected" /\ CompletesQuietly
  BY <1>3, OneReturn DEF Retry, TypeOK
<1>4. ASSUME NEW s \in Runs, CreateRunWithDispatch(s) \/ Abandoned(s) PROVE FALSE
  BY <1>4 DEF CreateRunWithDispatch, Abandoned, SetRun, TypeOK
<1> QED BY <1>1, <1>2, <1>3, <1>4, RowSteps DEF rows

LEMMA CompletedStep ==
    ASSUME TypeOK, ReviewIsArchived, CompletedHasACause, [Next]_vars
    PROVE  CompletedHasACause'
<1> SUFFICES ASSUME NEW r \in Runs, run'[r] = "completed"
             PROVE  \/ \E o \in Outputs : ret'[r][o] \in {"adopted", "rejected"}
                    \/ intent'[r] = "analyze" /\ evidence'[r] = "review"
  BY DEF CompletedHasACause
<1>1. CASE run[r] = "completed"
  <2>1. CASE \E o \in Outputs : ret[r][o] \in {"adopted", "rejected"}
    BY <2>1, ReturnsGrow
  <2>2. CASE intent[r] = "analyze" /\ evidence[r] = "review"
    BY <2>2, IntentStays, EvidenceKeepsReview
  <2> QED BY <1>1, <2>1, <2>2 DEF CompletedHasACause
<1>2. CASE run[r] # "completed"
  <2>1. ASSUME NEW c \in Callers, call[c].at = "settle", call[c].run = r, Analysed(c)
        PROVE  intent'[r] = "analyze" /\ evidence'[r] = "review"
    <3>1. intent[r] = "analyze" /\ evidence[r] = "review"
      BY <2>1 DEF Analysed, ReviewIsArchived, At
    <3> QED BY <3>1, IntentStays, EvidenceKeepsReview
  <2>2. ASSUME NEW o \in Outputs, NEW d \in {"adopted", "rejected"}, Decided(r, o, d)
        PROVE  ret'[r][o] \in {"adopted", "rejected"}
    <3>1. ret' = [ret EXCEPT ![r] = [ret[r] EXCEPT ![o] = d]]
      BY <2>2, Zenon DEF Decided, TypeOK
    <3>2. ret \in [Runs -> [Outputs -> {"none", "pending_review", "adopted", "rejected"}]]
      BY DEF TypeOK
    <3>3. ret'[r][o] = d
      BY <3>1, <3>2
    <3> QED BY <3>3
  <2> QED BY <1>2, <2>1, <2>2, Completions
<1> QED BY <1>1, <1>2

\* An exception stays one.
LEMMA ExceptionsStay == ASSUME TypeOK, [Next]_vars PROVE unannounced \subseteq unannounced'
<1> USE DEF faults
<1>1. ASSUME ForgetCalls \/ CompletesQuietly PROVE unannounced \subseteq unannounced'
  BY <1>1 DEF ForgetCalls, CompletesQuietly
<1>2. ASSUME NEW c, NEW r \in Runs, Request(c, r) \/ Sync(c, r) PROVE UNCHANGED unannounced
  BY <1>2, Starts
<1>3. ASSUME NEW r \in Runs, CreateRunWithDispatch(r) \/ CancelUnbound(r) \/ AutoSync(r)
      PROVE  UNCHANGED unannounced
  BY <1>2, <1>3 DEF CreateRunWithDispatch, CancelUnbound, AutoSync
<1>4. ASSUME NEW c \in Callers, Resume(c) \/ BridgeServes(c) \/ BridgeFails(c)
      PROVE  UNCHANGED unannounced
  BY <1>4, Resumes DEF BridgeServes, BridgeFails
<1>5. ASSUME NEW r \in Runs, NEW o \in Outputs, Review(r, o)
      PROVE  UNCHANGED unannounced \/ CompletesQuietly
  BY <1>5 DEF Review, Accept, Reject, Decide, Retry
<1>6. ASSUME AutoTick \/ AgentStep PROVE UNCHANGED unannounced
  BY <1>6 DEF AutoTick, AgentStep
<1>7. ASSUME NEW c, NEW r, NEW o, NEW d,
             Crash \/ CrashWithin(c) \/ CrashWhileAbandoning(r) \/ CrashWhileDeciding(r, o, d)
      PROVE  ForgetCalls
  BY <1>7 DEF Crash, CrashWithin, CrashWhileAbandoning, CrashWhileDeciding
<1>8. ASSUME UNCHANGED vars PROVE UNCHANGED unannounced
  BY <1>8 DEF vars
<1>9. \A c \in Clients : c \in Callers
  BY DEF Clients
<1> QED BY <1>1, <1>2, <1>3, <1>4, <1>5, <1>6, <1>7, <1>8, <1>9 DEF Next

LEMMA AnnouncedStays ==
    ASSUME TypeOK, [Next]_vars, NEW r \in Runs, "completed" \in events[r] \/ r \in unannounced
    PROVE  "completed" \in events'[r] \/ r \in unannounced'
BY EventsGrow, ExceptionsStay

LEMMA AnnouncedStep ==
    ASSUME "completed" \in Tracked, TypeOK, SeenIsAnnounced, CompletionAnnounced, [Next]_vars
    PROVE  CompletionAnnounced'
<1> SUFFICES ASSUME NEW r \in Runs, run'[r] = "completed"
             PROVE  "completed" \in events'[r] \/ r \in unannounced'
  BY DEF CompletionAnnounced
<1>1. CASE run[r] = "completed"
  BY <1>1, AnnouncedStays DEF CompletionAnnounced
<1>2. CASE run[r] # "completed"
  <2>1. CompletesQuietly => r \in unannounced'
    BY <1>2 DEF CompletesQuietly
  <2>2. ASSUME NEW c \in Callers, call[c].at = "settle", call[c].run = r, Emit(c, r)
        PROVE  "completed" \in events'[r] \/ r \in unannounced'
    <3>1. "completed" \in Phase(run'[r], ret'[r])
      BY DEF Phase
    <3>2. CASE "completed" \in call[c].before
      BY <2>2, <3>2, AnnouncedStays DEF SeenIsAnnounced
    <3>3. CASE "completed" \notin call[c].before
      BY <2>2, <3>1, <3>3 DEF Emit, Record, TypeOK
    <3> QED BY <3>2, <3>3
  <2>3. ASSUME Record(r, {"completed"}) PROVE "completed" \in events'[r]
    BY <2>3 DEF Record, TypeOK
  <2> QED BY <1>2, <2>1, <2>2, <2>3, Completions
<1> QED BY <1>1, <1>2

LEMMA SeenStep ==
    ASSUME TypeOK, AcknowledgedIsHeard, SeenIsAnnounced, CompletionAnnounced, [Next]_vars
    PROVE  SeenIsAnnounced'
<1> SUFFICES ASSUME NEW c \in Callers, call'[c].at # "idle", "completed" \in call'[c].before
             PROVE  "completed" \in events'[call'[c].run] \/ call'[c].run \in unannounced'
  BY DEF SeenIsAnnounced
<1>1. CASE call[c].at # "idle" /\ call'[c].run = call[c].run /\ call'[c].before = call[c].before
  BY <1>1, Calls, AnnouncedStays DEF SeenIsAnnounced
<1>2. CASE call'[c] = Idle
  BY <1>2 DEF Idle
<1>3. CASE Began(c)
  <2>1. call'[c].run \in Runs /\ run[call'[c].run] = "completed"
    BY <1>3 DEF Began, Phase
  <2> QED BY <2>1, AnnouncedStays DEF CompletionAnnounced
<1>4. CASE Moved(c) \/ Served(c) \/ Cut(c)
  BY <1>1, <1>4 DEF Moved, Served, Cut, Kept
<1>5. CASE call'[c] = call[c]
  BY <1>1, <1>5
<1> QED BY <1>2, <1>3, <1>4, <1>5, CallStep

-----------------------------------------------------------------------------
(* The chain a run's life is made of *)

\* Handlers work on runs that exist, only such runs are bound, and only bound runs
\* have evidence.
ChainInv ==
    /\ \A c \in Callers : call[c].at # "idle" => run[call[c].run] # "absent"
    /\ \A r \in Runs :
          /\ binding[r] # "none" => run[r] # "absent"
          /\ evidence[r] # None => binding[r] # "none"

\* A run that exists is never absent again.
LEMMA RunStays ==
    ASSUME TypeOK, [Next]_vars, NEW r \in Runs, run[r] # "absent"
    PROVE  run'[r] # "absent"
<1> USE DEF SetRun
<1>1. ASSUME NEW c \in Callers, Acts(c) PROVE run'[r] # "absent"
  BY <1>1, Writes DEF RunWrite, Analysed, TypeOK
<1>2. ASSUME NEW s \in Runs, NEW o \in Outputs, NEW n \in Runs, NEW d,
             Decided(s, o, d) \/ Retry(s, o, n)
      PROVE  run'[r] # "absent"
  BY <1>2 DEF Decided, Retry, TypeOK
<1>3. ASSUME NEW s \in Runs, CreateRunWithDispatch(s) \/ Abandoned(s)
      PROVE  run'[r] # "absent"
  BY <1>3 DEF CreateRunWithDispatch, Abandoned, TypeOK
<1> QED BY <1>1, <1>2, <1>3, RowSteps DEF rows

LEMMA ChainStep ==
    ASSUME TypeOK, AcknowledgedIsHeard, CallsAreBound, ChainInv, [Next]_vars
    PROVE  ChainInv'
<1>1. ASSUME NEW c \in Callers, call'[c].at # "idle"
      PROVE  run'[call'[c].run] # "absent"
  <2>1. CASE call[c].at # "idle" /\ call'[c].run = call[c].run
    BY <2>1, Calls, RunStays DEF ChainInv
  <2>2. CASE Began(c)
    BY <2>2, RunStays DEF Began
  <2>3. CASE call'[c] = Idle
    BY <1>1, <2>3 DEF Idle
  <2> QED BY <1>1, <2>1, <2>2, <2>3, CallStep DEF Moved, Served, Cut, Kept
<1>2. ASSUME NEW r \in Runs, binding'[r] # "none"
      PROVE  run'[r] # "absent"
  <2>1. CASE binding[r] # "none"
    BY <2>1, RunStays DEF ChainInv
  <2>2. ASSUME NEW c \in Callers, Acts(c), binding[r] = "none"
        PROVE  run'[r] # "absent"
    <3>1. call[c].run \in Runs /\ call[c].at # "idle" /\ BindingWrite(c)
      BY <2>2, Writes
    <3>2. r = call[c].run
      BY <1>2, <2>2, <3>1 DEF BindingWrite, SetBinding, TypeOK
    <3> QED BY <3>1, <3>2, RunStays DEF ChainInv
  <2>4. ASSUME NEW s \in Runs, NEW o \in Outputs, NEW n \in Runs, NEW d,
               Decided(s, o, d) \/ Retry(s, o, n)
        PROVE  binding[r] # "none"
    BY <1>2, <2>4 DEF Decided, Retry, TypeOK
  <2> QED BY <1>2, <2>1, <2>2, <2>4, RowSteps DEF rows, CreateRunWithDispatch, Abandoned
<1>3. ASSUME NEW r \in Runs, evidence'[r] # None
      PROVE  binding'[r] # "none"
  <2>1. CASE evidence[r] # None
    BY <2>1, BindingGrows DEF ChainInv
  <2>2. ASSUME NEW c \in Callers, Acts(c), evidence[r] = None
        PROVE  binding'[r] # "none"
    <3>1. call[c].run \in Runs /\ EvidenceWrite(c)
      BY <2>2, Writes
    <3>2. r = call[c].run /\ call[c].at = "archive"
      BY <1>3, <2>2, <3>1 DEF EvidenceWrite, At, TypeOK
    <3> QED BY <3>1, <3>2, BindingGrows DEF CallsAreBound, Bound
  <2> QED BY <1>3, <2>1, <2>2, RowSteps DEF rows, CreateRunWithDispatch, Abandoned,
             Decided, Retry
<1> QED BY <1>1, <1>2, <1>3 DEF ChainInv

IInv ==
    /\ TypeOK
    /\ CallsAreBound /\ RepliesFit /\ FoundTasksExist /\ AcknowledgedIsHeard
    /\ ReviewIsArchived
    /\ BoundToATask /\ AnswerReachedTheProvider /\ ReturnsComeFromReview
    /\ CompletedHasACause
    /\ ChainInv

LEMMA InitInv == Init => IInv /\ SeenIsAnnounced /\ CompletionAnnounced
<1> SUFFICES ASSUME Init PROVE IInv /\ SeenIsAnnounced /\ CompletionAnnounced
  OBVIOUS
<1>1. TypeOK
  BY LifecycleAssumption DEF Init, TypeOK, RunStatus, Binding, TaskStatus
<1>2. \A c \in Callers : call[c].at = "idle"
  BY DEF Init, Idle
<1>3. CallsAreBound /\ RepliesFit /\ FoundTasksExist /\ AcknowledgedIsHeard /\ SeenIsAnnounced
  BY <1>2 DEF CallsAreBound, RepliesFit, FoundTasksExist, AcknowledgedIsHeard,
     SeenIsAnnounced, Bound, Writing, At
<1>4. ReviewIsArchived
  BY <1>2, LifecycleAssumption DEF Init, ReviewIsArchived, At, TaskStatus
<1>5. /\ BoundToATask /\ AnswerReachedTheProvider /\ ReturnsComeFromReview
      /\ CompletedHasACause /\ CompletionAnnounced
  BY DEF Init, BoundToATask, AnswerReachedTheProvider, ReturnsComeFromReview,
     CompletedHasACause, CompletionAnnounced
<1>6. ChainInv
  BY <1>2 DEF Init, ChainInv
<1> QED BY <1>1, <1>3, <1>4, <1>5, <1>6 DEF IInv

LEMMA StepInv == IInv /\ [Next]_vars => IInv'
BY TypeStep, BoundStep, RepliesStep, FoundStep, HeardStep, ReviewStep, BoundToATaskStep,
   AnswerStep, ReturnsStep, CompletedStep, ChainStep DEF IInv

\* The inductive invariant: what each suspended handler remembers agrees with rows and
\* tasks that only grow.
THEOREM Invariance == Spec => []IInv
BY InitInv, StepInv, PTL DEF Spec

\* Every variable keeps its type, through crashes and interleaved handlers.
THEOREM TypeCorrect == Spec => []TypeOK
<1>1. IInv => TypeOK
  BY DEF IInv
<1> QED BY <1>1, Invariance, PTL

\* runtime-adapter.ts, bind(): a binding names a task the Bridge has.
THEOREM BindingsAreReal == Spec => []BoundToATask
<1>1. IInv => BoundToATask
  BY DEF IInv
<1> QED BY <1>1, Invariance, PTL

\* runtime-adapter.ts, answerInput(): a question is answered only after the Bridge
\* acknowledged the answer.
THEOREM AnswersAreDelivered == Spec => []AnswerReachedTheProvider
<1>1. IInv => AnswerReachedTheProvider
  BY DEF IInv
<1> QED BY <1>1, Invariance, PTL

\* runtime-result-ingestion.ts: every return has its file in an archived review result.
THEOREM ReturnsAreBacked == Spec => []ReturnsComeFromReview
<1>1. IInv => ReturnsComeFromReview
  BY DEF IInv
<1> QED BY <1>1, Invariance, PTL

\* runtime-adapter.ts, canonicalStatus(): no poll completes a run.
THEOREM CompletionsAreCaused == Spec => []CompletedHasACause
<1>1. IInv => CompletedHasACause
  BY DEF IInv
<1> QED BY <1>1, Invariance, PTL

\* runtime-application-service.ts, providerAction(): if completions are tracked, each is
\* recorded, though every handler compares only its own first and last reads; excepted are
\* runs completed by a retry, or in a segment that a crash cut before the event.
THEOREM CompletionsAreAnnounced ==
    ASSUME "completed" \in Tracked
    PROVE  Spec => []CompletionAnnounced
<1>1. Init => IInv /\ SeenIsAnnounced /\ CompletionAnnounced
  BY InitInv
<1>2. (IInv /\ SeenIsAnnounced /\ CompletionAnnounced) /\ [Next]_vars
        => (IInv /\ SeenIsAnnounced /\ CompletionAnnounced)'
  <2>1. IInv => TypeOK /\ AcknowledgedIsHeard
    BY DEF IInv
  <2> QED BY <2>1, StepInv, AnnouncedStep, SeenStep
<1> QED BY <1>1, <1>2, PTL DEF Spec

\* metadata-repository.ts, saveRunInputRequest(): a delayed sync reopens no question.
THEOREM AnswersAreFinal == Spec => AnswersStay
<1>1. IInv /\ [Next]_vars => [\A r \in Runs, q \in Questions :
        question[r][q] = "answered" => question'[r][q] = "answered"]_vars
  BY AnswersGrow DEF IInv
<1> QED BY <1>1, Invariance, PTL DEF Spec, AnswersStay

\* metadata-repository.ts, createRuntimeDraft(): a decided return stays decided.
THEOREM DecisionsAreFinal == Spec => DecisionsStay
<1>1. IInv /\ [Next]_vars => [\A r \in Runs, o \in Outputs :
        ret[r][o] \in {"adopted", "rejected"} => ret'[r][o] = ret[r][o]]_vars
  BY ReturnsGrow DEF IInv
<1> QED BY <1>1, Invariance, PTL DEF Spec, DecisionsStay

\* runtime-result-ingestion.ts, archiveEvidence(): evidence is written once.
THEOREM EvidenceIsImmutable == Spec => EvidenceStays
<1>1. IInv /\ [Next]_vars =>
        [\A r \in Runs : evidence[r] # None => evidence'[r] = evidence[r]]_vars
  BY EvidenceGrows DEF IInv
<1> QED BY <1>1, Invariance, PTL DEF Spec, EvidenceStays

\* A run whose task the provider has, and which is not over, is in the list that each
\* tick of the auto-sync timer goes through: the safety half of ResultsAreCollected.
ActiveRunsAreListed == \A r \in Runs : Active(r) => r \in ListRunsNeedingSync

\* auto-sync visits every status a bound run can have before it ends, waiting_input
\* included, whatever order polls, answers and crashes left the rows in.
THEOREM ActiveRunsAreVisited == Spec => []ActiveRunsAreListed
<1>1. IInv => ActiveRunsAreListed
  BY DEF IInv, ChainInv, TypeOK, RunStatus, ActiveRunsAreListed, Active, IsTerminalRunStatus,
         ListRunsNeedingSync
<1> QED BY <1>1, Invariance, PTL

-----------------------------------------------------------------------------
(* Late results.  RunLateResult.cfg shows that a run cancelled while its     *)
(* result is being ingested still gets a return.  It takes a handler that    *)
(* read the run before it was cancelled: the quarantine stops all others.    *)

\* A handler that goes on to create returns did not find its run cancelled.
QuarantineHolds == \A c \in Callers : At(c, "read") => ~call[c].cancelled

LEMMA QuarantineStep ==
    ASSUME TypeOK, AcknowledgedIsHeard, QuarantineHolds, [Next]_vars
    PROVE  QuarantineHolds'
<1> SUFFICES ASSUME NEW c \in Callers, call'[c].at = "read" PROVE ~call'[c].cancelled
  BY DEF QuarantineHolds, At
<1>1. CASE call'[c] = call[c]
  BY <1>1 DEF QuarantineHolds, At
<1>2. CASE Moved(c)
  BY <1>2 DEF Moved
<1>3. ~(Served(c) \/ Cut(c) \/ Began(c) \/ call'[c] = Idle) \/ call'[c] = call[c]
  BY DEF Served, Cut, Began, Idle, Remote, BridgeServes, ServeCreate, ServeRead, ServeAnswer,
         ServeCancel, ServeFinalize, At
<1> QED BY <1>1, <1>2, <1>3, CallStep

\* A return appears for a cancelled run only from a handler that saw it uncancelled.
LateReturnWasUnderway ==
    \A r \in Runs, o \in Outputs :
        run[r] = "cancelled" /\ ret[r][o] = "none" =>
            \/ ret'[r][o] = "none"
            \/ \E c \in Callers : At(c, "read") /\ call[c].run = r /\ ~call[c].cancelled

\* runtime-result-ingestion.ts:213 "Cancelled Run result was archived but cannot create
\* a Draft.": true of every handler that reads the run after its cancellation.
THEOREM LateReturnsWereUnderway == Spec => [][LateReturnWasUnderway]_vars
<1>1. Init => QuarantineHolds
  BY DEF Init, QuarantineHolds, At, Idle
<1>2. IInv /\ QuarantineHolds /\ [Next]_vars => QuarantineHolds'
  BY QuarantineStep DEF IInv
<1>3. IInv /\ QuarantineHolds /\ [Next]_vars => [LateReturnWasUnderway]_vars
  <2> SUFFICES ASSUME IInv, QuarantineHolds, [Next]_vars, NEW r \in Runs, NEW o \in Outputs,
                      ret[r][o] = "none"
               PROVE  \/ ret'[r][o] = "none"
                      \/ \E c \in Callers : At(c, "read") /\ call[c].run = r /\ ~call[c].cancelled
    BY DEF LateReturnWasUnderway
  <2>1. TypeOK
    BY DEF IInv
  <2>2. ASSUME NEW c \in Callers, Acts(c)
        PROVE  \/ ret'[r][o] = "none"
               \/ At(c, "read") /\ call[c].run = r /\ ~call[c].cancelled
    <3>1. ReturnWrite(c) /\ call[c].run \in Runs
      BY <2>1, <2>2, Writes
    <3>2. CASE UNCHANGED ret
      BY <3>2
    <3>3. ASSUME NEW s \in Runs, NEW p \in Outputs, NEW d \in {"pending_review"},
                 ret[s][p] = "none", ret' = [ret EXCEPT ![s][p] = d]
          PROVE  ret'[r][o] = "none" \/ (r = s /\ o = p)
      BY <2>1, <3>3, OneReturn
    <3>4. CASE UNCHANGED ret \/ At(c, "read")
      BY <3>1, <3>2, <3>3, <3>4 DEF ReturnWrite, QuarantineHolds
    <3> QED BY <3>1, <3>4 DEF ReturnWrite
  <2>3. ASSUME NEW s \in Runs, NEW p \in Outputs, NEW d \in {"adopted", "rejected"},
               \/ Decided(s, p, d)
               \/ d = "rejected" /\ \E n \in Runs : Retry(s, p, n)
        PROVE  ret'[r][o] = "none"
    <3>1. ret[s][p] = "pending_review" /\ ret' = [ret EXCEPT ![s][p] = d]
      BY <2>3 DEF Decided, Retry
    <3>2. ret'[r][o] = IF r = s /\ o = p THEN d ELSE ret[r][o]
      BY <2>1, <3>1, OneReturn
    <3> QED BY <3>1, <3>2
  <2>4. ASSUME UNCHANGED ret PROVE ret'[r][o] = "none"
    BY <2>4
  <2> QED BY <2>1, <2>2, <2>3, <2>4, RowSteps DEF rows, CreateRunWithDispatch, Abandoned
<1> QED BY <1>1, <1>2, <1>3, Invariance, PTL DEF Spec

-----------------------------------------------------------------------------
(* Refinement *)

links == <<handedOver, bound, heard, told, files, evidence, ret, done>>

LEMMA LinksStay == UNCHANGED <<rows, bridge>> => UNCHANGED links
BY DEF rows, bridge, links, handedOver, bound, told, done

\* No step moves both a row and a task.
LEMMA RowsOrBridge ==
    ASSUME TypeOK, [Next]_vars
    PROVE  UNCHANGED rows \/ UNCHANGED bridge
<1>1. ASSUME NEW c \in Callers, BridgeServes(c) PROVE UNCHANGED rows
  BY <1>1 DEF BridgeServes
<1>2. ASSUME AgentStep PROVE UNCHANGED rows
  BY <1>2 DEF AgentStep
<1> QED BY <1>1, <1>2, BridgeSteps

\* What the Bridge and its agent do to the chain.
LEMMA BridgeRefines ==
    ASSUME IInv, [Next]_vars, UNCHANGED rows
    PROVE  \/ UNCHANGED links
           \/ \E r \in Runs :
                \/ Promise!HandOver(r)
                \/ \E q \in Questions : Promise!Hear(r, q)
                \/ \E fs \in SUBSET Outputs : Promise!Submit(r, fs)
<1> DEFINE Goal == \/ UNCHANGED links
                   \/ \E r \in Runs :
                        \/ Promise!HandOver(r)
                        \/ \E q \in Questions : Promise!Hear(r, q)
                        \/ \E fs \in SUBSET Outputs : Promise!Submit(r, fs)
<1> USE DEF IInv
<1>0. UNCHANGED <<intent, bound, told, evidence, ret, done>>
  BY DEF rows, bound, told, done
<1>1. ASSUME handedOver' = handedOver, UNCHANGED <<heard, files>> PROVE Goal
  BY <1>0, <1>1 DEF links
<1>2. ASSUME UNCHANGED bridge PROVE Goal
  BY <1>1, <1>2 DEF bridge, handedOver
<1>3. ASSUME NEW c \in Callers, BridgeServes(c) PROVE Goal
  <2>1. /\ call[c].run \in Runs /\ UNCHANGED files
        /\ At(c, "answerInput") => call[c].arg \in Questions
    BY <1>3, Serves, Calls DEF AcknowledgedIsHeard
  <2>2. CASE ServeCreate(c)
    <3>1. handedOver' = handedOver \cup {call[c].run}
      BY <2>1, <2>2 DEF ServeCreate, handedOver, TypeOK
    <3>2. Promise!HandOver(call[c].run)
      BY <1>0, <2>2, <3>1 DEF ServeCreate, Promise!HandOver
    <3> QED BY <2>1, <3>2
  <2>3. CASE ServeRead(c)
    BY <1>2, <2>3 DEF ServeRead
  <2>4. CASE ServeAnswer(c)
    <3>1. handedOver' = handedOver
      BY <2>1, <2>4 DEF ServeAnswer, handedOver, TypeOK
    <3>2. CASE UNCHANGED heard
      BY <1>1, <2>1, <3>1, <3>2
    <3>3. CASE /\ task[call[c].run] = "waiting_input"
               /\ heard' = [heard EXCEPT ![call[c].run] = @ \cup {call[c].arg}]
      <4>1. Promise!Hear(call[c].run, call[c].arg)
        BY <1>0, <2>1, <3>1, <3>3 DEF Promise!Hear, handedOver
      <4> QED BY <2>1, <2>4, <4>1 DEF ServeAnswer
    <3> QED BY <2>4, <3>2, <3>3 DEF ServeAnswer
  <2>5. CASE ServeCancel(c)
    <3>1. handedOver' = handedOver
      BY <2>1, <2>5 DEF ServeCancel, handedOver, TypeOK
    <3> QED BY <1>1, <2>5, <3>1 DEF ServeCancel
  <2>6. CASE ServeFinalize(c)
    <3>1. handedOver' = handedOver
      BY <2>1, <2>6 DEF ServeFinalize, handedOver, TypeOK
    <3> QED BY <1>1, <2>6, <3>1 DEF ServeFinalize
  <2> QED BY <1>3, <2>2, <2>3, <2>4, <2>5, <2>6 DEF BridgeServes
<1>4. ASSUME AgentStep PROVE Goal
  <2>1. ASSUME NEW r \in Runs, NEW fs \in SUBSET Outputs, AgentSubmits(r, fs) PROVE Goal
    <3>1. handedOver' = handedOver /\ r \in handedOver
      BY <2>1 DEF AgentSubmits, handedOver, TypeOK
    <3>2. evidence[r] # "review"
      BY <2>1 DEF AgentSubmits, ReviewIsArchived, Submitted
    <3>3. Promise!Submit(r, fs)
      BY <1>0, <2>1, <3>1, <3>2 DEF AgentSubmits, Promise!Submit
    <3> QED BY <3>3
  <2>2. ASSUME NEW r \in Runs, NEW q, NEW s \in {"failed", "timeout"},
               AgentRuns(r) \/ AgentAsks(r, q) \/ AgentFails(r, s)
        PROVE  Goal
    <3>1. handedOver' = handedOver
      BY <2>2 DEF AgentRuns, AgentAsks, AgentFails, handedOver, TypeOK
    <3>2. UNCHANGED <<heard, files>>
      BY <2>2 DEF AgentRuns, AgentAsks, AgentFails
    <3> QED BY <1>1, <3>1, <3>2
  <2> QED BY <1>4, <2>1, <2>2 DEF AgentStep
<1> HIDE DEF Goal
<1>5. Goal
  BY <1>2, <1>3, <1>4, BridgeSteps
<1> QED BY <1>5 DEF Goal

\* A handler of a bound run leaves the set of bound runs alone.
LEMMA BoundStays ==
    ASSUME TypeOK, CallsAreBound, NEW c \in Callers, Acts(c), call[c].at \in Bound
    PROVE  bound' = bound /\ call[c].run \in bound
<1>1. call[c].run \in Runs /\ call[c].run \in bound /\ BindingWrite(c)
  BY Calls, Writes DEF Bound, CallsAreBound, bound
<1>2. binding' = binding \/ \E b : b # "none" /\ SetBinding(call[c].run, b)
  BY <1>1 DEF BindingWrite, CallsAreBound
<1> QED BY <1>1, <1>2 DEF bound, SetBinding, TypeOK

\* A status other than completed reopens a bound run, or finds it open.
LEMMA StatusRefines ==
    ASSUME TypeOK, NEW r \in Runs, r \in bound, UNCHANGED <<bound, told, evidence, ret, bridge>>,
           run' = run \/ \E s : SetRun(r, s) /\ s # "completed"
    PROVE  Promise!Reopen(r) \/ UNCHANGED links
<1>1. UNCHANGED <<handedOver, heard, files>>
  BY DEF bridge, handedOver
<1>2. done' = done \/ done' = done \ {r}
  BY DEF done, SetRun, TypeOK
<1> QED BY <1>1, <1>2 DEF Promise!Reopen, links

\* What a resumed handler does to the chain.
ChainStepOf(c) ==
    LET r == call[c].run IN
    \/ UNCHANGED links
    \/ Promise!Bind(r) \/ Promise!Conclude(r) \/ Promise!Reopen(r)
    \/ \E q \in Questions : Promise!Tell(r, q)
    \/ \E s \in Reported \ {"waiting_input"} : Promise!Archive(r, s)
    \/ \E o \in Outputs : Promise!Propose(r, o)

\* bind(): the run is bound, and was not completed before.
LEMMA BindRefines ==
    ASSUME IInv, NEW c \in Callers, call[c].run \in Runs, UNCHANGED <<question, evidence, ret, bridge>>,
           At(c, "createTask") \/ At(c, "findTask"), Got(c), call[c].reply # "absent",
           binding[call[c].run] = "none", SetBinding(call[c].run, "clear"),
           run' = run \/ \E s : SetRun(call[c].run, CanonicalStatus(s, call[c].run))
    PROVE  Promise!Bind(call[c].run)
<1> DEFINE r == call[c].run
<1> USE DEF IInv
<1>1. r \in handedOver
  BY DEF FoundTasksExist, At, Got, handedOver
<1>2. bound' = bound \cup {r}
  BY DEF bound, SetBinding, TypeOK
<1>3. run[r] # "completed"
  <2>1. evidence[r] = None
    BY DEF ChainInv
  <2>2. evidence[r] # "review"
    BY <2>1, LifecycleAssumption DEF TaskStatus
  <2> QED BY <2>2 DEF CompletedHasACause, ReturnsComeFromReview
<1>4. done' = done
  BY <1>3 DEF done, SetRun, CanonicalStatus, TypeOK
<1>5. UNCHANGED <<handedOver, heard, told, files>>
  BY DEF bridge, handedOver, told
<1> QED BY <1>1, <1>2, <1>4, <1>5 DEF Promise!Bind

LEMMA ActsRefine ==
    ASSUME IInv, NEW c \in Callers, Acts(c)
    PROVE  ChainStepOf(c)
<1> DEFINE r == call[c].run
<1> USE DEF IInv, ChainStepOf
<1>0. /\ r \in Runs /\ UNCHANGED <<intent, bridge>> /\ call[c].at # "idle"
      /\ UNCHANGED <<handedOver, heard, files>>
  BY Writes DEF bridge, handedOver
<1>1. ASSUME UNCHANGED <<run, question, evidence, ret>>, bound' = bound
      PROVE  UNCHANGED links
  BY <1>0, <1>1 DEF links, told, done
<1>2. CASE Materialized(c) \/ NotFound(c) \/ ResultPolled(c) \/ EvidenceConflict(c) \/ Fails(c)
           \/ NoResult(c) \/ Replayed(c) \/ DispatchFails(c)
  <2>1. UNCHANGED <<run, binding, question, evidence, ret>>
    BY <1>2 DEF Materialized, NotFound, ResultPolled, EvidenceConflict, Fails, NoResult, Replayed,
       DispatchFails, rows
  <2> QED BY <1>1, <2>1 DEF bound
<1>3. CASE Finalized(c) \/ Quarantine(c) \/ ContractUnsupported(c) \/ ReadOutputs(c)
  <2>1. UNCHANGED <<run, question, evidence, ret>> /\ call[c].at \in Bound
    BY <1>3 DEF Finalized, Quarantine, ContractUnsupported, ReadOutputs, Settles, At, Bound
  <2> QED BY <1>1, <2>1, BoundStays
<1>4. CASE TaskPolled(c) \/ ProviderFailed(c) \/ Cancelled(c)
  <2>1. UNCHANGED <<question, evidence, ret>> /\ call[c].at \in Bound
    BY <1>4 DEF TaskPolled, ProviderFailed, Cancelled, Settles, At, Bound
  <2>2. ASSUME NEW s, SetRun(r, CanonicalStatus(s, r))
        PROVE  run' = run \/ \E t : SetRun(r, t) /\ t # "completed"
    BY <1>0, <2>2 DEF SetRun, CanonicalStatus, TypeOK
  <2>3. run' = run \/ \E t : SetRun(r, t) /\ t # "completed"
    BY <1>4, <2>2 DEF TaskPolled, ProviderFailed, Cancelled
  <2> QED BY <1>0, <2>1, <2>3, BoundStays, StatusRefines DEF told
<1>5. ASSUME call[c].at \in Bound, Ask(r, call[c].arg), UNCHANGED <<evidence, ret>>,
             run' = run \/ SetRun(r, "waiting_input")
      PROVE  ChainStepOf(c)
  <2>2. told' = told
    <3>1. question' = [question EXCEPT ![r] = [question[r] EXCEPT ![call[c].arg] =
                          IF @ = "answered" THEN @ ELSE "pending"]]
      BY <1>5 DEF Ask
    <3>2. \A q \in Questions : question'[r][q] = "answered" <=> question[r][q] = "answered"
      BY <1>0, <3>1 DEF TypeOK
    <3>3. \A s \in Runs : s # r => question'[s] = question[s]
      BY <1>0, <3>1 DEF TypeOK
    <3> QED BY <3>2, <3>3 DEF told
  <2> QED BY <1>0, <1>5, <2>2, BoundStays, StatusRefines
<1>6. CASE Bind(c)
  <2>1. Promise!Bind(r)
    BY <1>0, <1>6, BindRefines DEF Bind
  <2> QED BY <2>1
<1>7. CASE ArchiveEvidence(c)
  <2>1. bound' = bound /\ r \in bound /\ UNCHANGED <<run, question, ret>>
    BY <1>7, BoundStays DEF ArchiveEvidence, At, Bound
  <2>2. CASE evidence' = evidence
    BY <1>1, <2>1, <2>2
  <2>3. CASE /\ call[c].reply # "waiting_input" /\ evidence[r] \in {None, call[c].reply}
             /\ evidence' = [evidence EXCEPT ![r] = call[c].reply]
    <3>1. CASE evidence[r] = None
      <4>1. call[c].reply \in Reported \ {"waiting_input"}
        BY <1>7, <2>3 DEF ArchiveEvidence, RepliesFit, At
      <4>2. UNCHANGED <<told, done>>
        BY <2>1 DEF told, done
      <4>3. Promise!Archive(r, call[c].reply)
        BY <1>0, <2>1, <2>3, <3>1, <4>2 DEF Promise!Archive
      <4> QED BY <4>1, <4>3
    <3>2. CASE evidence[r] = call[c].reply
      <4>1. evidence' = evidence
        BY <1>0, <2>3, <3>2 DEF TypeOK
      <4> QED BY <1>1, <2>1, <4>1
    <3> QED BY <2>3, <3>1, <3>2
  <2> QED BY <1>7, <2>2, <2>3 DEF ArchiveEvidence
<1>8. ASSUME At(c, "settle"), Analysed(c), UNCHANGED <<question, evidence, ret>>
      PROVE  ChainStepOf(c)
  <2>1. bound' = bound /\ SetRun(r, "completed")
    BY <1>8, BoundStays DEF Analysed, At, Bound
  <2>2. evidence[r] = "review" /\ intent[r] = "analyze"
    BY <1>8 DEF Analysed, ReviewIsArchived
  <2>3. done' = done \cup {r} /\ told' = told
    BY <1>0, <1>8, <2>1 DEF done, told, SetRun, TypeOK
  <2>4. Promise!Conclude(r)
    BY <1>0, <1>8, <2>1, <2>2, <2>3 DEF Promise!Conclude
  <2> QED BY <2>4
<1>9. ASSUME NEW o \in Outputs, Collect(c, o), UNCHANGED <<run, binding, question, evidence>>
      PROVE  ChainStepOf(c)
  <2>1. UNCHANGED <<bound, told, done>>
    BY <1>9 DEF bound, told, done
  <2>2. evidence[r] = "review" /\ intent[r] # "analyze"
    BY <1>9 DEF Collect, ReviewIsArchived
  <2>3. Promise!Propose(r, o)
    BY <1>0, <1>9, <2>1, <2>2 DEF Promise!Propose, Collect
  <2> QED BY <2>3
<1>10. CASE Answered(c)
  <2> DEFINE q == call[c].arg
  <2>1. bound' = bound /\ r \in bound /\ UNCHANGED <<evidence, ret>> /\ SetRun(r, "queued")
    BY <1>10, BoundStays DEF Answered, At, Bound
  <2>2. q \in Questions /\ q \in heard[r]
    BY <1>10 DEF Answered, AcknowledgedIsHeard
  <2>3. question' = [question EXCEPT ![r] = [question[r] EXCEPT ![q] = "answered"]]
    BY <1>10 DEF Answered
  <2>4. \A s \in Runs, p \in Questions :
          question'[s][p] = "answered" <=> question[s][p] = "answered" \/ (s = r /\ p = q)
    BY <1>0, <2>2, <2>3 DEF TypeOK
  <2>5. told' = [told EXCEPT ![r] = @ \cup {q}]
    <3>1. \A s \in Runs : {p \in Questions : question'[s][p] = "answered"} =
             IF s = r THEN told[s] \cup {q} ELSE told[s]
      BY <2>2, <2>4 DEF told
    <3>2. told' = [s \in Runs |-> IF s = r THEN told[s] \cup {q} ELSE told[s]]
      BY <3>1 DEF told
    <3> HIDE DEF q
    <3> QED BY <1>0, <3>2 DEF told
  <2>6. done' = done \ {r}
    BY <1>0, <2>1 DEF done, SetRun, TypeOK
  <2>7. Promise!Tell(r, q)
    BY <1>0, <2>1, <2>2, <2>5, <2>6 DEF Promise!Tell
  <2> QED BY <2>2, <2>7
<1> HIDE DEF ChainStepOf
<1>11. CASE \/ SaveRunInputRequest(c) \/ AnalysisCompleted(c)
            \/ \E o \in Outputs : CreateReturn(c, o)
  BY <1>5, <1>8, <1>9, <1>11
     DEF SaveRunInputRequest, AnalysisCompleted, CreateReturn, Settles, Bound, At
<1>12. CASE CrashWithin(c)
  <2>0. UNCHANGED evidence
    BY <1>12 DEF CrashWithin
  <2>1. CASE CrashWhileBinding(c)
    <3>1. Promise!Bind(r)
      BY <1>0, <2>0, <2>1, BindRefines DEF CrashWhileBinding
    <3> QED BY <3>1 DEF ChainStepOf
  <2>2. CASE CrashWhileAnswering(c) \/ CrashWhileCancelling(c)
    <3>1. UNCHANGED <<question, ret>> /\ call[c].at \in Bound
      BY <2>2 DEF CrashWhileAnswering, CrashWhileCancelling, At, Bound
    <3>2. SetRun(r, "queued") \/ SetRun(r, "cancelled")
      BY <2>2 DEF CrashWhileAnswering, CrashWhileCancelling
    <3> QED BY <1>0, <2>0, <3>1, <3>2, BoundStays, StatusRefines DEF told, ChainStepOf
  <2>3. CASE CrashAfterBinding(c)
    <3>1. UNCHANGED <<run, question, ret>> /\ call[c].at \in Bound
      BY <2>3 DEF CrashAfterBinding, At, Bound
    <3> QED BY <1>1, <2>0, <3>1, BoundStays DEF ChainStepOf
  <2>4. CASE CrashWhileSettling(c)
    <3>1. call[c].at \in Bound /\ At(c, "settle") /\ UNCHANGED ret
      BY <2>4 DEF CrashWhileSettling, At, Bound
    <3>2. CASE UNCHANGED <<run, question>>
      BY <1>1, <2>0, <3>1, <3>2, BoundStays DEF ChainStepOf
    <3>3. CASE Ask(r, call[c].arg) /\ (UNCHANGED run \/ SetRun(r, "waiting_input"))
      BY <1>5, <2>0, <3>1, <3>3
    <3>4. CASE Analysed(c) /\ UNCHANGED question
      BY <1>8, <2>0, <3>1, <3>4
    <3> QED BY <2>4, <3>2, <3>3, <3>4 DEF CrashWhileSettling
  <2>5. CASE CrashWhileCollecting(c)
    BY <1>9, <2>0, <2>5 DEF CrashWhileCollecting
  <2> QED BY <1>12, <2>1, <2>2, <2>3, <2>4, <2>5 DEF CrashWithin
<1> QED BY <1>2, <1>3, <1>4, <1>6, <1>7, <1>10, <1>11, <1>12 DEF Resume, Acts

\* A decision, by review or by retry, completes its run in the same transaction.
LEMMA DecisionRefines ==
    ASSUME IInv, NEW r \in Runs, NEW o \in Outputs, NEW d \in {"adopted", "rejected"}, NEW n \in Runs,
           Decided(r, o, d) \/ (d = "rejected" /\ Retry(r, o, n))
    PROVE  Promise!Decide(r, o, d)
<1> USE DEF IInv
<1>1. UNCHANGED <<intent, question, evidence, bridge>>
  BY DEF Decided, Retry
<1>2. UNCHANGED <<handedOver, heard, told, files>>
  BY <1>1 DEF bridge, handedOver, told
<1>3. bound' = bound
  BY DEF Decided, Retry, bound, TypeOK
<1>4. run[r] # "absent"
  <2>1. evidence[r] = "review"
    BY DEF Decided, Retry, ReturnsComeFromReview
  <2> QED BY <2>1, LifecycleAssumption DEF ChainInv, TaskStatus
<1>5. done' = done \cup {r}
  BY <1>4 DEF Decided, Retry, SetRun, done, TypeOK
<1> QED BY <1>1, <1>2, <1>3, <1>5 DEF Promise!Decide, Decided, Retry

LEMMA NextRefines == IInv /\ [Next]_vars => [Promise!Next]_<<intent, links>>
<1> SUFFICES ASSUME IInv, [Next]_vars
             PROVE  Promise!Next \/ (intent' = intent /\ UNCHANGED links)
  OBVIOUS
<1>1. TypeOK /\ intent' = intent
  BY IntentStays DEF IInv
<1>2. CASE UNCHANGED rows
  BY <1>1, <1>2, BridgeRefines DEF Promise!Next
<1>3. CASE UNCHANGED bridge
  <2>1. ASSUME NEW s \in Runs, CreateRunWithDispatch(s) \/ Abandoned(s)
        PROVE  UNCHANGED links
    <3>1. UNCHANGED <<binding, question, evidence, ret, bridge>>
      BY <2>1 DEF CreateRunWithDispatch, Abandoned
    <3>2. done' = done
      BY <1>1, <2>1 DEF CreateRunWithDispatch, Abandoned, IsTerminalRunStatus, SetRun, done, TypeOK
    <3> QED BY <3>1, <3>2 DEF links, bridge, handedOver, bound, told
  <2>2. ASSUME NEW c \in Callers, Acts(c)
        PROVE  Promise!Next \/ UNCHANGED links
    <3>1. call[c].run \in Runs /\ ChainStepOf(c)
      BY <1>1, <2>2, ActsRefine, Writes
    <3> QED BY <1>1, <3>1 DEF ChainStepOf, Promise!Next
  <2>3. ASSUME NEW r \in Runs, NEW o \in Outputs, NEW d \in {"adopted", "rejected"}, Decided(r, o, d)
        PROVE  Promise!Next
    BY <1>1, <2>3, DecisionRefines DEF Promise!Next
  <2>4. ASSUME NEW r \in Runs, NEW o \in Outputs, NEW n \in Runs, Retry(r, o, n)
        PROVE  Promise!Next
    BY <1>1, <2>4, DecisionRefines DEF Promise!Next
  <2>7. CASE UNCHANGED rows
    <3>1. UNCHANGED links
      BY <1>3, <2>7, LinksStay
    <3> QED BY <1>1, <3>1
  <2> QED BY <1>1, <2>1, <2>2, <2>3, <2>4, <2>7, RowSteps
<1> QED BY <1>1, <1>2, <1>3, RowsOrBridge

LEMMA InitRefines == Init => Promise!Init
<1> SUFFICES ASSUME Init PROVE Promise!Init
  OBVIOUS
<1>1. handedOver = {} /\ bound = {} /\ done = {}
  BY DEF Init, handedOver, bound, done
<1>2. told = [r \in Runs |-> {}]
  BY DEF Init, told
<1> QED BY <1>1, <1>2 DEF Promise!Init, Init

\* ImplementsPromise: through crashes, lost replies and concurrent handlers, the life of
\* each run is a chain of links made once and in order.
THEOREM RefinesPromise == Spec => ImplementsPromise
BY InitRefines, NextRefines, Invariance, PTL
   DEF Spec, ImplementsPromise, Promise!Spec, Promise!link, links

===============================================================================
