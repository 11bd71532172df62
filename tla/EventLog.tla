------------------------------- MODULE EventLog -------------------------------
(***************************************************************************)
(* What the project event stream promises a client: its view is always the *)
(* log of one process up to some point, without a hole, and it only moves  *)
(* forward, event by event or by a snapshot.                               *)
(***************************************************************************)
EXTENDS Naturals

CONSTANTS Clients, Runtimes

VARIABLES
    runtime,   \* the process that is running
    seq,       \* the events each process has published
    view       \* what each client has

Upto(k, n) == [runtime |-> k, last |-> n, known |-> 1..n]

Init ==
    /\ runtime = 1
    /\ seq = [k \in Runtimes |-> 0]
    /\ view = [c \in Clients |-> Upto(0, 0)]

Publish ==
    /\ seq' = [seq EXCEPT ![runtime] = @ + 1]
    /\ UNCHANGED <<runtime, view>>

Restart ==
    /\ runtime + 1 \in Runtimes
    /\ runtime' = runtime + 1
    /\ UNCHANGED <<seq, view>>

Learn(c) ==
    /\ \E k \in Runtimes : \E n \in 0..seq[k] :
          /\ k >= view[c].runtime
          /\ k = view[c].runtime => n >= view[c].last
          /\ view' = [view EXCEPT ![c] = Upto(k, n)]
    /\ UNCHANGED <<runtime, seq>>

Next == Publish \/ Restart \/ \E c \in Clients : Learn(c)

Spec == Init /\ [][Next]_<<runtime, seq, view>>

===============================================================================
