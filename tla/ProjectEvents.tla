----------------------------- MODULE ProjectEvents -----------------------------
(***************************************************************************)
(* The project event stream: project-event-hub.ts, the bounded buffer of   *)
(* one project inside one process, and the SSE route that serves it        *)
(* (routes/project-events.ts).  Nothing of the hub survives its process,   *)
(* which tells its successor's stream apart by a fresh runtimeId.          *)
(*                                                                         *)
(* The client is outside the repository: it is modelled from the contract  *)
(* of ProjectEventEnvelope, ProjectEventSnapshotV1 and the reconnect       *)
(* query.  It remembers the last sequence number it saw and under which    *)
(* runtime, and sends both when it reconnects.                             *)
(***************************************************************************)
EXTENDS Naturals, Sequences

CONSTANTS
    Clients,
    Capacity,      \* maxEventsPerProject
    MaxRuntimes,   \* bound on processes, one after the other
    MaxSeq         \* bound on the events a process publishes

ASSUME EventsAssumption ==
    /\ Capacity \in Nat \ {0}
    /\ MaxRuntimes \in Nat \ {0}
    /\ MaxSeq \in Nat

VARIABLES
    runtime,   \* the process that runs; its number stands for its runtimeId
    seq,       \* nextSeq - 1 of each process; those of dead processes are history
    first,     \* the buffer holds the events first..seq[runtime]
    listening, \* the connections whose listener is registered with the hub
    wire,      \* the frames written to each connection and not yet read
    view       \* per client: runtimeId, last sequence number, events it accounts for

vars == <<runtime, seq, first, listening, wire, view>>

Runtimes == 1..MaxRuntimes
Frame == [kind : {"snapshot", "replay", "project-event"},
          runtime : Runtimes, from : Nat, to : Nat]

TypeOK ==
    /\ runtime \in Runtimes
    /\ seq \in [Runtimes -> Nat]
    /\ first \in Nat \ {0}
    /\ listening \subseteq Clients
    /\ wire \in [Clients -> Seq(Frame)]
    /\ view \in [Clients -> [runtime : 0..MaxRuntimes, last : Nat, known : SUBSET Nat]]

Init ==
    /\ runtime = 1
    /\ seq = [k \in Runtimes |-> 0]
    /\ first = 1
    /\ listening = {}
    /\ wire = [c \in Clients |-> <<>>]
    /\ view = [c \in Clients |-> [runtime |-> 0, last |-> 0, known |-> {}]]

-----------------------------------------------------------------------------
(* The hub *)

Event(n) == [kind |-> "project-event", runtime |-> runtime, from |-> n, to |-> n]

\* publish(): append, trim by count and by age (the age cut-off may take any
\* prefix but the event just stamped), then call every listener.
PublishUntilThrow(n) ==
    /\ n = seq[runtime] + 1 /\ n <= MaxSeq
    /\ seq' = [seq EXCEPT ![runtime] = n]
    /\ first' \in {f \in first..n : n - f < Capacity}
    /\ \E reached \in SUBSET listening :
          wire' = [c \in Clients |->
                     IF c \in reached THEN Append(wire[c], Event(n)) ELSE wire[c]]
    /\ UNCHANGED <<runtime, listening, view>>
Publish(n) ==
    /\ n = seq[runtime] + 1 /\ n <= MaxSeq
    /\ seq' = [seq EXCEPT ![runtime] = n]
    /\ first' \in {f \in first..n : n - f < Capacity}
    /\ wire' = [c \in Clients |->
                  IF c \in listening THEN Append(wire[c], Event(n)) ELSE wire[c]]
    /\ UNCHANGED <<runtime, listening, view>>

\* reconnect(): the whole suffix, or nothing but the request for a snapshot.
ReplayableByOne(v) == v.runtime = runtime /\ seq[runtime] >= first /\ v.last + 2 >= first
ReplayableAcrossRestart(v) == v.runtime # 0 /\ seq[runtime] >= first /\ v.last + 1 >= first
Replayable(v) == v.runtime = runtime /\ seq[runtime] >= first /\ v.last + 1 >= first

-----------------------------------------------------------------------------
(* The route: subscribe and answer in one segment, so no event falls between *)

\* Oldest buffered event beyond lastSeen.
NextFor(v) == IF v.last + 1 >= first THEN v.last + 1 ELSE first

\* A first connection sends no lastSeenProjectSeq and gets a snapshot.
Greeting(v) ==
    IF Replayable(v)
    THEN [kind |-> "replay", runtime |-> runtime, from |-> NextFor(v), to |-> seq[runtime]]
    ELSE [kind |-> "snapshot", runtime |-> runtime, from |-> 0, to |-> seq[runtime]]

Connect(c) ==
    /\ c \notin listening
    /\ listening' = listening \cup {c}
    /\ wire' = [wire EXCEPT ![c] = <<Greeting(view[c])>>]
    /\ UNCHANGED <<runtime, seq, first, view>>

Disconnect(c) ==
    /\ c \in listening
    /\ listening' = listening \ {c}
    /\ wire' = [wire EXCEPT ![c] = <<>>]
    /\ UNCHANGED <<runtime, seq, first, view>>

\* The process dies with the hub; what it has written can still be read.
Restart ==
    /\ runtime < MaxRuntimes
    /\ runtime' = runtime + 1
    /\ first' = 1
    /\ listening' = {}
    /\ UNCHANGED <<seq, wire, view>>

-----------------------------------------------------------------------------
(* The client *)

\* A snapshot stands for everything up to currentSeq; events are added one by one.
Read(v, f) ==
    [runtime |-> f.runtime, last |-> f.to,
     known |-> IF f.kind = "snapshot" THEN 1..f.to ELSE v.known \cup f.from..f.to]

Deliver(c) ==
    /\ wire[c] # <<>>
    /\ view' = [view EXCEPT ![c] = Read(@, Head(wire[c]))]
    /\ wire' = [wire EXCEPT ![c] = Tail(@)]
    /\ UNCHANGED <<runtime, seq, first, listening>>

-----------------------------------------------------------------------------
Next ==
    \/ \E n \in 1..MaxSeq : Publish(n)
    \/ Restart
    \/ \E c \in Clients : Connect(c) \/ Disconnect(c) \/ Deliver(c)

Spec == Init /\ [][Next]_vars

\* TCP delivers what was written to a connection that stays up.
FairSpec == Spec /\ \A c \in Clients : WF_vars(Deliver(c))

-----------------------------------------------------------------------------
(* Properties *)

\* A client never believes it is up to date with a hole behind it: after trims of
\* the buffer, reconnections and restarts it accounts for every event up to `last`.
NoGap == \A c \in Clients : view[c].known = 1..view[c].last

\* A client that is connected and has read everything is at the head of the log of
\* the process that runs, so a change it missed can only be one still in flight.
CaughtUp ==
    \A c \in listening :
        wire[c] = <<>> => view[c].runtime = runtime /\ view[c].last = seq[runtime]

\* The stream implements the log: views are prefixes and move only forward, also
\* across processes, when the sequence numbers start again at 1.
Log == INSTANCE EventLog WITH Clients <- Clients, Runtimes <- Runtimes,
                             runtime <- runtime, seq <- seq, view <- view
ImplementsLog == Log!Spec

\* An event published while a client is connected reaches it, unless the
\* connection drops first.
EventsArrive ==
    \A c \in Clients : \A n \in 1..MaxSeq :
        c \in listening /\ seq[runtime] >= n
          ~> c \notin listening \/ view[c].last >= n

-----------------------------------------------------------------------------
(* The inductive invariant behind the properties above *)

\* What a connection carries continues the view: the first frame follows it, and
\* each event follows the frame before, up to the head of the log if still listening.
Follows(v, f) ==
    IF f.kind = "snapshot"
    THEN f.runtime >= v.runtime /\ (f.runtime = v.runtime => f.to >= v.last)
    ELSE f.runtime = v.runtime /\ f.from = v.last + 1 /\ f.to >= v.last

Extends(f, g) ==
    /\ g.kind = "project-event" /\ g.runtime = f.runtime
    /\ g.from = f.to + 1 /\ g.to = f.to + 1

Published(k, n) == IF k = 0 THEN n = 0 ELSE k <= runtime /\ n <= seq[k]

ViewInv(c) ==
    /\ view[c].known = 1..view[c].last
    /\ Published(view[c].runtime, view[c].last)
    /\ c \in listening /\ wire[c] = <<>> =>
          view[c].runtime = runtime /\ view[c].last = seq[runtime]

WireInv(c) ==
    /\ \A i \in 1..Len(wire[c]) : Published(wire[c][i].runtime, wire[c][i].to)
    /\ \A i \in 1..Len(wire[c]) : i > 1 => Extends(wire[c][i - 1], wire[c][i])
    /\ wire[c] # <<>> => Follows(view[c], wire[c][1])
    /\ c \in listening /\ wire[c] # <<>> =>
          /\ wire[c][Len(wire[c])].runtime = runtime
          /\ wire[c][Len(wire[c])].to = seq[runtime]

StreamInv ==
    /\ TypeOK
    /\ first <= seq[runtime] + 1
    /\ \A k \in Runtimes : k > runtime => seq[k] = 0
    /\ \A c \in Clients : ViewInv(c) /\ WireInv(c)

===============================================================================
