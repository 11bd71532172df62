------------------------- MODULE ProjectEventsProofs -------------------------
(***************************************************************************)
(* Proofs about ProjectEvents: the inductive invariant StreamInv, the two  *)
(* safety properties that follow from it, and the refinement of EventLog.  *)
(***************************************************************************)
EXTENDS ProjectEvents, SequenceTheorems, TLAPS

\* What a connection carries after one more frame.
LEMMA AppendFrame ==
    ASSUME NEW S, NEW s \in Seq(S), NEW e \in S
    PROVE  /\ Append(s, e) \in Seq(S)
           /\ Append(s, e) # <<>>
           /\ Len(Append(s, e)) = Len(s) + 1
           /\ Append(s, e)[Len(s) + 1] = e
           /\ \A i \in 1..Len(s) : Append(s, e)[i] = s[i]
  OBVIOUS

\* What a connection carries after its first frame has been read.
LEMMA TailFrame ==
    ASSUME NEW S, NEW s \in Seq(S), s # <<>>
    PROVE  /\ Tail(s) \in Seq(S)
           /\ Len(s) \in Nat /\ Len(s) >= 1
           /\ Len(Tail(s)) = Len(s) - 1
           /\ Head(s) = s[1]
           /\ Head(s) \in S
           /\ \A i \in 1..Len(Tail(s)) : Tail(s)[i] = s[i + 1]
           /\ Tail(s) = <<>> => Len(s) = 1
           /\ Tail(s) # <<>> => Len(s) >= 2
  <1>1. /\ Tail(s) \in Seq(S) /\ Len(Tail(s)) = Len(s) - 1 /\ Head(s) \in S
        /\ \A i \in 1..Len(Tail(s)) : Tail(s)[i] = s[i + 1]
    BY HeadTailProperties
  <1>2. Len(s) \in Nat \ {0}
    BY EmptySeq
  <1>3. Head(s) = s[1]
    OBVIOUS
  <1>4. Tail(s) = <<>> => Len(Tail(s)) = 0
    BY EmptySeq
  <1>5. Tail(s) # <<>> => Len(Tail(s)) \in Nat \ {0}
    BY <1>1, EmptySeq
  <1>6. (Tail(s) = <<>> => Len(s) = 1) /\ (Tail(s) # <<>> => Len(s) >= 2)
    BY <1>1, <1>2, <1>4, <1>5
  <1> QED BY <1>1, <1>2, <1>3, <1>6

\* A frame in flight is a frame.
LEMMA FrameAt ==
    ASSUME EventsAssumption, NEW s \in Seq(Frame), NEW i \in 1..Len(s)
    PROVE  /\ s[i] \in Frame
           /\ s[i].runtime \in Runtimes /\ s[i].runtime \in Nat /\ s[i].runtime # 0
           /\ s[i].to \in Nat
  <1>1. s[i] \in Frame BY ElementOfSeq
  <1> QED BY <1>1, EventsAssumption DEF Frame, Runtimes

LEMMA InitStream == Init => StreamInv
  <1> SUFFICES ASSUME Init PROVE StreamInv
    OBVIOUS
  <1>1. 1 \in Runtimes /\ 1..0 = {}
    BY EventsAssumption DEF Runtimes
  <1>2. <<>> \in Seq(Frame) /\ Len(<<>>) = 0
    BY EmptySeq
  <1>3. TypeOK
    BY <1>1, <1>2, EventsAssumption DEF Init, TypeOK
  <1>4. \A c \in Clients : ViewInv(c) /\ WireInv(c)
    BY <1>1, <1>2 DEF Init, ViewInv, WireInv, Published
  <1> QED BY <1>1, <1>3, <1>4 DEF Init, StreamInv

LEMMA PublishInv ==
    ASSUME StreamInv, NEW n \in 1..MaxSeq, Publish(n)
    PROVE  StreamInv'
  <1>1. /\ n = seq[runtime] + 1 /\ seq' = [seq EXCEPT ![runtime] = n]
        /\ runtime' = runtime /\ runtime \in Runtimes /\ runtime \in Nat \ {0}
        /\ listening' = listening /\ view' = view
        /\ seq \in [Runtimes -> Nat] /\ n \in Nat \ {0}
    BY EventsAssumption DEF StreamInv, TypeOK, Publish, Runtimes
  <1>2. seq' \in [Runtimes -> Nat] /\ seq'[runtime] = n
        /\ \A k \in Runtimes : seq'[k] >= seq[k]
    BY <1>1
  <1>3. first' \in Nat \ {0} /\ first' <= n
    BY <1>1 DEF Publish, StreamInv, TypeOK
  <1>4. Event(n) \in Frame
    BY <1>1 DEF Event, Frame
  <1>5. ASSUME NEW c \in Clients
        PROVE  wire'[c] \in Seq(Frame) /\ ViewInv(c)' /\ WireInv(c)'
    <2>1. wire[c] \in Seq(Frame) /\ ViewInv(c) /\ WireInv(c)
          /\ view[c] \in [runtime : 0..MaxRuntimes, last : Nat, known : SUBSET Nat]
      BY DEF StreamInv, TypeOK
    <2>2. \A k \in 0..MaxRuntimes, m \in Nat : Published(k, m) => Published(k, m)'
      BY <1>1, <1>2, EventsAssumption DEF Published, Runtimes
    <2>6. \A i \in 1..Len(wire[c]) :
             wire[c][i].runtime \in 0..MaxRuntimes /\ wire[c][i].to \in Nat
      BY <2>1, FrameAt, EventsAssumption DEF Runtimes
    <2>3. Published(view[c].runtime, view[c].last)'
      BY <1>1, <2>1, <2>2 DEF ViewInv
    <2>4. CASE c \notin listening
      <3>1. wire'[c] = wire[c] BY <2>4 DEF Publish
      <3>2. \A i \in 1..Len(wire'[c]) : Published(wire[c][i].runtime, wire[c][i].to)'
        BY <3>1, <2>1, <2>2, <2>6 DEF WireInv
      <3> QED BY <3>1, <3>2, <2>1, <2>3, <2>4, <1>1 DEF ViewInv, WireInv
    <2>5. CASE c \in listening
      <3>1. wire'[c] = Append(wire[c], Event(n)) BY <2>5 DEF Publish
      <3>2. /\ wire'[c] \in Seq(Frame) /\ wire'[c] # <<>>
            /\ Len(wire'[c]) = Len(wire[c]) + 1
            /\ wire'[c][Len(wire[c]) + 1] = Event(n)
            /\ \A i \in 1..Len(wire[c]) : wire'[c][i] = wire[c][i]
        BY <3>1, <2>1, <1>4, AppendFrame
      <3>3. Len(wire[c]) \in Nat BY <2>1
      <3>4. ViewInv(c)'
        BY <1>1, <2>1, <2>3, <3>2 DEF ViewInv
      <3>5. \A i \in 1..Len(wire'[c]) : Published(wire[c][i].runtime, wire[c][i].to)'
        <4> TAKE i \in 1..Len(wire'[c])
        <4>1. CASE i = Len(wire[c]) + 1
          <5>1. wire'[c][i].runtime = runtime /\ wire'[c][i].to = n
            BY <4>1, <3>2 DEF Event
          <5> QED BY <5>1, <1>1, <1>2 DEF Published
        <4>2. CASE i \in 1..Len(wire[c])
          BY <4>2, <3>2, <2>1, <2>2, <2>6 DEF WireInv
        <4> QED BY <4>1, <4>2, <3>2, <3>3
      <3>6. \A i \in 1..Len(wire'[c]) : i > 1 => Extends(wire'[c][i - 1], wire'[c][i])
        <4> SUFFICES ASSUME NEW i \in 1..Len(wire'[c]), i > 1
                     PROVE  Extends(wire'[c][i - 1], wire'[c][i])
          OBVIOUS
        <4>1. CASE i = Len(wire[c]) + 1
          <5>1. wire'[c][i - 1] = wire[c][Len(wire[c])] /\ wire[c] # <<>>
            BY <4>1, <3>2, <3>3
          <5>2. wire[c][Len(wire[c])].runtime = runtime /\ wire[c][Len(wire[c])].to = seq[runtime]
            BY <5>1, <2>1, <2>5 DEF WireInv
          <5> QED BY <4>1, <5>1, <5>2, <3>2, <1>1 DEF Extends, Event
        <4>2. CASE i \in 1..Len(wire[c])
          <5>1. wire'[c][i - 1] = wire[c][i - 1] /\ wire'[c][i] = wire[c][i]
            BY <4>2, <3>2, <3>3
          <5> QED BY <4>2, <5>1, <2>1 DEF WireInv
        <4> QED BY <4>1, <4>2, <3>2, <3>3
      <3>7. Follows(view'[c], wire'[c][1])
        <4>1. CASE wire[c] = <<>>
          <5>1. wire'[c][1] = Event(n) BY <4>1, <3>2
          <5>2. view[c].runtime = runtime /\ view[c].last = seq[runtime]
            BY <4>1, <2>1, <2>5 DEF ViewInv
          <5> QED BY <5>1, <5>2, <1>1 DEF Follows, Event
        <4>2. CASE wire[c] # <<>>
          <5>1. wire'[c][1] = wire[c][1] BY <4>2, <3>2, <2>1
          <5> QED BY <4>2, <5>1, <2>1, <1>1 DEF WireInv
        <4> QED BY <4>1, <4>2
      <3>8. wire'[c][Len(wire'[c])].runtime = runtime' /\ wire'[c][Len(wire'[c])].to = seq'[runtime']
        BY <3>2, <1>1, <1>2 DEF Event
      <3> QED BY <3>2, <3>4, <3>5, <3>6, <3>7, <3>8 DEF WireInv
    <2> QED BY <2>4, <2>5
  <1>6. wire' \in [Clients -> Seq(Frame)]
    BY <1>5 DEF Publish
  <1>7. TypeOK'
    BY <1>1, <1>2, <1>3, <1>6 DEF TypeOK, StreamInv
  <1>8. first' <= seq'[runtime'] + 1 /\ \A k \in Runtimes : k > runtime' => seq'[k] = 0
    BY <1>1, <1>2, <1>3 DEF StreamInv, Runtimes
  <1> QED BY <1>5, <1>7, <1>8 DEF StreamInv

\* The greeting is a frame of the running process that follows the client's view.
LEMMA GreetingFollows ==
    ASSUME StreamInv, NEW c \in Clients
    PROVE  /\ Greeting(view[c]) \in Frame
           /\ Greeting(view[c]).runtime = runtime
           /\ Greeting(view[c]).to = seq[runtime]
           /\ Follows(view[c], Greeting(view[c]))
  <1> DEFINE v == view[c]
  <1>1. /\ v \in [runtime : 0..MaxRuntimes, last : Nat, known : SUBSET Nat]
        /\ runtime \in Runtimes /\ seq[runtime] \in Nat
        /\ Published(v.runtime, v.last)
    BY DEF StreamInv, TypeOK, ViewInv
  <1>2. runtime \in 1..MaxRuntimes BY <1>1 DEF Runtimes
  <1>3. CASE Replayable(v)
    <2>1. v.runtime = runtime /\ v.last <= seq[runtime] /\ NextFor(v) = v.last + 1
      BY <1>3, <1>1, <1>2, EventsAssumption DEF Replayable, Published, NextFor
    <2> QED BY <1>1, <1>3, <2>1 DEF Greeting, Frame, Follows
  <1>4. CASE ~Replayable(v)
    <2>1. v.runtime <= runtime /\ (v.runtime = runtime => v.last <= seq[runtime])
      BY <1>1, <1>2, EventsAssumption DEF Published
    <2> QED BY <1>1, <1>4, <2>1, EventsAssumption DEF Greeting, Frame, Follows
  <1> QED BY <1>3, <1>4

LEMMA ConnectInv ==
    ASSUME StreamInv, NEW c \in Clients, Connect(c)
    PROVE  StreamInv'
  <1>1. /\ runtime' = runtime /\ seq' = seq /\ first' = first /\ view' = view
        /\ listening' = listening \cup {c}
        /\ wire' = [wire EXCEPT ![c] = <<Greeting(view[c])>>]
    BY DEF Connect
  <1>2. wire \in [Clients -> Seq(Frame)]
    BY DEF StreamInv, TypeOK
  <1>3. Greeting(view[c]) \in Frame
    BY GreetingFollows
  <1>4. TypeOK'
    BY <1>1, <1>2, <1>3 DEF StreamInv, TypeOK
  <1>5. ASSUME NEW d \in Clients PROVE ViewInv(d)' /\ WireInv(d)'
    <2>1. CASE d = c
      <3>1. wire'[d] = <<Greeting(view[c])>> BY <2>1, <1>1, <1>2
      <3>2. Len(wire'[d]) = 1 /\ wire'[d][1] = Greeting(view[c]) /\ wire'[d] # <<>>
        BY <3>1
      <3>3. runtime \in Nat \ {0} /\ seq[runtime] \in Nat
        BY EventsAssumption DEF StreamInv, TypeOK, Runtimes
      <3>4. Published(runtime, seq[runtime])
        BY <3>3 DEF Published
      <3>5. ViewInv(d)'
        BY <3>2, <2>1, <1>1 DEF StreamInv, ViewInv, Published
      <3>6. WireInv(d)'
        BY <3>2, <3>4, <2>1, <1>1, GreetingFollows DEF WireInv, Published
      <3> QED BY <3>5, <3>6
    <2>2. CASE d # c
      BY <2>2, <1>1, <1>2 DEF StreamInv, ViewInv, WireInv, Published
    <2> QED BY <2>1, <2>2
  <1> QED BY <1>1, <1>4, <1>5 DEF StreamInv

LEMMA DisconnectInv ==
    ASSUME StreamInv, NEW c \in Clients, Disconnect(c)
    PROVE  StreamInv'
  <1>1. /\ runtime' = runtime /\ seq' = seq /\ first' = first /\ view' = view
        /\ listening' = listening \ {c}
        /\ wire' = [wire EXCEPT ![c] = <<>>]
    BY DEF Disconnect
  <1>2. wire \in [Clients -> Seq(Frame)]
    BY DEF StreamInv, TypeOK
  <1>3. TypeOK'
    BY <1>1, <1>2 DEF StreamInv, TypeOK
  <1>4. ASSUME NEW d \in Clients PROVE ViewInv(d)' /\ WireInv(d)'
    <2>1. CASE d = c
      BY <2>1, <1>1, <1>2 DEF StreamInv, ViewInv, WireInv, Published
    <2>2. CASE d # c
      BY <2>2, <1>1, <1>2 DEF StreamInv, ViewInv, WireInv, Published
    <2> QED BY <2>1, <2>2
  <1> QED BY <1>1, <1>3, <1>4 DEF StreamInv

LEMMA RestartInv ==
    ASSUME StreamInv, Restart
    PROVE  StreamInv'
  <1>1. /\ runtime < MaxRuntimes /\ runtime' = runtime + 1 /\ first' = 1 /\ listening' = {}
        /\ seq' = seq /\ wire' = wire /\ view' = view
    BY DEF Restart
  <1>2. runtime \in 1..MaxRuntimes /\ runtime' \in 1..MaxRuntimes
    BY <1>1, EventsAssumption DEF StreamInv, TypeOK, Runtimes
  <1>3. TypeOK'
    BY <1>1, <1>2 DEF StreamInv, TypeOK, Runtimes
  <1>4. seq[runtime'] = 0 /\ \A k \in Runtimes : k > runtime' => seq[k] = 0
    BY <1>1, <1>2, EventsAssumption DEF StreamInv, Runtimes
  <1>5. \A k \in 0..MaxRuntimes, m \in Nat : Published(k, m) => Published(k, m)'
    BY <1>1, <1>2, EventsAssumption DEF Published
  <1>6. ASSUME NEW c \in Clients PROVE ViewInv(c)' /\ WireInv(c)'
    <2>1. wire[c] \in Seq(Frame) /\ ViewInv(c) /\ WireInv(c)
          /\ view[c] \in [runtime : 0..MaxRuntimes, last : Nat, known : SUBSET Nat]
      BY DEF StreamInv, TypeOK
    <2>2. ViewInv(c)'
      BY <1>1, <1>5, <2>1 DEF ViewInv
    <2>6. \A i \in 1..Len(wire[c]) :
             wire[c][i].runtime \in 0..MaxRuntimes /\ wire[c][i].to \in Nat
      BY <2>1, FrameAt, EventsAssumption DEF Runtimes
    <2>3. \A i \in 1..Len(wire'[c]) : Published(wire[c][i].runtime, wire[c][i].to)'
      BY <1>1, <1>5, <2>1, <2>6 DEF WireInv
    <2> QED BY <1>1, <2>1, <2>2, <2>3 DEF WireInv
  <1> QED BY <1>1, <1>3, <1>4, <1>6 DEF StreamInv

\* Reading a frame that follows the view leaves the client with a longer prefix.
LEMMA ReadFollows ==
    ASSUME EventsAssumption,
           NEW v \in [runtime : 0..MaxRuntimes, last : Nat, known : SUBSET Nat],
           NEW f \in Frame,
           v.known = 1..v.last, Follows(v, f)
    PROVE  /\ Read(v, f) = [runtime |-> f.runtime, last |-> f.to, known |-> 1..f.to]
           /\ f.runtime >= v.runtime
           /\ f.runtime = v.runtime => f.to >= v.last
  <1>1. CASE f.kind = "snapshot"
    BY <1>1 DEF Read, Follows
  <1>2. CASE f.kind # "snapshot"
    <2>1. f.runtime = v.runtime /\ f.from = v.last + 1 /\ f.to >= v.last
      BY <1>2 DEF Follows
    <2>2. v.last \in Nat /\ f.to \in Nat BY DEF Frame
    <2>3. (1..v.last) \cup (v.last + 1)..f.to = 1..f.to
      BY <2>1, <2>2
    <2>4. v.runtime \in Nat BY EventsAssumption
    <2>5. v.known \cup f.from..f.to = 1..f.to
      BY <2>1, <2>3
    <2>6. Read(v, f) = [runtime |-> f.runtime, last |-> f.to, known |-> 1..f.to]
      BY <1>2, <2>5 DEF Read
    <2> QED BY <2>1, <2>4, <2>6
  <1> QED BY <1>1, <1>2

\* Deliver reads the first frame, which follows the view.
LEMMA DeliverReads ==
    ASSUME StreamInv, NEW c \in Clients, Deliver(c)
    PROVE  LET f == wire[c][1] IN
           /\ f \in Frame /\ Published(f.runtime, f.to)
           /\ view' = [view EXCEPT ![c] = [runtime |-> f.runtime, last |-> f.to, known |-> 1..f.to]]
           /\ f.runtime >= view[c].runtime
           /\ f.runtime = view[c].runtime => f.to >= view[c].last
  <1>1. /\ wire[c] \in Seq(Frame) /\ wire[c] # <<>> /\ ViewInv(c) /\ WireInv(c)
        /\ view[c] \in [runtime : 0..MaxRuntimes, last : Nat, known : SUBSET Nat]
        /\ view' = [view EXCEPT ![c] = Read(view[c], Head(wire[c]))]
    BY DEF StreamInv, TypeOK, Deliver
  <1>2. Head(wire[c]) = wire[c][1] /\ wire[c][1] \in Frame /\ 1 \in 1..Len(wire[c])
    BY <1>1, TailFrame
  <1>3. Published(wire[c][1].runtime, wire[c][1].to) /\ Follows(view[c], wire[c][1])
    BY <1>1, <1>2 DEF WireInv
  <1> QED BY <1>1, <1>2, <1>3, ReadFollows, EventsAssumption DEF ViewInv

LEMMA DeliverInv ==
    ASSUME StreamInv, NEW c \in Clients, Deliver(c)
    PROVE  StreamInv'
  <1> DEFINE f == wire[c][1]
  <1>1. /\ runtime' = runtime /\ seq' = seq /\ first' = first /\ listening' = listening
        /\ wire' = [wire EXCEPT ![c] = Tail(wire[c])] /\ wire[c] # <<>>
    BY DEF Deliver
  <1>2. /\ f \in Frame /\ Published(f.runtime, f.to)
        /\ view' = [view EXCEPT ![c] = [runtime |-> f.runtime, last |-> f.to, known |-> 1..f.to]]
    BY DeliverReads
  <1>3. wire \in [Clients -> Seq(Frame)] /\ wire[c] \in Seq(Frame)
        /\ view \in [Clients -> [runtime : 0..MaxRuntimes, last : Nat, known : SUBSET Nat]]
    BY DEF StreamInv, TypeOK
  <1>4. /\ Tail(wire[c]) \in Seq(Frame)
        /\ Len(wire[c]) \in Nat /\ Len(wire[c]) >= 1
        /\ Len(Tail(wire[c])) = Len(wire[c]) - 1
        /\ \A i \in 1..Len(Tail(wire[c])) : Tail(wire[c])[i] = wire[c][i + 1]
        /\ Tail(wire[c]) = <<>> => Len(wire[c]) = 1
        /\ Tail(wire[c]) # <<>> => Len(wire[c]) >= 2
    BY <1>1, <1>3, TailFrame
  <1>5. /\ f.runtime \in 0..MaxRuntimes /\ f.runtime # 0 /\ f.to \in Nat
        /\ 1..f.to \in SUBSET Nat
    BY <1>2, EventsAssumption DEF Frame, Runtimes
  <1>6. TypeOK'
    BY <1>1, <1>2, <1>3, <1>4, <1>5 DEF StreamInv, TypeOK
  <1>7. ViewInv(c) /\ WireInv(c) BY DEF StreamInv
  <1>8. view'[c] = [runtime |-> f.runtime, last |-> f.to, known |-> 1..f.to]
        /\ wire'[c] = Tail(wire[c])
    BY <1>1, <1>2, <1>3
  <1>9. ViewInv(c)'
    <2>1. c \in listening /\ wire'[c] = <<>> => f.runtime = runtime /\ f.to = seq[runtime]
      BY <1>1, <1>4, <1>7, <1>8 DEF WireInv
    <2> QED BY <1>1, <1>2, <1>8, <2>1 DEF ViewInv, Published
  <1>10. WireInv(c)'
    <2>1. \A i \in 1..Len(wire'[c]) : wire'[c][i] = wire[c][i + 1] /\ i + 1 \in 1..Len(wire[c])
      BY <1>4, <1>8
    <2>2. \A i \in 1..Len(wire'[c]) : Published(wire[c][i].runtime, wire[c][i].to)'
      BY <2>1, <1>1, <1>7 DEF WireInv, Published
    <2>3. \A i \in 1..Len(wire'[c]) : i > 1 => Extends(wire'[c][i - 1], wire'[c][i])
      <3> SUFFICES ASSUME NEW i \in 1..Len(wire'[c]), i > 1
                   PROVE  Extends(wire'[c][i - 1], wire'[c][i])
        OBVIOUS
      <3>1. /\ i + 1 \in 1..Len(wire[c]) /\ i + 1 > 1 /\ (i + 1) - 1 = i
            /\ wire'[c][i] = wire[c][i + 1] /\ wire'[c][i - 1] = wire[c][i]
        BY <2>1, <1>4, <1>8
      <3>2. Extends(wire[c][(i + 1) - 1], wire[c][i + 1])
        BY <3>1, <1>7 DEF WireInv
      <3> QED BY <3>1, <3>2
    <2>4. wire'[c] # <<>> => Follows(view'[c], wire'[c][1])
      <3> SUFFICES ASSUME wire'[c] # <<>> PROVE Follows(view'[c], wire'[c][1])
        OBVIOUS
      <3>1. 2 \in 1..Len(wire[c]) /\ 2 > 1 /\ 2 - 1 = 1 /\ wire'[c][1] = wire[c][2]
        BY <1>4, <1>8
      <3>2. Extends(wire[c][2 - 1], wire[c][2])
        BY <3>1, <1>7 DEF WireInv
      <3>3. Extends(f, wire[c][2])
        BY <3>1, <3>2
      <3> QED BY <3>1, <3>3, <1>5, <1>8 DEF Extends, Follows
    <2>5. c \in listening' /\ wire'[c] # <<>> =>
            /\ wire'[c][Len(wire'[c])].runtime = runtime'
            /\ wire'[c][Len(wire'[c])].to = seq'[runtime']
      <3> SUFFICES ASSUME c \in listening', wire'[c] # <<>>
                   PROVE  /\ wire'[c][Len(wire'[c])].runtime = runtime'
                          /\ wire'[c][Len(wire'[c])].to = seq'[runtime']
        OBVIOUS
      <3>1. wire'[c][Len(wire'[c])] = wire[c][Len(wire[c])]
        BY <1>4, <1>8
      <3> QED BY <3>1, <1>1, <1>7 DEF WireInv
    <2> QED BY <2>2, <2>3, <2>4, <2>5 DEF WireInv
  <1>11. ASSUME NEW d \in Clients, d # c PROVE ViewInv(d)' /\ WireInv(d)'
    BY <1>1, <1>2, <1>3, <1>11 DEF StreamInv, ViewInv, WireInv, Published
  <1> QED BY <1>1, <1>6, <1>9, <1>10, <1>11 DEF StreamInv

LEMMA NextStream == StreamInv /\ [Next]_vars => StreamInv'
  <1> SUFFICES ASSUME StreamInv, [Next]_vars PROVE StreamInv'
    OBVIOUS
  <1>1. CASE \E n \in 1..MaxSeq : Publish(n) BY <1>1, PublishInv
  <1>2. CASE Restart BY <1>2, RestartInv
  <1>3. CASE \E c \in Clients : Connect(c) BY <1>3, ConnectInv
  <1>4. CASE \E c \in Clients : Disconnect(c) BY <1>4, DisconnectInv
  <1>5. CASE \E c \in Clients : Deliver(c) BY <1>5, DeliverInv
  <1>6. CASE UNCHANGED vars
    BY <1>6 DEF vars, StreamInv, TypeOK, ViewInv, WireInv, Published
  <1> QED BY <1>1, <1>2, <1>3, <1>4, <1>5, <1>6 DEF Next

\* In every reachable state the frames in flight continue the clients' views.
THEOREM StreamInvariant == Spec => []StreamInv
  BY InitStream, NextStream, PTL DEF Spec

\* No client ever has a hole behind the last event it saw (trims, restarts included).
THEOREM NoGapHolds == Spec => []NoGap
  <1>1. StreamInv => NoGap BY DEF StreamInv, ViewInv, NoGap
  <1> QED BY <1>1, StreamInvariant, PTL

\* A connected client that has read everything is at the head of the log.
THEOREM CaughtUpHolds == Spec => []CaughtUp
  <1>1. StreamInv => CaughtUp
    BY DEF StreamInv, TypeOK, ViewInv, CaughtUp
  <1> QED BY <1>1, StreamInvariant, PTL

-----------------------------------------------------------------------------
(* Refinement *)

LEMMA InitRefines == Init => Log!Init
  <1>1. 1..0 = {} OBVIOUS
  <1> QED BY <1>1 DEF Init, Log!Init, Log!Upto

LEMMA DeliverRefines ==
    ASSUME StreamInv, NEW c \in Clients, Deliver(c)
    PROVE  Log!Learn(c)
  <1>1. PICK f \in Frame :
          /\ Published(f.runtime, f.to)
          /\ view' = [view EXCEPT ![c] = [runtime |-> f.runtime, last |-> f.to, known |-> 1..f.to]]
          /\ f.runtime >= view[c].runtime
          /\ f.runtime = view[c].runtime => f.to >= view[c].last
    BY DeliverReads
  <1>2. f.runtime \in Runtimes /\ f.to \in Nat /\ f.runtime # 0
    BY EventsAssumption DEF Frame, Runtimes
  <1>3. f.to \in 0..seq[f.runtime]
    BY <1>1, <1>2 DEF Published, StreamInv, TypeOK
  <1> QED BY <1>1, <1>2, <1>3 DEF Log!Learn, Log!Upto, Deliver

LEMMA NextRefines ==
    StreamInv /\ [Next]_vars => [Log!Next]_<<runtime, seq, view>>
  <1> SUFFICES ASSUME StreamInv, [Next]_vars PROVE [Log!Next]_<<runtime, seq, view>>
    OBVIOUS
  <1>1. CASE \E n \in 1..MaxSeq : Publish(n)
    BY <1>1 DEF Publish, Log!Next, Log!Publish
  <1>2. CASE Restart
    <2>1. runtime + 1 \in Runtimes
      BY <1>2, EventsAssumption DEF Restart, StreamInv, TypeOK, Runtimes
    <2> QED BY <1>2, <2>1 DEF Restart, Log!Next, Log!Restart
  <1>3. CASE \E c \in Clients : Connect(c) BY <1>3 DEF Connect
  <1>4. CASE \E c \in Clients : Disconnect(c) BY <1>4 DEF Disconnect
  <1>5. CASE \E c \in Clients : Deliver(c)
    BY <1>5, DeliverRefines DEF Log!Next
  <1>6. CASE UNCHANGED vars BY <1>6 DEF vars
  <1> QED BY <1>1, <1>2, <1>3, <1>4, <1>5, <1>6 DEF Next

\* Every behaviour of the stream is one of the abstract log: each client sees a
\* prefix of some process's log and only moves forward.
THEOREM RefinesLog == Spec => ImplementsLog
  BY InitRefines, NextRefines, StreamInvariant, PTL DEF Spec, ImplementsLog, Log!Spec

===============================================================================
