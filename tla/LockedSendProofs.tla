-------------------------- MODULE LockedSendProofs --------------------------
(***************************************************************************)
(* What LockedSend promises for any servers, connections and clients.      *)
(***************************************************************************)
EXTENDS LockedSend, TLAPS

-----------------------------------------------------------------------------
(* Threads and connections. *)
LEMMA ThreadsAre ==
    \A x \in Thread :
        /\ x[1] \in Server
        /\ x \in {Monitor(x[1]), Main(x[1])} \/ \E t \in PeersOf(x[1]) : x = Peer(x[1], t)
  BY DEF Thread, Monitor, Main, Peer

LEMMA ThreadsOf ==
    \A s \in Server :
        /\ Monitor(s) \in Thread /\ Main(s) \in Thread /\ Monitor(s) # Main(s)
        /\ \A t \in PeersOf(s) :
              /\ Peer(s, t) \in Thread
              /\ Peer(s, t) # Monitor(s) /\ Peer(s, t) # Main(s)
<1> SUFFICES ASSUME NEW s \in Server
             PROVE  /\ Monitor(s) \in Thread /\ Main(s) \in Thread /\ Monitor(s) # Main(s)
                    /\ \A t \in PeersOf(s) :
                          /\ Peer(s, t) \in Thread
                          /\ Peer(s, t) # Monitor(s) /\ Peer(s, t) # Main(s)
  OBVIOUS
<1>1. Monitor(s) \in Thread /\ Main(s) \in Thread /\ \A t \in PeersOf(s) : Peer(s, t) \in Thread
  BY DEF Thread
<1>2. Monitor(s) # Main(s)
  BY DEF Monitor, Main
<1>3. ASSUME NEW t \in PeersOf(s) PROVE Peer(s, t) # Monitor(s) /\ Peer(s, t) # Main(s)
  BY <1>3, NodeAssumption, PeersAssumption DEF Peer, Monitor, Main
<1> QED
  BY <1>1, <1>2, <1>3

LEMMA PipesOf ==
    \A s \in Server : \A t \in PeersOf(s) :
        /\ <<s, t>> \in Pipe /\ <<t, s>> \in Pipe
        /\ t \in Node /\ t # s
        /\ t \in Server => s \in PeersOf(t)
  BY PeersAssumption DEF Pipe, Node

LEMMA PlainFrames == \A k \in Kind : Plain(k) \in Frame
  BY DEF Plain, Frame

-----------------------------------------------------------------------------
(* Every variable has its type. *)
Moved == /\ pc' \in [Thread -> Place] /\ frame' \in [Thread -> Frame]
         /\ todo' \in [Thread -> SUBSET Node]
         /\ \A x \in Thread : todo'[x] \subseteq PeersOf(x[1])

LEMMA GoesMoves ==
    ASSUME TypeOK, NEW x \in Thread, NEW p \in Place, NEW f \in Frame,
           NEW ts \in SUBSET PeersOf(x[1]), Goes(x, p, f, ts)
    PROVE  Moved
<1>1. ts \subseteq Node
  BY ThreadsAre, PipesOf
<1> QED
  BY <1>1 DEF Goes, Moved, TypeOK

LEMMA RestsMoves ==
    ASSUME TypeOK, NEW x \in Thread, NEW p \in Place, Rests(x, p)
    PROVE  Moved
<1>1. Plain("answer") \in Frame
  BY PlainFrames DEF Kind
<1> QED
  BY <1>1, GoesMoves DEF Rests

Channels == chan \in [Pipe -> Seq(Frame)] /\ \A p \in Pipe : Len(chan[p]) <= Cap
Clients  == client \in [Client -> {"idle", "waiting", "gone"}]

(* What is left to show of a step that changes neither queue nor bound. *)
LEMMA TypeParts ==
    ASSUME TypeOK, Moved, lock' \in [Server -> Thread \cup {None}], Channels', Clients',
           UNCHANGED <<backlog, serving, rounds, asks>>
    PROVE  TypeOK'
  BY DEF TypeOK, Moved, Channels, Clients

LEMMA SameLock == ASSUME TypeOK, lock' = lock PROVE lock' \in [Server -> Thread \cup {None}]
  BY DEF TypeOK

LEMMA SameChannels == ASSUME TypeOK, chan' = chan PROVE Channels'
  BY DEF TypeOK, Channels

LEMMA SameClients == ASSUME TypeOK, client' = client PROVE Clients'
  BY DEF TypeOK, Clients

LEMMA TypeInitially == Init => TypeOK
<1> SUFFICES ASSUME Init PROVE TypeOK
  OBVIOUS
<1>1. Plain("answer") \in Frame
  BY PlainFrames DEF Kind
<1>2. \A x \in Thread : Start(x) \in Place
  BY DEF Start, Place
<1>3. pc \in [Thread -> Place] /\ frame \in [Thread -> Frame]
  BY <1>1, <1>2 DEF Init
<1>4. todo \in [Thread -> SUBSET Node] /\ \A x \in Thread : todo[x] \subseteq PeersOf(x[1])
  BY DEF Init
<1>5. chan \in [Pipe -> Seq(Frame)] /\ \A p \in Pipe : Len(chan[p]) <= Cap
  BY BoundAssumption DEF Init
<1> QED
  BY <1>3, <1>4, <1>5, BoundAssumption, ClientAssumption DEF Init, TypeOK

LEMMA TypeStep ==
    ASSUME TypeOK, NEW x \in Thread, Lock(x) \/ Send(x) \/ Finish(x) \/ Again(x)
    PROVE  TypeOK'
<1>1. x[1] \in Server
  BY ThreadsAre
<1>2. CASE Lock(x)
  <2>1. lock' \in [Server -> Thread \cup {None}]
    BY <1>1, <1>2 DEF Lock, TypeOK
  <2>2. Moved
    BY <1>2 DEF Lock, TypeOK, Moved, Place
  <2> QED
    BY <1>2, <2>1, <2>2, TypeParts, SameChannels, SameClients DEF Lock
<1>3. CASE Send(x)
  <2>1. PICK t \in todo[x] : /\ At(x, t)
                             /\ chan' = [chan EXCEPT ![<<x[1], t>>] = Append(@, frame[x])]
                             /\ todo' = [todo EXCEPT ![x] = @ \ {t}]
    BY <1>3 DEF Send
  <2>2. t \in PeersOf(x[1]) /\ <<x[1], t>> \in Pipe
    BY <1>1, <2>1, PipesOf DEF TypeOK
  <2>3. ~(Len(chan[<<x[1], t>>]) >= Cap)
    BY <1>3, <2>1 DEF Send, Ready, Full
  <2>4. Channels'
    <3> DEFINE p == <<x[1], t>>
               q == Append(chan[p], frame[x])
    <3>1. chan[p] \in Seq(Frame) /\ frame[x] \in Frame
      BY <2>2 DEF TypeOK
    <3>2. q \in Seq(Frame) /\ Len(q) = Len(chan[p]) + 1
      BY <3>1
    <3>3. Len(chan[p]) \in Nat /\ Len(q) <= Cap
      BY <2>3, <3>1, <3>2, BoundAssumption
    <3>4. p \in Pipe /\ chan' = [chan EXCEPT ![p] = q]
      BY <2>1, <2>2
    <3> HIDE DEF p, q
    <3> QED
      BY <3>2, <3>3, <3>4 DEF TypeOK, Channels
  <2>5. Moved
    BY <1>3, <2>1 DEF Send, TypeOK, Moved
  <2> QED
    BY <1>3, <2>4, <2>5, TypeParts, SameLock, SameClients DEF Send
<1>4. CASE Finish(x)
  <2>1. lock' \in [Server -> Thread \cup {None}]
    BY <1>4 DEF Finish, Unlock, TypeOK
  <2>2. Clients'
    BY <1>4 DEF Finish, TypeOK, Clients
  <2>3. Moved
    <3>1. Rests(x, "command") \/ Rests(x, "sleep") \/ Rests(x, "again")
      BY <1>4 DEF Finish
    <3> QED
      BY <3>1, RestsMoves DEF Place
  <2> QED
    BY <1>4, <2>1, <2>2, <2>3, TypeParts, SameChannels DEF Finish
<1>5. CASE Again(x)
  <2>1. Clients'
    BY <1>5 DEF Again, TypeOK, Clients
  <2>2. Moved
    <3>1. Rests(x, "command") \/ Rests(x, "recv")
      BY <1>5 DEF Again
    <3> QED
      BY <3>1, RestsMoves DEF Place
  <2> QED
    BY <1>5, <2>1, <2>2, TypeParts, SameLock, SameChannels DEF Again
<1> QED
  BY <1>2, <1>3, <1>4, <1>5

LEMMA TypePeer ==
    ASSUME TypeOK, NEW s \in Server, NEW t \in PeersOf(s), Receive(s, t) \/ Handle(s, t)
    PROVE  TypeOK'
<1> DEFINE x == Peer(s, t)
           f == frame[x]
<1>1. x \in Thread /\ x[1] = s /\ x[2] = t /\ <<t, s>> \in Pipe
  BY ThreadsOf, PipesOf DEF Peer
<1>2. CASE Receive(s, t)
  <2>1. chan[<<t, s>>] \in Seq(Frame) /\ chan[<<t, s>>] # <<>>
    BY <1>1, <1>2 DEF Receive, Ready, TypeOK
  <2>2. Channels'
    <3>1. Tail(chan[<<t, s>>]) \in Seq(Frame) /\ Len(Tail(chan[<<t, s>>])) <= Cap
      BY <1>1, <2>1, BoundAssumption DEF TypeOK
    <3> QED
      BY <1>1, <1>2, <3>1 DEF Receive, TypeOK, Channels
  <2>3. Goes(x, "touch", Head(chan[<<t, s>>]), {}) /\ Head(chan[<<t, s>>]) \in Frame
    BY <1>2, <2>1 DEF Receive
  <2>4. Moved
    BY <1>1, <2>3, GoesMoves DEF Place
  <2> QED
    BY <1>2, <2>2, <2>4, TypeParts, SameLock, SameClients DEF Receive
<1>3. CASE Handle(s, t)
  <2>1. Moved
    <3> DEFINE g == [f EXCEPT !.hops = @ \cup {s}]
    <3>1. f \in Frame /\ g \in Frame
      BY <1>1 DEF TypeOK, Frame
    <3>2. Plain("ask") \in Frame /\ Plain("answer") \in Frame
      BY PlainFrames DEF Kind
    <3>3. \/ Goes(x, "send", Plain("ask"), {t})
          \/ Rests(x, "again")
          \/ Goes(x, "send", Plain("answer"), {t})
          \/ f.to \in PeersOf(s) /\ Goes(x, "send", g, {f.to})
          \/ Goes(x, "lock", g, PeersOf(s) \ g.hops)
      BY <1>3 DEF Handle, Pass
    <3> HIDE DEF x, f, g
    <3> QED
      BY <1>1, <3>1, <3>2, <3>3, GoesMoves, RestsMoves DEF Place
  <2> QED
    BY <1>3, <2>1, TypeParts, SameLock, SameChannels, SameClients DEF Handle
<1> QED
  BY <1>2, <1>3

LEMMA TypeMain ==
    ASSUME TypeOK, NEW s \in Server, Serves(s) \/ Wake(s)
    PROVE  TypeOK'
<1>1. Main(s) \in Thread /\ Main(s)[1] = s /\ Monitor(s) \in Thread /\ Monitor(s)[1] = s
  BY ThreadsOf DEF Main, Monitor
<1>2. CASE Accept(s)
  <2>1. Moved
    BY <1>1, <1>2, RestsMoves DEF Accept, Place
  <2>2. backlog[s] \in Seq(Client) /\ backlog[s] # <<>>
    BY <1>2 DEF Accept, TypeOK
  <2>3. Head(backlog[s]) \in Client /\ Tail(backlog[s]) \in Seq(Client)
    BY <2>2
  <2>4. serving' \in [Server -> Client \cup {None}] /\ backlog' \in [Server -> Seq(Client)]
    BY <1>2, <2>3 DEF Accept, TypeOK
  <2> QED
    BY <1>2, <2>1, <2>4 DEF Accept, TypeOK, Moved
<1>3. CASE Command(s)
  <2>1. Moved
    <3>1. \A to \in Dest : [kind |-> "message", to |-> to, hops |-> {s}] \in Frame
      BY NodeAssumption DEF Frame, Kind
    <3>2. CASE Rests(Main(s), "command")
      BY <1>1, <3>2, RestsMoves DEF Place
    <3>3. ASSUME NEW to \in Dest \cap PeersOf(s),
                 Goes(Main(s), "send", [kind |-> "message", to |-> to, hops |-> {s}], {to})
          PROVE  Moved
      BY <1>1, <3>1, <3>3, GoesMoves DEF Place
    <3>4. ASSUME NEW to \in Dest \ PeersOf(s),
                 Goes(Main(s), "lock", [kind |-> "message", to |-> to, hops |-> {s}], PeersOf(s))
          PROVE  Moved
      BY <1>1, <3>1, <3>4, GoesMoves DEF Place
    <3> QED
      BY <1>3, <3>2, <3>3, <3>4 DEF Command
  <2>2. Clients'
    BY <1>3 DEF Command, TypeOK, Clients
  <2> QED
    BY <1>3, <2>1, <2>2, TypeParts, SameLock, SameChannels DEF Command
<1>4. CASE Close(s)
  <2>1. Moved
    BY <1>1, <1>4, RestsMoves DEF Close, Place
  <2>2. serving' \in [Server -> Client \cup {None}]
    BY <1>4 DEF Close, TypeOK
  <2> QED
    BY <1>4, <2>1, <2>2 DEF Close, TypeOK, Moved
<1>5. CASE Wake(s)
  <2>1. PICK k \in {"keepalive", "ask"} : Goes(Monitor(s), "lock", Plain(k), PeersOf(s))
    BY <1>5 DEF Wake
  <2>2. Moved
    BY <1>1, <2>1, PlainFrames, GoesMoves DEF Place, Kind
  <2>3. rounds' \in 0 .. MaxRounds
    BY <1>5, BoundAssumption DEF Wake, TypeOK
  <2> QED
    BY <1>5, <2>2, <2>3 DEF Wake, TypeOK, Moved
<1> QED
  BY <1>2, <1>3, <1>4, <1>5 DEF Serves

LEMMA TypeUser ==
    ASSUME TypeOK, NEW c \in Client, Ask(c) \/ HangUp(c)
    PROVE  TypeOK'
<1>1. client' \in [Client -> {"idle", "waiting", "gone"}]
  BY DEF Ask, HangUp, TypeOK
<1>2. asks' \in 0 .. MaxAsk
  BY BoundAssumption DEF Ask, HangUp, TypeOK
<1> QED
  BY <1>1, <1>2 DEF Ask, HangUp, TypeOK

(* The steps of Next, one kind of action each. *)
LEMMA Steps ==
    ASSUME Next
    PROVE  \/ \E x \in Thread : Lock(x) \/ Send(x) \/ Finish(x) \/ Again(x)
           \/ \E s \in Server : Serves(s) \/ Wake(s)
           \/ \E s \in Server : \E t \in PeersOf(s) : Receive(s, t) \/ Handle(s, t)
           \/ \E c \in Client : Ask(c) \/ HangUp(c)
<1>1. CASE Threads
  <2>1. PICK x \in Thread : Step(x)
    BY <1>1 DEF Threads
  <2>2. x[2] \in Node => x[2] \in PeersOf(x[1])
    BY ThreadsAre, NodeAssumption DEF Monitor, Main, Peer
  <2> QED
    BY <2>1, <2>2, ThreadsAre DEF Step
<1> QED
  BY <1>1 DEF Next

LEMMA TypeKept == ASSUME TypeOK, [Next]_vars PROVE TypeOK'
<1>1. CASE Next
  BY <1>1, Steps, TypeStep, TypePeer, TypeMain, TypeUser
<1>2. CASE UNCHANGED vars
  BY <1>2 DEF vars, TypeOK
<1> QED
  BY <1>1, <1>2

(* Every variable keeps its type, a thread sends to peers of its server    *)
(* only, and no connection holds more than it has room for. *)
THEOREM TypeCorrect == Spec => []TypeOK
<1>1. TypeOK /\ [Next]_vars => TypeOK'
  BY TypeKept
<1> QED
  BY TypeInitially, <1>1, PTL DEF Spec
-----------------------------------------------------------------------------
(* Why threads stop only in a jam.  Whoever has the mutex is sending; and  *)
(* a peer thread is always reading, or has work to do.                     *)
HolderSends ==
    \A s \in Server : lock[s] # None =>
        /\ lock[s] \in Thread /\ lock[s][1] = s
        /\ pc[lock[s]] = "send"

PeersRead ==
    \A s \in Server : \A t \in PeersOf(s) :
        pc[Peer(s, t)] \in {"recv", "lock", "send", "touch", "again"}

WaitInv == TypeOK /\ HolderSends /\ PeersRead

(* The lock is left alone by a thread that does not have it. *)
LEMMA HolderStays ==
    ASSUME TypeOK, HolderSends, NEW x \in Thread, pc[x] # "send",
           lock' = lock, NEW p, pc' = [pc EXCEPT ![x] = p]
    PROVE  HolderSends'
  BY DEF TypeOK, HolderSends

LEMMA PeersStay ==
    ASSUME TypeOK, PeersRead, NEW x \in Thread, NEW p, pc' = [pc EXCEPT ![x] = p],
           \/ p \in {"recv", "lock", "send", "touch", "again"}
           \/ x = Monitor(x[1])
           \/ x = Main(x[1])
    PROVE  PeersRead'
<1> SUFFICES ASSUME NEW s \in Server, NEW t \in PeersOf(s)
             PROVE  pc'[Peer(s, t)] \in {"recv", "lock", "send", "touch", "again"}
  BY DEF PeersRead
<1>1. Peer(s, t) \in Thread /\ Peer(s, t)[1] = s
  BY ThreadsOf DEF Peer
<1>2. Peer(s, t) # Monitor(s) /\ Peer(s, t) # Main(s)
  BY ThreadsOf
<1>3. CASE Peer(s, t) = x
  <2>1. x[1] = s
    BY <1>1, <1>3
  <2> QED
    BY <1>1, <1>2, <1>3, <2>1 DEF TypeOK
<1>4. CASE Peer(s, t) # x
  BY <1>1, <1>4 DEF TypeOK, PeersRead
<1> QED
  BY <1>3, <1>4

LEMMA GoesTo == ASSUME NEW x, NEW p, NEW f, NEW ts, Goes(x, p, f, ts)
                PROVE  pc' = [pc EXCEPT ![x] = p]
  BY DEF Goes

LEMMA RestsAt == ASSUME NEW x, NEW p, Rests(x, p) PROVE pc' = [pc EXCEPT ![x] = p]
  BY GoesTo DEF Rests

LEMMA WaitStep ==
    ASSUME WaitInv, NEW x \in Thread, Lock(x) \/ Send(x) \/ Finish(x) \/ Again(x)
    PROVE  HolderSends' /\ PeersRead'
<1> USE DEF WaitInv
<1>1. x[1] \in Server
  BY ThreadsAre
<1>2. CASE Lock(x)
  <2>1. lock[x[1]] = None /\ lock' = [lock EXCEPT ![x[1]] = x] /\ pc[x] = "lock" /\ pc' = [pc EXCEPT ![x] = "send"]
    BY <1>2 DEF Lock, Ready, Free
  <2>2. HolderSends'
    BY <1>1, <2>1 DEF HolderSends, TypeOK
  <2> QED
    BY <2>1, <2>2, PeersStay
<1>3. CASE Send(x)
  BY <1>3 DEF Send, HolderSends, PeersRead
<1>4. CASE Finish(x)
  <2>1. PICK p \in {"command", "sleep", "again"} : pc' = [pc EXCEPT ![x] = p]
    BY <1>4, RestsAt DEF Finish
  <2>2. HolderSends'
    BY <1>1, <1>4, <2>1 DEF Finish, Unlock, HolderSends, TypeOK
  <2>3. x = Main(x[1]) \/ x = Monitor(x[1]) \/ pc' = [pc EXCEPT ![x] = "again"]
    BY <1>4, RestsAt DEF Finish
  <2> QED
    BY <2>1, <2>2, <2>3, PeersStay
<1>5. CASE Again(x)
  <2>1. PICK p \in {"command", "recv"} : pc' = [pc EXCEPT ![x] = p]
    BY <1>5, RestsAt DEF Again
  <2>2. x = Main(x[1]) \/ pc' = [pc EXCEPT ![x] = "recv"]
    BY <1>5, RestsAt DEF Again
  <2>3. pc[x] # "send" /\ lock' = lock
    BY <1>5 DEF Again
  <2> QED
    BY <2>1, <2>2, <2>3, HolderStays, PeersStay
<1> QED
  BY <1>2, <1>3, <1>4, <1>5

LEMMA WaitPeer ==
    ASSUME WaitInv, NEW s \in Server, NEW t \in PeersOf(s), Receive(s, t) \/ Handle(s, t)
    PROVE  HolderSends' /\ PeersRead'
<1>1. Peer(s, t) \in Thread
  BY ThreadsOf
<1>2. pc[Peer(s, t)] # "send" /\ lock' = lock
  BY DEF Receive, Handle
<1>3. PICK p \in {"touch", "send", "again", "lock"} : pc' = [pc EXCEPT ![Peer(s, t)] = p]
  BY GoesTo, RestsAt DEF Receive, Handle, Pass
<1> QED
  BY <1>1, <1>2, <1>3, HolderStays, PeersStay DEF WaitInv

LEMMA WaitMain ==
    ASSUME WaitInv, NEW s \in Server, Serves(s) \/ Wake(s)
    PROVE  HolderSends' /\ PeersRead'
<1>1. /\ Main(s) \in Thread /\ Main(s) = Main(Main(s)[1])
      /\ Monitor(s) \in Thread /\ Monitor(s) = Monitor(Monitor(s)[1])
  BY ThreadsOf DEF Main, Monitor
<1>2. CASE Serves(s)
  <2>1. pc[Main(s)] # "send" /\ lock' = lock
    BY <1>2 DEF Serves, Accept, Command, Close
  <2>2. \E p : pc' = [pc EXCEPT ![Main(s)] = p]
    BY <1>2, GoesTo, RestsAt DEF Serves, Accept, Command, Close
  <2> QED
    BY <1>1, <2>1, <2>2, HolderStays, PeersStay DEF WaitInv
<1>3. CASE Wake(s)
  <2>1. pc[Monitor(s)] # "send" /\ lock' = lock /\ pc' = [pc EXCEPT ![Monitor(s)] = "lock"]
    BY <1>3, GoesTo DEF Wake
  <2> QED
    BY <1>1, <2>1, HolderStays, PeersStay DEF WaitInv
<1> QED
  BY <1>2, <1>3

LEMMA WaitInvariant == Spec => []WaitInv
<1>1. Init => WaitInv
  <2> SUFFICES ASSUME Init PROVE WaitInv
    OBVIOUS
  <2>1. HolderSends
    BY DEF Init, HolderSends
  <2>2. ASSUME NEW s \in Server, NEW t \in PeersOf(s) PROVE pc[Peer(s, t)] = "recv"
    <3>1. Peer(s, t) \in Thread /\ Peer(s, t)[1] = s
      BY ThreadsOf DEF Peer
    <3> QED
      BY <3>1, ThreadsOf DEF Init, Start
  <2> QED
    BY <2>1, <2>2, TypeInitially DEF WaitInv, PeersRead
<1>2. WaitInv /\ [Next]_vars => WaitInv'
  <2> SUFFICES ASSUME WaitInv, [Next]_vars PROVE HolderSends' /\ PeersRead' /\ TypeOK'
    BY DEF WaitInv
  <2>1. TypeOK'
    BY TypeKept DEF WaitInv
  <2>2. CASE Next
    <3>1. CASE \E c \in Client : Ask(c) \/ HangUp(c)
      <4>1. lock' = lock /\ pc' = pc
        BY <3>1 DEF Ask, HangUp
      <4> QED
        BY <2>1, <4>1 DEF HolderSends, PeersRead, WaitInv
    <3> QED
      BY <2>1, <2>2, <3>1, Steps, WaitStep, WaitPeer, WaitMain
  <2>3. CASE UNCHANGED vars
    BY <2>1, <2>3 DEF vars, HolderSends, PeersRead, WaitInv
  <2> QED
    BY <2>2, <2>3
<1> QED
  BY <1>1, <1>2, PTL DEF Spec

-----------------------------------------------------------------------------
(* A server of which a thread waits in vain is blocked by a peer. *)
Stuck(x) == pc[x] \in {"lock", "send", "touch", "again"} /\ ~Ready(x)

LEMMA StuckIsBlocked ==
    ASSUME WaitInv, NEW x \in Thread, Stuck(x), \A y \in Thread : ~Ready(y)
    PROVE  \E t \in PeersOf(x[1]) : Blocked(x[1], t)
<1>1. ASSUME NEW y \in Thread, pc[y] = "send", y[1] = x[1]
      PROVE  \E t \in PeersOf(x[1]) : Blocked(x[1], t)
  <2>1. PICK t \in todo[y] : At(y, t) /\ Full(<<y[1], t>>)
    BY <1>1 DEF Ready
  <2>2. t \in PeersOf(y[1])
    BY <1>1 DEF WaitInv, TypeOK
  <2> QED
    BY <1>1, <2>1, <2>2 DEF Blocked
<1>2. CASE pc[x] = "send"
  BY <1>1, <1>2
<1>3. CASE pc[x] # "send"
  <2>1. x[1] \in Server /\ lock[x[1]] # None
    BY <1>3, ThreadsAre DEF Stuck, Ready, Free
  <2>2. lock[x[1]] \in Thread /\ lock[x[1]][1] = x[1] /\ pc[lock[x[1]]] = "send"
    BY <2>1 DEF WaitInv, HolderSends
  <2> QED
    BY <1>1, <2>2
<1> QED
  BY <1>2, <1>3

(* If a peer that runs this program blocks a server, it is blocked too:    *)
(* its thread for that connection does not read on. *)
LEMMA BlockerIsBlocked ==
    ASSUME WaitInv, \A y \in Thread : ~Ready(y),
           NEW s \in Server, NEW t \in PeersOf(s) \cap Server, Blocked(s, t)
    PROVE  \E u \in PeersOf(t) : Blocked(t, u)
<1> DEFINE y == Peer(t, s)
<1>1. s \in PeersOf(t) /\ <<s, t>> \in Pipe
  BY PipesOf
<1>2. y \in Thread /\ y[1] = t /\ y[2] = s
  BY <1>1, ThreadsOf DEF Peer
<1>3. chan[<<s, t>>] # <<>>
  <2>1. Len(chan[<<s, t>>]) >= Cap /\ chan[<<s, t>>] \in Seq(Frame)
    BY <1>1 DEF Blocked, Full, WaitInv, TypeOK
  <2> QED
    BY <2>1, BoundAssumption
<1>4. pc[y] # "recv"
  BY <1>2, <1>3 DEF Ready
<1>5. pc[y] \in {"recv", "lock", "send", "touch", "again"}
  BY <1>1 DEF WaitInv, PeersRead
<1>6. Stuck(y)
  BY <1>2, <1>4, <1>5 DEF Stuck
<1> HIDE DEF y
<1> QED
  BY <1>2, <1>6, StuckIsBlocked

(* The threads of a network that have something to do are stopped all at   *)
(* once only when servers block each other in a circle, or a peer that has *)
(* stopped reading blocks one: for any number of servers, of connections   *)
(* and of frames that a connection has room for. *)
THEOREM OnlyJamsStop == Spec => []StopsOnlyInJam
<1>1. WaitInv => StopsOnlyInJam
  <2> SUFFICES ASSUME WaitInv, NEW x \in Thread, pc[x] \in {"lock", "send", "touch", "again"},
                      \A y \in Thread : ~Ready(y),
                      \A s \in Server, t \in Deaf : ~Blocked(s, t)
               PROVE  Jam
    BY DEF StopsOnlyInJam, Jam
  <2> DEFINE S == {s \in Server : \E t \in PeersOf(s) : Blocked(s, t)}
  <2>1. x[1] \in S
    BY StuckIsBlocked, ThreadsAre DEF Stuck
  <2>2. ASSUME NEW s \in S PROVE \E t \in S : Blocked(s, t)
    <3>1. PICK t \in PeersOf(s) : Blocked(s, t)
      OBVIOUS
    <3>2. t \in Server
      BY <3>1, PipesOf DEF Node
    <3>3. \E u \in PeersOf(t) : Blocked(t, u)
      BY <3>1, <3>2, BlockerIsBlocked
    <3>4. t \in S
      BY <3>2, <3>3
    <3> QED
      BY <3>1, <3>4
  <2>3. S \in (SUBSET Server) \ {{}}
    BY <2>1
  <2> HIDE DEF S
  <2> QED
    BY <2>2, <2>3 DEF Jam
<1> QED
  BY <1>1, WaitInvariant, PTL
=============================================================================
