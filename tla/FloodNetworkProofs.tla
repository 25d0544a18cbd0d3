------------------------- MODULE FloodNetworkProofs -------------------------
(***************************************************************************)
(* Theorems about FloodNetwork, for any set of servers and messages, any   *)
(* topology and any coming and going of links.                             *)
(***************************************************************************)
EXTENDS FloodNetwork, TLAPS

-----------------------------------------------------------------------------
(* Type correctness.                                                       *)

Wires  == [Node -> [Node -> Seq(Packet)]]
Queues == [Node -> [Node -> Seq(Copy)]]
Hands  == [Node -> SUBSET Task]

LEMMA FrameType == ASSUME NEW c \in Copy PROVE Frame(c) \in Packet
<1>1. c.hops \in Hops /\ <<>> \in Hops
      BY HopAssumption DEF Copy, Hops
<1>2. [c EXCEPT !.hops = IF Len(@) <= Room THEN @ ELSE <<>>] \in Copy
      BY <1>1 DEF Copy
<1>3. QED
      BY <1>2 DEF Frame, Packet

LEMMA PutType ==
    ASSUME NEW w \in Wires, NEW n \in Node, NEW S, NEW pkt \in Packet
    PROVE  Put(w, n, S, pkt) \in Wires
BY DEF Put, Wires

LEMMA TakenType ==
    ASSUME wire \in Wires, NEW a \in Node, NEW b \in Node, wire[a][b] # <<>>
    PROVE  Taken(a, b) \in Wires
BY DEF Taken, Wires

LEMMA StoreType ==
    ASSUME queue \in Queues, NEW n \in Node, NEW g \in Node, NEW c \in Copy
    PROVE  [queue EXCEPT ![n][g] = Append(@, c)] \in Queues
BY DEF Queues

LEMMA RemoveType ==
    ASSUME queue \in Queues, NEW n \in Node, NEW g \in Node, queue[n][g] # <<>>
    PROVE  [queue EXCEPT ![n][g] = Tail(@)] \in Queues
<1>1. Tail(queue[n][g]) \in Seq(Copy)
      BY DEF Queues
<1>2. QED
      BY <1>1 DEF Queues

(* What the steps of a handler do to the handlers at hand. *)
LEMMA BeginsHand ==
    ASSUME hand \in Hands, NEW n \in Node, NEW l \in SUBSET Node, NEW c \in Copy,
           Begins(n, l, c)
    PROVE  /\ hand' \in Hands
           /\ \A x \in Node : \A t \in hand'[x] :
                 \/ t \in hand[x]
                 \/ x = n /\ t = [at |-> "search", conn |-> l, copy |-> c]
<1>1. [at |-> "search", conn |-> l, copy |-> c] \in Task
      BY DEF Task
<1>2. QED
      BY <1>1 DEF Begins, Hands

LEMMA GoesHand ==
    ASSUME hand \in Hands, NEW n \in Node, NEW t \in hand[n],
           NEW pc \in {"forward", "dangling", "store"}, Goes(n, t, pc)
    PROVE  /\ hand' \in Hands
           /\ \A x \in Node : \A u \in hand'[x] :
                 \/ u \in hand[x] /\ ~(x = n /\ u = t)
                 \/ x = n /\ u = [t EXCEPT !.at = pc]
           /\ [t EXCEPT !.at = pc].at = pc /\ [t EXCEPT !.at = pc].copy = t.copy
<1>1. t \in Task
      BY DEF Hands
<1>2. /\ [t EXCEPT !.at = pc] \in Task
      /\ [t EXCEPT !.at = pc].at = pc /\ [t EXCEPT !.at = pc].copy = t.copy
      BY <1>1 DEF Task
<1>3. QED
      BY <1>2 DEF Goes, Hands

LEMMA ReturnsHand ==
    ASSUME hand \in Hands, NEW n \in Node, NEW t \in hand[n], Returns(n, t)
    PROVE  /\ hand' \in Hands
           /\ \A x \in Node : \A u \in hand'[x] : u \in hand[x] /\ ~(x = n /\ u = t)
BY DEF Returns, Hands

LEMMA TaskCopy ==
    ASSUME hand \in Hands, NEW n \in Node, NEW t \in hand[n]
    PROVE  t.copy \in Copy /\ t.copy.msg \in Msg /\ t.copy.msg.to \in Node
BY MsgAssumption DEF Hands, Task, Copy

LEMMA HandleType ==
    ASSUME wire \in Wires, queue \in Queues, hand \in Hands, NEW n \in Node, Handle(n)
    PROVE  wire' \in Wires /\ queue' \in Queues /\ hand' \in Hands
<1>1. PICK t \in hand[n] :
          Search(n, t) \/ Forward(n, t) \/ ForwardDangling(n, t) \/ Store(n, t)
      BY DEF Handle
<1>2. t.copy \in Copy /\ t.copy.msg.to \in Node /\ Frame(t.copy) \in Packet
      BY TaskCopy, FrameType
<1>3. CASE Search(n, t)
      BY <1>3, GoesHand DEF Search
<1>4. CASE Forward(n, t)
      BY <1>2, <1>4, PutType, ReturnsHand DEF Forward
<1>5. CASE ForwardDangling(n, t)
      <2>1. CASE \E p \in Peers(n) : wire' = Put(wire, n, {p}, Frame(t.copy)) /\ Returns(n, t)
            BY <1>2, <1>5, <2>1, PutType, ReturnsHand DEF ForwardDangling
      <2>2. CASE UNCHANGED wire /\ Goes(n, t, "store")
            BY <1>5, <2>2, GoesHand DEF ForwardDangling
      <2>3. QED
            BY <1>5, <2>1, <2>2 DEF ForwardDangling
<1>6. CASE Store(n, t)
      BY <1>2, <1>6, PutType, StoreType, ReturnsHand DEF Store
<1>7. QED
      BY <1>1, <1>3, <1>4, <1>5, <1>6

LEMMA LinkDownHand ==
    ASSUME hand \in Hands, NEW l \in Pair, LinkDown(l)
    PROVE  /\ hand' \in Hands
           /\ \A x \in Node : \A u \in hand'[x] : \E t \in hand[x] : u = Without(x, l, t)
<1>1. \A x \in Node : \A t \in hand[x] : Without(x, l, t) \in Task
      BY DEF Hands, Task, Without
<1>2. QED
      BY <1>1 DEF LinkDown, Hands

(* The copy that arrives, and what PassedOn makes of it. *)
LEMMA ArrivingCopy ==
    ASSUME wire \in Wires, NEW a \in Node, NEW b \in Node, Arriving(a, b, "sendmsg")
    PROVE  Head(wire[a][b]).copy \in Copy
<1>1. Head(wire[a][b]) \in Packet
      BY DEF Arriving, Wires
<1>2. QED
      BY <1>1 DEF Arriving, Packet

LEMMA PassedOnType ==
    ASSUME NEW c \in Copy, NEW b \in Node, Len(c.hops) < MaxHops
    PROVE  PassedOn(c, b) \in Copy
<1>1. c.msg.from \in Node /\ c.hops \in Seq(Node) /\ c.trail \in Seq(Node)
      BY MsgAssumption DEF Copy, Hops
<1>2. /\ <<c.msg.from>> \in Hops
      /\ Append(c.hops, b) \in Hops
      /\ Append(c.trail, b) \in Seq(Node)
      BY <1>1, HopAssumption DEF Hops
<1>3. QED
      BY <1>2 DEF PassedOn, Copy

LEMMA KeptType == ASSUME NEW c \in Copy, NEW b \in Node PROVE Kept(c, b) \in Copy
<1>1. /\ IF Len(c.hops) < MaxHops THEN c.hops \in Hops ELSE <<>> \in Hops
      /\ Append(c.trail, b) \in Seq(Node)
      BY HopAssumption DEF Copy, Hops
<1>2. QED
      BY <1>1 DEF Kept, Copy

LEMMA TakeInType ==
    ASSUME wire \in Wires, queue \in Queues, hand \in Hands, NEW a \in Node, NEW b \in Node,
           NEW c \in Copy, wire[a][b] # <<>>, TakeIn(a, b, c)
    PROVE  wire' \in Wires /\ queue' \in Queues /\ hand' \in Hands
<1>1. Taken(a, b) \in Wires /\ Kept(c, b) \in Copy /\ c.msg.to \in Node
      BY TakenType, KeptType, MsgAssumption DEF Copy
<1>2. CASE PassesOn(a, b, c)
      <2>1. PassedOn(c, b) \in Copy /\ {a, b} \in SUBSET Node
            BY <1>2, PassedOnType DEF PassesOn
      <2>2. QED
            BY <1>1, <1>2, <2>1, BeginsHand DEF PassesOn
<1>3. CASE Keeps(a, b, c)
      BY <1>1, <1>3, StoreType DEF Keeps
<1>4. QED
      BY <1>2, <1>3 DEF TakeIn

LEMMA TypeInit == Init => TypeOK
BY LinkAssumption DEF Init, TypeOK

LEMMA TypeStep == TypeOK /\ [Next]_vars => TypeOK'
<1> SUFFICES ASSUME TypeOK, [Next]_vars PROVE TypeOK'
    OBVIOUS
<1>0. wire \in Wires /\ queue \in Queues /\ hand \in Hands
      BY DEF TypeOK, Wires, Queues, Hands
<1>1. ASSUME NEW m \in Msg, ClientSend(m) PROVE TypeOK'
      <2>1. m.from \in Node /\ <<m.from>> \in Hops
            BY MsgAssumption, HopAssumption DEF Hops
      <2>2. [msg |-> m, hops |-> <<m.from>>, trail |-> <<m.from>>] \in Copy
            BY <2>1 DEF Copy
      <2>3. hand' \in Hands
            BY <1>0, <1>1, <2>1, <2>2, BeginsHand DEF ClientSend
      <2>4. QED
            BY <1>1, <2>3 DEF ClientSend, TypeOK, Hands
<1>2. ASSUME NEW n \in Node, ClientGet(n) PROVE TypeOK'
      <2>1. Head(queue[n][n]) \in Copy /\ Tail(queue[n][n]) \in Seq(Copy)
            BY <1>2 DEF ClientGet, TypeOK
      <2>2. read' \in [Msg -> Nat]
            BY <1>2, <2>1 DEF ClientGet, TypeOK, Copy
      <2>3. queue' \in Queues
            BY <1>0, <1>2, RemoveType DEF ClientGet
      <2>4. QED
            BY <1>2, <2>2, <2>3 DEF ClientGet, TypeOK, Queues, history
<1>3. ASSUME NEW a \in Node, NEW b \in Node, HandleSendmsg(a, b) PROVE TypeOK'
      <2>1. wire[a][b] # <<>> /\ Head(wire[a][b]).copy \in Copy
            BY <1>0, <1>3, ArrivingCopy DEF HandleSendmsg, Arriving
      <2>2. wire' \in Wires /\ queue' \in Queues /\ hand' \in Hands
            BY <1>0, <1>3, <2>1, TakenType, TakeInType DEF HandleSendmsg
      <2>3. QED
            BY <1>3, <2>2 DEF HandleSendmsg, TypeOK, Wires, Queues, Hands, history
<1>4. ASSUME NEW a \in Node, NEW b \in Node, HandleGetmsgs(a, b) PROVE TypeOK'
      <2>1. Taken(a, b) \in Wires
            BY <1>0, <1>4, TakenType DEF HandleGetmsgs, Arriving
      <2>2. CASE queue[b][a] = <<>>
            BY <1>0, <1>4, <2>1, <2>2 DEF HandleGetmsgs, TypeOK, Wires, history
      <2>3. CASE queue[b][a] # <<>>
            <3>1. Head(queue[b][a]) \in Copy /\ Tail(queue[b][a]) \in Seq(Copy)
                  BY <2>3 DEF TypeOK
            <3>2. wire' \in Wires
                  BY <1>4, <2>1, <2>3, <3>1, FrameType, PutType DEF HandleGetmsgs
            <3>3. queue' \in Queues
                  BY <1>0, <1>4, <2>3, RemoveType DEF HandleGetmsgs
            <3>4. QED
                  BY <1>4, <3>2, <3>3 DEF HandleGetmsgs, TypeOK, Wires, Queues, history
      <2>4. QED
            BY <2>2, <2>3
<1>5. [kind |-> "getmsgs"] \in Packet /\ [kind |-> "keepalive"] \in Packet
      BY DEF Packet
<1>6. ASSUME NEW a \in Node, NEW b \in Node, HandleKeepalive(a, b) PROVE TypeOK'
      <2>1. Taken(a, b) \in Wires
            BY <1>0, <1>6, TakenType DEF HandleKeepalive, Arriving
      <2>2. wire' \in Wires
            BY <1>5, <1>6, <2>1, PutType DEF HandleKeepalive
      <2>3. QED
            BY <1>6, <2>2 DEF HandleKeepalive, TypeOK, Wires, history
<1>7. ASSUME NEW n \in Node, KeepaliveRound(n) \/ GetmsgsRound(n) PROVE TypeOK'
      <2>1. wire' \in Wires
            BY <1>0, <1>5, <1>7, PutType DEF KeepaliveRound, GetmsgsRound
      <2>2. QED
            BY <1>7, <2>1 DEF KeepaliveRound, GetmsgsRound, TypeOK, Wires, history
<1>8. ASSUME NEW l \in Pair, LinkUp(l) PROVE TypeOK'
      <2>1. \A n \in Node : \A t \in hand[n] : t.copy.msg \in Msg
            BY <1>0, TaskCopy
      <2>2. crossed' \in SUBSET Msg
            BY <1>8, <2>1 DEF LinkUp, TypeOK
      <2>3. QED
            BY <1>8, <2>2 DEF LinkUp, TypeOK
<1>9. ASSUME NEW l \in Pair, LinkDown(l) PROVE TypeOK'
      <2>1. hand' \in Hands
            BY <1>0, <1>9, LinkDownHand
      <2>2. QED
            BY <1>9, <2>1 DEF LinkDown, TypeOK, Hands, history
<1>10. ASSUME NEW n \in Node, Handle(n) PROVE TypeOK'
       <2>1. wire' \in Wires /\ queue' \in Queues /\ hand' \in Hands
             BY <1>0, <1>10, HandleType
       <2>2. UNCHANGED <<links, sent, history, read>>
             BY <1>10 DEF Handle, Search, Forward, ForwardDangling, Store
       <2>3. QED
             BY <2>1, <2>2 DEF TypeOK, Wires, Queues, Hands, history
<1>11. CASE UNCHANGED vars
       BY <1>11 DEF vars, history, TypeOK
<1>12. QED
       BY <1>1, <1>2, <1>3, <1>4, <1>6, <1>7, <1>8, <1>9, <1>10, <1>11 DEF Next, Receive

(* Every variable has its type; no copy carries more than MaxHops hops.    *)
THEOREM TypeCorrect == Spec => []TypeOK
BY TypeInit, TypeStep, PTL DEF Spec

-----------------------------------------------------------------------------
(* The invariant behind LoopFree: the hops a copy carries are the servers  *)
(* that took it in, except that they may have been left out of a copy that *)
(* only its destination will still receive.                                *)

Good(c) ==
    /\ IsInjective(c.trail)
    /\ c.msg.to \notin Range(c.trail)
    /\ c.hops = c.trail \/ c.hops = <<>>

PacketGood(b, pkt) ==
    pkt.kind = "sendmsg" => Good(pkt.copy) /\ (pkt.copy.hops = <<>> => pkt.copy.msg.to = b)

WiresGood(w) ==
    /\ \A n \in Node : w[n][n] = <<>>
    /\ \A a, b \in Node : \A i \in 1..Len(w[a][b]) : PacketGood(b, w[a][b][i])

StoredGood(n, g, c) ==
    /\ c.msg.to = g
    /\ IF g = n THEN IsInjective(c.trail) ELSE Good(c)

QueuesGood(q) ==
    \A n, g \in Node : \A i \in 1..Len(q[n][g]) : StoredGood(n, g, q[n][g][i])

(* A handler has a copy in hand that goes on with all its hops.            *)
TaskGood(n, t) ==
    /\ Good(t.copy) /\ t.copy.msg.to # n
    /\ t.copy.hops = t.copy.trail
    /\ t.copy.hops # <<>> /\ Len(t.copy.hops) <= Room

HandsGood(h) == \A n \in Node : \A t \in h[n] : TaskGood(n, t)

FloodInv == TypeOK /\ WiresGood(wire) /\ QueuesGood(queue) /\ HandsGood(hand)

(* A server that is not in a trail extends it to one without repetition.   *)
LEMMA TrailGrows ==
    ASSUME NEW t \in Seq(Node), NEW b \in Node, IsInjective(t), b \notin Range(t)
    PROVE  /\ IsInjective(Append(t, b))
           /\ Range(Append(t, b)) = Range(t) \cup {b}
<1>1. /\ Len(Append(t, b)) = Len(t) + 1
      /\ DOMAIN Append(t, b) = 1..Len(t) + 1
      /\ DOMAIN t = 1..Len(t)
      /\ Len(t) \in Nat
      /\ \A i \in 1..Len(t) : Append(t, b)[i] = t[i]
      /\ Append(t, b)[Len(t) + 1] = b
      OBVIOUS
<1>2. \A i \in 1..Len(t) : t[i] # b
      BY <1>1 DEF Range
<1>3. IsInjective(Append(t, b))
      <2> SUFFICES ASSUME NEW i \in 1..Len(t) + 1, NEW j \in 1..Len(t) + 1,
                          Append(t, b)[i] = Append(t, b)[j]
                   PROVE  i = j
          BY <1>1 DEF IsInjective
      <2>1. i \in 1..Len(t) \/ i = Len(t) + 1
            BY <1>1
      <2>2. j \in 1..Len(t) \/ j = Len(t) + 1
            BY <1>1
      <2>3. QED
            BY <1>1, <1>2, <2>1, <2>2 DEF IsInjective
<1>4. Range(Append(t, b)) = Range(t) \cup {b}
      BY <1>1 DEF Range
<1>5. QED
      BY <1>3, <1>4

LEMMA TakenGood ==
    ASSUME wire \in Wires, WiresGood(wire), NEW a \in Node, NEW b \in Node, wire[a][b] # <<>>
    PROVE  a # b /\ WiresGood(Taken(a, b))
<1>1. a # b
      BY DEF WiresGood
<1>2. \A p, q \in Node : Taken(a, b)[p][q] =
         IF p = a /\ q = b THEN Tail(wire[a][b]) ELSE wire[p][q]
      BY DEF Taken, Wires
<1>3. /\ Len(Tail(wire[a][b])) = Len(wire[a][b]) - 1
      /\ \A i \in 1..Len(Tail(wire[a][b])) : Tail(wire[a][b])[i] = wire[a][b][i + 1]
      /\ Len(wire[a][b]) \in Nat
      BY DEF Wires
<1>4. \A i \in 1..Len(Tail(wire[a][b])) : PacketGood(b, Tail(wire[a][b])[i])
      BY <1>3 DEF WiresGood
<1>5. \A n \in Node : Taken(a, b)[n][n] = <<>>
      BY <1>1, <1>2 DEF WiresGood
<1>6. ASSUME NEW p \in Node, NEW q \in Node, NEW i \in 1..Len(Taken(a, b)[p][q])
      PROVE  PacketGood(q, Taken(a, b)[p][q][i])
      <2>1. CASE p = a /\ q = b
            <3>1. Taken(a, b)[p][q] = Tail(wire[a][b])
                  BY <1>2, <2>1
            <3>2. QED
                  BY <1>4, <1>6, <2>1, <3>1
      <2>2. CASE ~(p = a /\ q = b)
            <3>1. Taken(a, b)[p][q] = wire[p][q]
                  BY <1>2, <2>2
            <3>2. QED
                  BY <1>6, <3>1 DEF WiresGood
      <2>3. QED
            BY <2>1, <2>2
<1>7. QED
      BY <1>1, <1>5, <1>6 DEF WiresGood

LEMMA PutGood ==
    ASSUME NEW w \in Wires, WiresGood(w), NEW n \in Node, NEW S, n \notin S,
           NEW pkt \in Packet, \A p \in S : PacketGood(p, pkt)
    PROVE  WiresGood(Put(w, n, S, pkt))
<1>1. \A a, b \in Node : Put(w, n, S, pkt)[a][b] =
         IF a = n /\ b \in S THEN Append(w[n][b], pkt) ELSE w[a][b]
      BY DEF Put, Wires
<1>2. ASSUME NEW b \in Node, b \in S, NEW i \in 1..Len(Append(w[n][b], pkt))
      PROVE  PacketGood(b, Append(w[n][b], pkt)[i])
      <2>1. w[n][b] \in Seq(Packet)
            BY DEF Wires
      <2>2. CASE i \in 1..Len(w[n][b])
            BY <2>1, <2>2 DEF WiresGood
      <2>3. CASE i = Len(w[n][b]) + 1
            BY <1>2, <2>1, <2>3
      <2>4. QED
            BY <2>1, <2>2, <2>3
<1>3. \A a \in Node : Put(w, n, S, pkt)[a][a] = <<>>
      BY <1>1 DEF WiresGood
<1>4. ASSUME NEW a \in Node, NEW b \in Node, NEW i \in 1..Len(Put(w, n, S, pkt)[a][b])
      PROVE  PacketGood(b, Put(w, n, S, pkt)[a][b][i])
      <2>1. CASE a = n /\ b \in S
            <3>1. Put(w, n, S, pkt)[a][b] = Append(w[n][b], pkt)
                  BY <1>1, <2>1
            <3>2. QED
                  BY <1>2, <1>4, <2>1, <3>1
      <2>2. CASE ~(a = n /\ b \in S)
            <3>1. Put(w, n, S, pkt)[a][b] = w[a][b]
                  BY <1>1, <2>2
            <3>2. QED
                  BY <1>4, <3>1 DEF WiresGood
      <2>3. QED
            BY <2>1, <2>2
<1>5. QED
      BY <1>3, <1>4 DEF WiresGood

LEMMA StoreGood ==
    ASSUME queue \in Queues, QueuesGood(queue), NEW n \in Node, NEW g \in Node,
           NEW c \in Copy, StoredGood(n, g, c)
    PROVE  QueuesGood([queue EXCEPT ![n][g] = Append(@, c)])
<1> DEFINE q == [queue EXCEPT ![n][g] = Append(@, c)]
<1>1. \A p, h \in Node : q[p][h] =
         IF p = n /\ h = g THEN Append(queue[n][g], c) ELSE queue[p][h]
      BY DEF Queues
<1>2. ASSUME NEW i \in 1..Len(Append(queue[n][g], c))
      PROVE  StoredGood(n, g, Append(queue[n][g], c)[i])
      <2>1. queue[n][g] \in Seq(Copy)
            BY DEF Queues
      <2>2. CASE i \in 1..Len(queue[n][g])
            BY <2>1, <2>2 DEF QueuesGood
      <2>3. CASE i = Len(queue[n][g]) + 1
            BY <2>1, <2>3
      <2>4. QED
            BY <2>1, <2>2, <2>3
<1>3. QED
      BY <1>1, <1>2 DEF QueuesGood

LEMMA RemoveGood ==
    ASSUME queue \in Queues, QueuesGood(queue), NEW n \in Node, NEW g \in Node,
           queue[n][g] # <<>>
    PROVE  /\ StoredGood(n, g, Head(queue[n][g]))
           /\ QueuesGood([queue EXCEPT ![n][g] = Tail(@)])
<1> DEFINE q == [queue EXCEPT ![n][g] = Tail(@)]
<1>1. \A p, h \in Node : q[p][h] = IF p = n /\ h = g THEN Tail(queue[n][g]) ELSE queue[p][h]
      BY DEF Queues
<1>2. /\ Len(Tail(queue[n][g])) = Len(queue[n][g]) - 1
      /\ \A i \in 1..Len(Tail(queue[n][g])) : Tail(queue[n][g])[i] = queue[n][g][i + 1]
      /\ Len(queue[n][g]) \in Nat \ {0}
      /\ Head(queue[n][g]) = queue[n][g][1]
      BY DEF Queues
<1>3. \A i \in 1..Len(Tail(queue[n][g])) : StoredGood(n, g, Tail(queue[n][g])[i])
      BY <1>2 DEF QueuesGood
<1>4. QED
      BY <1>1, <1>2, <1>3 DEF QueuesGood

(* What a node that is in no trail yet stores and sends is good. *)
LEMMA FrameGood ==
    ASSUME NEW c \in Copy, Good(c), NEW b,
           (c.hops = c.trail /\ Len(c.hops) <= Room /\ c.hops # <<>>) \/ c.msg.to = b
    PROVE  PacketGood(b, Frame(c))
<1> DEFINE f == [c EXCEPT !.hops = IF Len(@) <= Room THEN @ ELSE <<>>]
<1>1. /\ f.trail = c.trail /\ f.msg = c.msg
      /\ f.hops = IF Len(c.hops) <= Room THEN c.hops ELSE <<>>
      BY DEF Copy
<1>2. Frame(c).copy = f
      BY DEF Frame
<1>3. Good(f)
      BY <1>1 DEF Good
<1>4. f.hops = <<>> => f.msg.to = b
      BY <1>1
<1>5. QED
      BY <1>2, <1>3, <1>4 DEF PacketGood

LEMMA PeersOthers == ASSUME TypeOK, NEW n \in Node PROVE n \notin Peers(n)
BY DEF TypeOK, Peers, Pair

(* A handler sends its copy to the destination, or keeps it and floods it. *)
LEMMA HandleGood ==
    ASSUME TypeOK, WiresGood(wire), QueuesGood(queue), HandsGood(hand), NEW n \in Node, Handle(n)
    PROVE  WiresGood(wire') /\ QueuesGood(queue') /\ HandsGood(hand')
<1>0. wire \in Wires /\ queue \in Queues /\ hand \in Hands /\ n \notin Peers(n)
      BY PeersOthers DEF TypeOK, Wires, Queues, Hands
<1>1. PICK t \in hand[n] :
          Search(n, t) \/ Forward(n, t) \/ ForwardDangling(n, t) \/ Store(n, t)
      BY DEF Handle
<1>2. t.copy \in Copy /\ t.copy.msg.to \in Node /\ TaskGood(n, t) /\ t.copy.msg.to # n
      BY <1>0, TaskCopy DEF HandsGood, TaskGood
<1>3. Frame(t.copy) \in Packet /\ \A b : PacketGood(b, Frame(t.copy))
      BY <1>2, FrameType, FrameGood DEF TaskGood
<1>4. ASSUME NEW pc \in {"forward", "dangling", "store"}, Goes(n, t, pc) PROVE HandsGood(hand')
      <2> DEFINE v == [t EXCEPT !.at = pc]
      <2>1. /\ \A x \in Node : \A u \in hand'[x] : u \in hand[x] \/ (x = n /\ u = v)
            /\ v.copy = t.copy
            BY <1>0, <1>4, GoesHand
      <2> HIDE DEF v
      <2>2. TaskGood(n, v)
            BY <1>2, <2>1 DEF TaskGood
      <2>3. QED
            BY <2>1, <2>2 DEF HandsGood
<1>5. Returns(n, t) => HandsGood(hand')
      BY <1>0, ReturnsHand DEF HandsGood
<1>6. CASE Search(n, t)
      BY <1>4, <1>6 DEF Search
<1>7. CASE Forward(n, t)
      BY <1>0, <1>2, <1>3, <1>5, <1>7, PutGood DEF Forward
<1>8. CASE ForwardDangling(n, t)
      <2>1. ASSUME NEW p \in Peers(n) PROVE WiresGood(Put(wire, n, {p}, Frame(t.copy)))
            BY <1>0, <1>3, PutGood
      <2>2. QED
            BY <1>4, <1>5, <1>8, <2>1 DEF ForwardDangling
<1>9. CASE Store(n, t)
      <2>1. StoredGood(n, t.copy.msg.to, t.copy)
            BY <1>2 DEF StoredGood, TaskGood
      <2>2. QueuesGood(queue')
            BY <1>0, <1>2, <1>9, <2>1, StoreGood DEF Store
      <2>3. n \notin Peers(n) \ Range(t.copy.hops)
            BY <1>0
      <2>4. WiresGood(wire')
            BY <1>0, <1>3, <1>9, <2>3, PutGood DEF Store
      <2>5. QED
            BY <1>5, <1>9, <2>2, <2>4 DEF Store
<1>10. QED
       BY <1>1, <1>6, <1>7, <1>8, <1>9

LEMMA TakeInGood ==
    ASSUME TypeOK, WiresGood(wire), QueuesGood(queue), HandsGood(hand), MaxHops <= Room,
           NEW a \in Node, NEW b \in Node, wire[a][b] # <<>>,
           NEW c \in Copy, Good(c), c.hops = <<>> => c.msg.to = b,
           b \notin Range(c.hops), TakeIn(a, b, c)
    PROVE  WiresGood(wire') /\ QueuesGood(queue') /\ HandsGood(hand')
<1>1. wire \in Wires /\ queue \in Queues /\ hand \in Hands
      BY DEF TypeOK, Wires, Queues, Hands
<1>2. WiresGood(wire')
      BY <1>1, TakenGood DEF TakeIn, PassesOn, Keeps
<1>3. c.trail \in Seq(Node) /\ c.hops \in Seq(Node) /\ c.msg.to \in Node
      BY MsgAssumption DEF Copy, Hops
<1>4. b \notin Range(c.trail)
      BY DEF Good
<1>5. /\ IsInjective(Append(c.trail, b))
      /\ Range(Append(c.trail, b)) = Range(c.trail) \cup {b}
      BY <1>3, <1>4, TrailGrows DEF Good
<1>6. CASE PassesOn(a, b, c)
      <2> DEFINE p == PassedOn(c, b)
                 u == [at |-> "search", conn |-> {a, b}, copy |-> p]
      <2>0. Len(c.hops) < MaxHops /\ c.msg.to # b
            BY <1>6 DEF PassesOn
      <2>1. p \in Copy
            BY <2>0, PassedOnType
      <2>2. p.msg = c.msg /\ p.hops = Append(c.hops, b) /\ p.trail = Append(c.trail, b)
            BY <2>0 DEF PassedOn, Copy
      <2>3. p.hops = p.trail
            BY <2>0, <2>2 DEF Good
      <2>4. Good(p)
            BY <1>5, <2>0, <2>2, <2>3 DEF Good
      <2>5. p.hops # <<>> /\ Len(p.hops) <= Room
            <3>1. Len(Append(c.hops, b)) = Len(c.hops) + 1 /\ Append(c.hops, b) # <<>>
                  BY <1>3
            <3>2. Len(c.hops) \in Nat /\ MaxHops \in Nat /\ Room \in Nat
                  BY <1>3, HopAssumption
            <3>3. QED
                  BY <2>0, <2>2, <3>1, <3>2
      <2>6. TaskGood(b, u)
            BY <2>0, <2>2, <2>3, <2>4, <2>5 DEF TaskGood
      <2>7. Begins(b, {a, b}, p) /\ {a, b} \in SUBSET Node
            BY <1>6 DEF PassesOn
      <2> HIDE DEF p
      <2>8. \A x \in Node : \A t \in hand'[x] : t \in hand[x] \/ (x = b /\ t = u)
            BY <1>1, <2>1, <2>7, BeginsHand
      <2> HIDE DEF u
      <2>9. HandsGood(hand')
            BY <2>6, <2>8 DEF HandsGood
      <2>10. QED
            BY <1>2, <1>6, <2>9 DEF PassesOn
<1>7. CASE Keeps(a, b, c)
      <2> DEFINE k == Kept(c, b)
      <2>1. k \in Copy
            BY KeptType
      <2>2. /\ k.msg = c.msg /\ k.trail = Append(c.trail, b)
            /\ k.hops = IF Len(c.hops) < MaxHops THEN c.hops ELSE <<>>
            BY DEF Kept, Copy
      <2>3. StoredGood(b, c.msg.to, k)
            <3>1. Len(c.hops) \in Nat /\ MaxHops \in Nat
                  BY <1>3, HopAssumption
            <3>2. QED
                  BY <1>5, <1>7, <2>2, <3>1 DEF StoredGood, Good, Keeps
      <2> HIDE DEF k
      <2>4. QueuesGood([queue EXCEPT ![b][c.msg.to] = Append(@, k)])
            BY <1>1, <1>3, <2>1, <2>3, StoreGood
      <2>5. QED
            BY <1>2, <1>7, <2>4 DEF Keeps, k
<1>8. QED
      BY <1>6, <1>7 DEF TakeIn

LEMMA FloodInvInit == Init => FloodInv
BY TypeInit DEF FloodInv, Init, WiresGood, QueuesGood, HandsGood

LEMMA FloodInvStep ==
    ASSUME MaxHops <= Room, FloodInv, [Next]_vars PROVE FloodInv'
<1>0. TypeOK' /\ wire \in Wires /\ queue \in Queues /\ hand \in Hands
      BY TypeStep DEF FloodInv, TypeOK, Wires, Queues, Hands
<1> DEFINE Goal == WiresGood(wire') /\ QueuesGood(queue') /\ HandsGood(hand')
<1> SUFFICES Goal
    BY <1>0 DEF FloodInv
<1>1. ASSUME NEW m \in Msg, ClientSend(m) PROVE Goal
      <2> DEFINE n == m.from
                 c == [msg |-> m, hops |-> <<n>>, trail |-> <<n>>]
                 u == [at |-> "search", conn |-> {n}, copy |-> c]
      <2>1. n \in Node /\ m.to \in Node /\ m.to # n
            BY MsgAssumption
      <2>2. c \in Copy /\ Good(c)
            BY <2>1, HopAssumption DEF Copy, Hops, Good, IsInjective, Range
      <2>3. Begins(n, {n}, c) /\ {n} \in SUBSET Node /\ wire' = wire /\ queue' = queue
            BY <1>1, <2>1 DEF ClientSend
      <2>4. TaskGood(n, u)
            <3>1. Len(<<n>>) = 1 /\ <<n>> # <<>> /\ 1 <= Room
                  BY HopAssumption
            <3>2. QED
                  BY <2>1, <2>2, <3>1 DEF TaskGood
      <2> HIDE DEF n, c
      <2>5. \A x \in Node : \A t \in hand'[x] : t \in hand[x] \/ (x = n /\ t = u)
            BY <1>0, <2>1, <2>2, <2>3, BeginsHand
      <2> HIDE DEF u
      <2>6. HandsGood(hand')
            BY <2>4, <2>5 DEF HandsGood, FloodInv
      <2>7. QED
            BY <2>3, <2>6 DEF FloodInv
<1>2. ASSUME NEW n \in Node, ClientGet(n) PROVE Goal
      BY <1>0, <1>2, RemoveGood DEF ClientGet, FloodInv
<1>3. ASSUME NEW a \in Node, NEW b \in Node, HandleSendmsg(a, b) PROVE Goal
      <2> DEFINE c == Head(wire[a][b]).copy
      <2>1. wire[a][b] # <<>> /\ c \in Copy
            BY <1>0, <1>3, ArrivingCopy DEF HandleSendmsg, Arriving
      <2>2. 1 \in 1..Len(wire[a][b]) /\ Head(wire[a][b]) = wire[a][b][1]
            BY <1>0, <2>1 DEF Wires
      <2>3. Good(c) /\ (c.hops = <<>> => c.msg.to = b)
            BY <1>3, <2>2 DEF FloodInv, WiresGood, PacketGood, HandleSendmsg, Arriving
      <2>4. CASE b \in Range(c.hops)
            BY <1>0, <1>3, <2>1, <2>4, TakenGood DEF HandleSendmsg, FloodInv
      <2>5. CASE b \notin Range(c.hops)
            <3>1. TakeIn(a, b, c)
                  BY <1>3, <2>5 DEF HandleSendmsg
            <3> HIDE DEF c
            <3>2. QED
                  BY <2>1, <2>3, <2>5, <3>1, TakeInGood DEF FloodInv
      <2>6. QED
            BY <2>4, <2>5
<1>4. ASSUME NEW a \in Node, NEW b \in Node, HandleGetmsgs(a, b) PROVE Goal
      <2>1. wire[a][b] # <<>>
            BY <1>4 DEF HandleGetmsgs, Arriving
      <2>2. a # b /\ WiresGood(Taken(a, b)) /\ Taken(a, b) \in Wires
            BY <1>0, <2>1, TakenGood, TakenType DEF FloodInv
      <2>3. CASE queue[b][a] = <<>>
            BY <1>4, <2>2, <2>3 DEF HandleGetmsgs, FloodInv
      <2>4. CASE queue[b][a] # <<>>
            <3> DEFINE c == Head(queue[b][a])
            <3>1. c \in Copy
                  BY <1>0, <2>4 DEF Queues
            <3>2. StoredGood(b, a, c) /\ QueuesGood([queue EXCEPT ![b][a] = Tail(@)])
                  BY <1>0, <2>4, RemoveGood DEF FloodInv
            <3>3. Good(c) /\ c.msg.to = a
                  BY <2>2, <3>2 DEF StoredGood
            <3> HIDE DEF c
            <3>4. PacketGood(a, Frame(c)) /\ Frame(c) \in Packet
                  BY <3>1, <3>3, FrameGood, FrameType
            <3>5. WiresGood(Put(Taken(a, b), b, {a}, Frame(c)))
                  BY <2>2, <3>4, PutGood
            <3>6. QED
                  BY <1>4, <2>4, <3>2, <3>5 DEF HandleGetmsgs, FloodInv, c
      <2>5. QED
            BY <2>3, <2>4
<1>5. \A b : PacketGood(b, [kind |-> "getmsgs"]) /\ PacketGood(b, [kind |-> "keepalive"])
      BY DEF PacketGood
<1>6. [kind |-> "getmsgs"] \in Packet /\ [kind |-> "keepalive"] \in Packet
      BY DEF Packet
<1>7. ASSUME NEW a \in Node, NEW b \in Node, HandleKeepalive(a, b) PROVE Goal
      <2>1. a # b /\ WiresGood(Taken(a, b)) /\ Taken(a, b) \in Wires
            BY <1>0, <1>7, TakenGood, TakenType DEF FloodInv, HandleKeepalive, Arriving
      <2>2. WiresGood(Put(Taken(a, b), b, {a}, [kind |-> "getmsgs"]))
            BY <1>5, <1>6, <2>1, PutGood
      <2>3. QED
            BY <1>7, <2>2 DEF HandleKeepalive, FloodInv
<1>8. ASSUME NEW n \in Node, KeepaliveRound(n) \/ GetmsgsRound(n) PROVE Goal
      <2>1. n \notin Peers(n)
            BY PeersOthers DEF FloodInv
      <2>2. WiresGood(Put(wire, n, Peers(n), [kind |-> "getmsgs"]))
            BY <1>0, <1>5, <1>6, <2>1, PutGood DEF FloodInv
      <2>3. WiresGood(Put(wire, n, {p \in Peers(n) : queue[n][p] # <<>>}, [kind |-> "keepalive"]))
            BY <1>0, <1>5, <1>6, <2>1, PutGood DEF FloodInv
      <2>4. QED
            BY <1>8, <2>2, <2>3 DEF KeepaliveRound, GetmsgsRound, FloodInv
<1>9. ASSUME NEW l \in Pair, LinkUp(l) PROVE Goal
      BY <1>9 DEF LinkUp, FloodInv
<1>10. ASSUME NEW l \in Pair, LinkDown(l) PROVE Goal
       <2>1. \A a, b \in Node : wire'[a][b] = IF {a, b} = l THEN <<>> ELSE wire[a][b]
             BY <1>10 DEF LinkDown
       <2>2. WiresGood(wire')
             BY <2>1 DEF FloodInv, WiresGood
       <2>3. \A x \in Node : \A u \in hand'[x] : \E t \in hand[x] : u.copy = t.copy
             BY <1>0, <1>10, LinkDownHand DEF Without
       <2>4. HandsGood(hand')
             BY <2>3 DEF FloodInv, HandsGood, TaskGood
       <2>5. QED
             BY <1>10, <2>2, <2>4 DEF LinkDown, FloodInv
<1>11. ASSUME NEW n \in Node, Handle(n) PROVE Goal
       BY <1>11, HandleGood DEF FloodInv
<1>12. CASE UNCHANGED vars
       BY <1>12 DEF vars, FloodInv
<1>13. QED
       BY <1>1, <1>2, <1>3, <1>4, <1>7, <1>8, <1>9, <1>10, <1>11, <1>12 DEF Next, Receive

LEMMA FloodInvLoopFree == FloodInv => LoopFree
<1> SUFFICES ASSUME FloodInv, NEW a \in Node, NEW b \in Node,
                    NEW c \in InFlight(a, b) \cup Stored(a, b) \cup InHand(a)
             PROVE  IsInjective(c.trail)
    BY DEF LoopFree
<1>1. DOMAIN wire[a][b] = 1..Len(wire[a][b]) /\ DOMAIN queue[a][b] = 1..Len(queue[a][b])
      BY DEF FloodInv, TypeOK
<1>2. CASE c \in InFlight(a, b)
      <2>1. PICK i \in 1..Len(wire[a][b]) :
                wire[a][b][i].kind = "sendmsg" /\ c = wire[a][b][i].copy
            BY <1>1, <1>2 DEF InFlight
      <2>2. QED
            BY <2>1 DEF FloodInv, WiresGood, PacketGood, Good
<1>3. CASE c \in Stored(a, b)
      <2>1. PICK i \in 1..Len(queue[a][b]) : c = queue[a][b][i]
            BY <1>1, <1>3 DEF Stored, Range
      <2>2. QED
            BY <2>1 DEF FloodInv, QueuesGood, StoredGood, Good
<1>4. CASE c \in InHand(a)
      BY <1>4 DEF InHand, FloodInv, HandsGood, TaskGood, Good
<1>5. QED
      BY <1>2, <1>3, <1>4

(* However many servers, and however they are linked, no server takes the  *)
(* same copy in twice, provided that MAX_HOPS hops fit beside the message  *)
(* (buildSENDMSG never leaves the hops out).                               *)
THEOREM FloodsDoNotCircle == ASSUME MaxHops <= Room PROVE Spec => []LoopFree
<1>1. FloodInv /\ [Next]_vars => FloodInv'
      BY FloodInvStep
<1>2. QED
      BY <1>1, FloodInvInit, FloodInvLoopFree, PTL DEF Spec
=============================================================================
