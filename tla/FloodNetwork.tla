---------------------------- MODULE FloodNetwork ----------------------------
(***************************************************************************)
(* Store-and-forward of messages across several servers                    *)
(* (src/Botnet/botnet/server.cpp, protocol.cpp).  A server hands a message *)
(* to its destination when it is connected to it; otherwise it keeps a     *)
(* copy in messageQueue and floods copies to its peers.  The list of hops  *)
(* carried by a copy is what keeps the flood from running in circles.      *)
(* Stored copies leave when the destination asks for them (GETMSGS), which *)
(* its health monitor does in rounds and its KEEPALIVE handler on demand.  *)
(*                                                                         *)
(* A node is a server and its group id.  Links are established connections *)
(* (ConnectionTable models how they come about), one FIFO channel per      *)
(* direction; a link that falls loses what it carries.                     *)
(*                                                                         *)
(* A SENDMSG handler is cut where serverMutex is released: it searches for *)
(* the destination in one critical section, sends outside the mutex, and   *)
(* keeps and floods in another, with links that come and go in between.    *)
(* The other handlers have one critical section that matters to other      *)
(* servers, and are one step (MessageRouter cuts them inside a server).    *)
(*                                                                         *)
(* Abstracted: contents and timestamps; commands that change no message    *)
(* (NO_MESSAGES, STATUSREQ, STATUSRESP, KEEPALIVE with a count of 0).      *)
(***************************************************************************)
EXTENDS Naturals, Sequences, FiniteSets, Functions

CONSTANTS
    Node,     \* servers, each with its group id
    Msg,      \* messages clients send, each once: [from, to, no]
    Links,    \* the links that are up at the start
    MayRise,  \* links that may come up
    MayFall,  \* links that may go down
    Asking,   \* bound: the servers whose GETMSGS rounds are explored
    MaxHops,  \* MAX_HOPS (48 in the code)
    Room      \* hops that buildSENDMSG can add to a message of this length

Pair == {{a, b} : a, b \in Node} \ {{a} : a \in Node}

ASSUME MsgAssumption ==        \* a client writes to other groups than its own
    /\ Msg \subseteq [from : Node, to : Node, no : Nat]
    /\ \A m \in Msg : m.from # m.to
ASSUME LinkAssumption == Links \cup MayRise \cup MayFall \subseteq Pair
ASSUME HopAssumption  == MaxHops \in Nat \ {0} /\ Room \in Nat

VARIABLES
    links,     \* the links that are up
    wire,      \* the frames in flight from one node to another
    queue,     \* messageQueue of every node, per destination
    hand,      \* the SENDMSG handlers under way at every node
    sent,      \* messages clients have sent
    promised,  \* history: those whose destination could be reached then
    crossed,   \* history: those whose destination connected to a node that
               \* had searched for it and was about to keep them
    read       \* how often each message was handed to a client

history == <<promised, crossed>>
vars    == <<links, wire, queue, hand, sent, history, read>>

-----------------------------------------------------------------------------
(* A copy of a message: trail, which the code does not keep, lists the     *)
(* servers that took it in. *)
Hops   == {h \in Seq(Node) : Len(h) <= MaxHops}
Copy   == [msg : Msg, hops : Hops, trail : Seq(Node)]
Packet == [kind : {"sendmsg"}, copy : Copy] \cup [kind : {"getmsgs", "keepalive"}]

(* A handler with what it is about to pass on.  Its thread serves the link *)
(* conn, or, in main, the client ({n}), or a link that has fallen ({}).  A *)
(* reference found by the search dangles once its link has fallen.         *)
Task == [at : {"search", "forward", "dangling", "store"}, conn : SUBSET Node, copy : Copy]

Peers(n) == {p \in Node : {n, p} \in links}

Init ==
    /\ links    = Links
    /\ wire     = [a \in Node |-> [b \in Node |-> <<>>]]
    /\ queue    = [n \in Node |-> [g \in Node |-> <<>>]]
    /\ hand     = [n \in Node |-> {}]
    /\ sent     = {}
    /\ promised = {}
    /\ crossed  = {}
    /\ read     = [m \in Msg |-> 0]

(* Frame pkt sent by n to every node of S, onto the channels w. *)
Put(w, n, S, pkt) ==
    [w EXCEPT ![n] = [p \in Node |-> IF p \in S THEN Append(w[n][p], pkt) ELSE w[n][p]]]

(* buildSENDMSG leaves the hops out altogether when they do not fit. *)
Frame(c) == [kind |-> "sendmsg",
             copy |-> [c EXCEPT !.hops = IF Len(@) <= Room THEN @ ELSE <<>>]]

(* The thread of connection l at n has a handler under way. *)
Busy(n, l) == \E t \in hand[n] : t.conn = l

Begins(n, l, c) ==
    hand' = [hand EXCEPT ![n] = @ \cup {[at |-> "search", conn |-> l, copy |-> c]}]
Goes(n, t, pc)  ==
    hand' = [hand EXCEPT ![n] = (@ \ {t}) \cup {[t EXCEPT !.at = pc]}]
Returns(n, t)   ==
    hand' = [hand EXCEPT ![n] = @ \ {t}]

(* Both SENDMSG handlers, from the search on.  The search finds the        *)
(* destination among the peers or not ... *)
Search(n, t) ==
    /\ t.at = "search"
    /\ Goes(n, t, IF t.copy.msg.to \in Peers(n) THEN "forward" ELSE "store")
    /\ UNCHANGED <<links, wire, queue, sent, history, read>>

ForwardAndStore(n, t) ==       \* mutant: fwd is not set
    /\ t.at = "forward"
    /\ wire' = Put(wire, n, {t.copy.msg.to}, Frame(t.copy))
    /\ Goes(n, t, "store")
    /\ UNCHANGED <<links, queue, sent, history, read>>

(* ... outside the mutex the copy goes to the connection that was found,   *)
(* or, through a reference to one that has ended, to any or to none ...    *)
Forward(n, t) ==
    /\ t.at = "forward"
    /\ wire' = Put(wire, n, {t.copy.msg.to}, Frame(t.copy))
    /\ Returns(n, t)
    /\ UNCHANGED <<links, queue, sent, history, read>>

ForwardDangling(n, t) ==
    /\ t.at = "dangling"
    /\ \/ \E p \in Peers(n) : wire' = Put(wire, n, {p}, Frame(t.copy)) /\ Returns(n, t)
       \/ UNCHANGED wire /\ Goes(n, t, "store")
    /\ UNCHANGED <<links, queue, sent, history, read>>

StoreUnflooded(n, t) ==        \* mutant: kept without a flood
    /\ t.at = "store"
    /\ queue' = [queue EXCEPT ![n][t.copy.msg.to] = Append(@, t.copy)]
    /\ Returns(n, t)
    /\ UNCHANGED <<links, wire, sent, history, read>>

(* ... and what was not sent is kept, and flooded to those who are peers   *)
(* by now. *)
Store(n, t) ==
    /\ t.at = "store"
    /\ queue' = [queue EXCEPT ![n][t.copy.msg.to] = Append(@, t.copy)]
    /\ wire'  = Put(wire, n, Peers(n) \ Range(t.copy.hops), Frame(t.copy))
    /\ Returns(n, t)
    /\ UNCHANGED <<links, sent, history, read>>

Handle(n) ==
    \E t \in hand[n] : Search(n, t) \/ Forward(n, t) \/ ForwardDangling(n, t) \/ Store(n, t)

-----------------------------------------------------------------------------
(* Nodes within k links of n. *)
Within(n, k) ==
    LET near[i \in Nat] == IF i = 0 THEN {n}
                           ELSE near[i - 1] \cup UNION {Peers(p) : p \in near[i - 1]}
    IN near[k]

(* handleClientCommand, SENDMSG: main serves one client at a time. *)
ClientSend(m) ==
    /\ m \notin sent /\ ~Busy(m.from, {m.from})
    /\ Begins(m.from, {m.from}, [msg |-> m, hops |-> <<m.from>>, trail |-> <<m.from>>])
    /\ sent'     = sent \cup {m}
    /\ promised' = IF m.to \in Within(m.from, MaxHops) THEN promised \cup {m} ELSE promised
    /\ UNCHANGED <<links, wire, queue, crossed, read>>

ClientGetKeeps(n) ==           \* mutant: handed over and not removed
    /\ queue[n][n] # <<>> /\ ~Busy(n, {n})
    /\ read' = [read EXCEPT ![Head(queue[n][n]).msg] = @ + 1]
    /\ UNCHANGED <<links, wire, queue, hand, sent, history>>

(* handleClientCommand, GETMSG. *)
ClientGet(n) ==
    /\ queue[n][n] # <<>> /\ ~Busy(n, {n})
    /\ read'  = [read EXCEPT ![Head(queue[n][n]).msg] = @ + 1]
    /\ queue' = [queue EXCEPT ![n][n] = Tail(@)]
    /\ UNCHANGED <<links, wire, hand, sent, history>>

-----------------------------------------------------------------------------
(* handleServerCommand at node b, for a frame from node a.                 *)

Arriving(a, b, kind) == /\ wire[a][b] # <<>> /\ Head(wire[a][b]).kind = kind
                        /\ ~Busy(b, {a, b})
Taken(a, b)          == [wire EXCEPT ![a][b] = Tail(@)]

(* What b sends on: the hops gain b's id, except that a copy without hops  *)
(* gains the sender's. *)
PassedOnForgetful(c, b) ==     \* mutant: the servers before b are forgotten
    [c EXCEPT !.hops  = IF @ = <<>> THEN <<c.msg.from>> ELSE <<b>>,
              !.trail = Append(@, b)]

PassedOn(c, b) ==
    [c EXCEPT !.hops  = IF @ = <<>> THEN <<c.msg.from>> ELSE Append(@, b),
              !.trail = Append(@, b)]

Kept(c, b) ==
    [c EXCEPT !.hops  = IF Len(@) < MaxHops THEN @ ELSE <<>>,
              !.trail = Append(@, b)]

PassesOnLate(a, b, c) ==       \* mutant: one hop too many
    /\ Len(c.hops) <= MaxHops /\ c.msg.to # b
    /\ wire' = Taken(a, b)
    /\ Begins(b, {a, b}, PassedOn(c, b))
    /\ UNCHANGED queue

(* A copy that b has not seen is on its way on, or kept at its destination, *)
(* or kept without its hops once there are too many.                        *)
PassesOn(a, b, c) ==
    /\ Len(c.hops) < MaxHops /\ c.msg.to # b
    /\ wire' = Taken(a, b)
    /\ Begins(b, {a, b}, PassedOn(c, b))
    /\ UNCHANGED queue

Keeps(a, b, c) ==
    /\ Len(c.hops) >= MaxHops \/ c.msg.to = b
    /\ wire'  = Taken(a, b)
    /\ queue' = [queue EXCEPT ![b][c.msg.to] = Append(@, Kept(c, b))]
    /\ UNCHANGED hand

TakeIn(a, b, c) == PassesOn(a, b, c) \/ Keeps(a, b, c)

SendmsgReturned(a, b) ==       \* mutant: a copy that is refused is sent back
    /\ Arriving(a, b, "sendmsg")
    /\ LET c == Head(wire[a][b]).copy IN
       IF b \in Range(c.hops) \/ Len(c.hops) >= MaxHops
       THEN wire' = Put(Taken(a, b), b, {a}, Frame(c)) /\ UNCHANGED <<queue, hand>>
       ELSE TakeIn(a, b, c)
    /\ UNCHANGED <<links, sent, history, read>>

HandleSendmsg(a, b) ==
    /\ Arriving(a, b, "sendmsg")
    /\ LET c == Head(wire[a][b]).copy IN
       IF b \in Range(c.hops)
       THEN wire' = Taken(a, b) /\ UNCHANGED <<queue, hand>>
       ELSE TakeIn(a, b, c)
    /\ UNCHANGED <<links, sent, history, read>>

GetmsgsKeepsLast(a, b) ==      \* mutant: the last message of a queue is kept
    /\ Arriving(a, b, "getmsgs")
    /\ IF Len(queue[b][a]) <= 1
       THEN wire' = Taken(a, b) /\ UNCHANGED queue
       ELSE /\ wire'  = Put(Taken(a, b), b, {a}, Frame(Head(queue[b][a])))
            /\ queue' = [queue EXCEPT ![b][a] = Tail(@)]
    /\ UNCHANGED <<links, hand, sent, history, read>>

(* GETMSGS asks for the group that sends it; one message per request. *)
HandleGetmsgs(a, b) ==
    /\ Arriving(a, b, "getmsgs")
    /\ IF queue[b][a] = <<>>
       THEN wire' = Taken(a, b) /\ UNCHANGED queue
       ELSE /\ wire'  = Put(Taken(a, b), b, {a}, Frame(Head(queue[b][a])))
            /\ queue' = [queue EXCEPT ![b][a] = Tail(@)]
    /\ UNCHANGED <<links, hand, sent, history, read>>

HandleKeepalive(a, b) ==
    /\ Arriving(a, b, "keepalive")
    /\ wire' = Put(Taken(a, b), b, {a}, [kind |-> "getmsgs"])
    /\ UNCHANGED <<links, queue, hand, sent, history, read>>

-----------------------------------------------------------------------------
(* The health monitor's rounds.  Bound: a round waits until the requests   *)
(* of the one before have been taken up; they are 60 and 90 seconds apart. *)
Pending(a, b, kind) == \E i \in DOMAIN wire[a][b] : wire[a][b][i].kind = kind

KeepaliveRound(n) ==
    LET S == {p \in Peers(n) : queue[n][p] # <<>>} IN
    /\ S # {}
    /\ \A p \in S : ~Pending(n, p, "keepalive") /\ ~Pending(p, n, "getmsgs")
    /\ wire' = Put(wire, n, S, [kind |-> "keepalive"])
    /\ UNCHANGED <<links, queue, hand, sent, history, read>>

GetmsgsRound(n) ==
    /\ n \in Asking /\ Peers(n) # {}
    /\ \A p \in Peers(n) : ~Pending(n, p, "getmsgs")
    /\ wire' = Put(wire, n, Peers(n), [kind |-> "getmsgs"])
    /\ UNCHANGED <<links, queue, hand, sent, history, read>>

-----------------------------------------------------------------------------
(* Connections come and go; a connection that ends takes its frames along. *)
LinkUp(l) ==
    /\ l \in MayRise \ links
    /\ links'   = links \cup {l}
    /\ crossed' = crossed \cup {t.copy.msg : t \in
                    UNION {{t \in hand[n] : /\ t.at \in {"dangling", "store"}
                                            /\ l = {n, t.copy.msg.to}} : n \in Node}}
    /\ UNCHANGED <<wire, queue, hand, sent, promised, read>>

(* A handler at n goes on when link l has fallen. *)
Without(n, l, t) ==
    [at   |-> IF t.at = "forward" /\ l = {n, t.copy.msg.to} THEN "dangling" ELSE t.at,
     conn |-> IF t.conn = l THEN {} ELSE t.conn,
     copy |-> t.copy]

LinkDown(l) ==
    /\ l \in MayFall \cap links
    /\ links' = links \ {l}
    /\ wire'  = [a \in Node |-> [b \in Node |-> IF {a, b} = l THEN <<>> ELSE wire[a][b]]]
    /\ hand'  = [n \in Node |-> {Without(n, l, t) : t \in hand[n]}]
    /\ UNCHANGED <<queue, sent, history, read>>

-----------------------------------------------------------------------------
Receive(a, b) == HandleSendmsg(a, b) \/ HandleGetmsgs(a, b) \/ HandleKeepalive(a, b)

Next ==
    \/ \E m \in Msg : ClientSend(m)
    \/ \E n \in Node : Handle(n) \/ ClientGet(n) \/ KeepaliveRound(n) \/ GetmsgsRound(n)
    \/ \E a, b \in Node : Receive(a, b)
    \/ \E l \in Pair : LinkUp(l) \/ LinkDown(l)

Spec == Init /\ [][Next]_vars

(* Every peer thread goes on receiving, every handler goes on, and every   *)
(* health monitor makes its rounds; clients and links owe nothing. *)
FairSpec ==
    /\ Spec
    /\ \A a, b \in Node : WF_vars(Receive(a, b))
    /\ \A n \in Node : /\ WF_vars(Handle(n))
                       /\ WF_vars(KeepaliveRound(n)) /\ WF_vars(GetmsgsRound(n))

-----------------------------------------------------------------------------
(* Properties.                                                             *)

(* Every variable has its type, and no copy, in flight or stored, carries  *)
(* more than MaxHops hops. *)
TypeOK ==
    /\ links \in SUBSET Pair
    /\ wire  \in [Node -> [Node -> Seq(Packet)]]
    /\ queue \in [Node -> [Node -> Seq(Copy)]]
    /\ hand  \in [Node -> SUBSET Task]
    /\ sent \in SUBSET Msg /\ promised \in SUBSET sent /\ crossed \in SUBSET Msg
    /\ read \in [Msg -> Nat]

InFlight(a, b) == {wire[a][b][i].copy : i \in
                     {j \in DOMAIN wire[a][b] : wire[a][b][j].kind = "sendmsg"}}
Stored(n, g)   == Range(queue[n][g])
InHand(n)      == {t.copy : t \in hand[n]}

(* No copy is ever taken in twice by the same server, whatever way it      *)
(* went: the hop list stops every circle.                                  *)
LoopFree ==
    \A a, b \in Node : \A c \in InFlight(a, b) \cup Stored(a, b) \cup InHand(a) : IsInjective(c.trail)

(* Every flood ends: after finitely many messages no copy is in flight.    *)
FloodsEnd == <>[](\A a, b \in Node : InFlight(a, b) = {} /\ hand[a] = {})

Arrived(m) == read[m] > 0 \/ \E c \in Stored(m.to, m.to) : c.msg = m

(* A message whose destination is reachable when it is sent gets there,    *)
(* as long as no link falls. *)
PromisesKept == \A m \in Msg : m \in promised ~> Arrived(m)

(* A copy kept for a group is handed over once that group is a peer, or    *)
(* the link falls first. *)
StoredReachesPeer ==
    \A n \in Node, g \in {m.to : m \in Msg} :
        queue[n][g] # <<>> /\ {n, g} \in links ~> queue[n][g] = <<>> \/ {n, g} \notin links

(* How many copies of m have come out, or will, at its destination.        *)
Copies(m) == read[m] + Cardinality({i \in DOMAIN queue[m.to][m.to] :
                                        queue[m.to][m.to][i].msg = m})

(* The links there ever are, and the part of the network that is reached   *)
(* from b without the link between a and b. *)
Possible == Links \cup MayRise

Closed(S, L) == \A p \in S, q \in Node : {p, q} \in L => q \in S

Beyond(a, b) ==
    {n \in Node : \A S \in SUBSET Node :
                      b \in S /\ Closed(S, Possible \ {{a, b}}) => n \in S}

(* No circle: each link is the only way between its ends. *)
Forest == \A a, b \in Node : {a, b} \in Possible => a \notin Beyond(a, b)

(* Where the links form no circle nothing arrives twice, neither by two    *)
(* ways nor forwarded and fetched from a queue as well, but for messages   *)
(* whose destination connected to a server between its search for it and   *)
(* the critical section that keeps the message and floods it. *)
OnceOnTree == Forest => \A m \in Msg \ crossed : Copies(m) <= 1

Promise == INSTANCE AtMostOnce WITH
    excused <- crossed, arrived <- [m \in Msg |-> Copies(m)], got <- read

(* A network without a circle does what AtMostOnce says: it delivers only  *)
(* what was sent, one message at a time and no message again that was not  *)
(* crossed before, and hands over each arrival once. *)
DeliversOnce == Promise!Spec
=============================================================================
