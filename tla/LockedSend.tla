----------------------------- MODULE LockedSend -----------------------------
(***************************************************************************)
(* Who waits for whom in a network of servers (src/Botnet/botnet/          *)
(* server.cpp).  Each server has one mutex, serverMutex, and three kinds   *)
(* of threads: the health monitor, a peer thread per connection, and main, *)
(* which serves one client after the other.  Sockets have no send timeout: *)
(* send blocks while the connection has no room, and the rounds of the     *)
(* monitor and the floods send with the mutex held.  A peer thread reads   *)
(* on only after it has had the mutex.                                     *)
(*                                                                         *)
(* Critical sections with no send in them are one step that needs the      *)
(* mutex to be free; those with a send have Lock, Send and Finish.         *)
(*                                                                         *)
(* Abstracted: what frames say, except for what decides where a message    *)
(* goes; when clients connect (their connections wait from the start);     *)
(* making and ending connections between servers (ConnectionTable), the    *)
(* rounds' times (HealthMonitor), searches, a failing send.  A client      *)
(* reads its answers, and hangs up between commands.                       *)
(***************************************************************************)
EXTENDS Naturals, Sequences, SequencesExt

CONSTANTS
    Server,    \* servers that run this program
    Deaf,      \* peers that have stopped reading, and send nothing
    Peers,     \* connectedServers: for each server, its peers and their descriptors
    Client,
    Queue,     \* for each server, the clients that have connected, in their order
    None,      \* nobody; a destination that nobody is connected to
    Dest,      \* bound: where messages are for
    Cap,       \* bound: frames a connection has room for
    MaxRounds, \* bound: rounds of all monitors
    MaxAsk     \* bound: commands of all clients

Node == Server \cup Deaf

PeersOf(s) == DOMAIN Peers[s]
Monitor(s) == <<s, "monitor">>
Main(s)    == <<s, "main">>
Peer(s, t) == <<s, t>>
Thread == UNION {{Monitor(s), Main(s)} \cup {Peer(s, t) : t \in PeersOf(s)} : s \in Server}

ASSUME NodeAssumption ==
    /\ Server \cap Deaf = {}
    /\ Dest \subseteq Node \cup {None}
    /\ {None, "monitor", "main"} \cap Node = {} /\ None \notin Client \cup Thread
ASSUME PeersAssumption ==
    \A s \in Server :
        /\ PeersOf(s) \subseteq Node \ {s}
        /\ Peers[s] \in [PeersOf(s) -> Nat]
        /\ \A t, u \in PeersOf(s) : t # u => Peers[s][t] # Peers[s][u]
        /\ \A t \in Server : t \in PeersOf(s) <=> s \in PeersOf(t)
ASSUME ClientAssumption ==
    /\ Queue \in [Server -> Seq(Client)]
    /\ \A c \in Client : \E s \in Server : Contains(Queue[s], c)
ASSUME BoundAssumption  == Cap \in Nat \ {0} /\ {MaxRounds, MaxAsk} \subseteq Nat

(* The connections, once for each direction. *)
Pipe == {p \in Node \X Node : \/ p[1] \in Server /\ p[2] \in PeersOf(p[1])
                              \/ p[2] \in Server /\ p[1] \in PeersOf(p[2])}

VARIABLES
    lock,     \* serverMutex: the thread that holds it
    pc,       \* where each thread is
    frame,    \* what it sends, or has received
    todo,     \* the peers it has yet to send to
    chan,     \* what is on the way on each connection
    client,   \* what each client is doing
    backlog,  \* clients that wait to be accepted
    serving,  \* the client that main serves
    rounds, asks  \* rounds and commands so far, for the bounds

vars == <<lock, pc, frame, todo, chan, client, backlog, serving, rounds, asks>>

-----------------------------------------------------------------------------
Place == {"sleep", "accept", "recv", "lock", "send", "touch", "again", "command"}
Kind  == {"keepalive", "ask", "answer", "message"}
Frame == [kind : Kind, to : Node \cup {None}, hops : SUBSET Server]
Plain(k) == [kind |-> k, to |-> None, hops |-> {}]

Start(x) == IF x = Monitor(x[1]) THEN "sleep"
            ELSE IF x = Main(x[1]) THEN "accept" ELSE "recv"

Init ==
    /\ lock    = [s \in Server |-> None]
    /\ pc      = [x \in Thread |-> Start(x)]
    /\ frame   = [x \in Thread |-> Plain("answer")]
    /\ todo    = [x \in Thread |-> {}]
    /\ chan    = [p \in Pipe |-> <<>>]
    /\ client  = [c \in Client |-> "idle"]
    /\ backlog = Queue
    /\ serving = [s \in Server |-> None]
    /\ rounds  = 0
    /\ asks    = 0

Free(x) == lock[x[1]] = None

NoRoom(p) == FALSE             \* mutant: send never waits
Full(p)   == Len(chan[p]) >= Cap

(* The loop over connectedServers, which is in the order of the            *)
(* descriptors, is at peer t. *)
At(x, t) == /\ t \in todo[x]
            /\ \A u \in todo[x] : Peers[x[1]][t] <= Peers[x[1]][u]

(* What thread x waits for is there: the mutex, room on the connection it  *)
(* sends on next, or something to read. *)
Ready(x) ==
    \/ pc[x] \in {"lock", "touch", "again"} /\ Free(x)
    \/ pc[x] = "send" /\ \A t \in todo[x] : At(x, t) => ~Full(<<x[1], t>>)
    \/ pc[x] = "recv" /\ chan[<<x[2], x[1]>>] # <<>>

(* Thread x goes on to state p, to send f to the peers ts. *)
Goes(x, p, f, ts) ==
    /\ pc'    = [pc EXCEPT ![x] = p]
    /\ frame' = [frame EXCEPT ![x] = f]
    /\ todo'  = [todo EXCEPT ![x] = ts]

Rests(x, p) == Goes(x, p, Plain("answer"), {})

-----------------------------------------------------------------------------
(* Every thread: sending. *)
Lock(x) ==
    /\ pc[x] = "lock" /\ Ready(x)
    /\ lock' = [lock EXCEPT ![x[1]] = x]
    /\ pc'   = [pc EXCEPT ![x] = "send"]
    /\ UNCHANGED <<frame, todo, chan, client, backlog, serving, rounds, asks>>

(* send to the next peer, which waits for room. *)
Send(x) ==
    /\ pc[x] = "send" /\ Ready(x)
    /\ \E t \in todo[x] :
          /\ At(x, t)
          /\ chan' = [chan EXCEPT ![<<x[1], t>>] = Append(@, frame[x])]
          /\ todo' = [todo EXCEPT ![x] = @ \ {t}]
    /\ UNCHANGED <<lock, pc, frame, client, backlog, serving, rounds, asks>>

UnlockOfMonitor(x) ==          \* mutant: a flood does not unlock
    lock' = IF lock[x[1]] = x /\ x = Monitor(x[1]) THEN [lock EXCEPT ![x[1]] = None] ELSE lock

Unlock(x) == lock' = IF lock[x[1]] = x THEN [lock EXCEPT ![x[1]] = None] ELSE lock

(* All is sent.  What was sent without the mutex is followed by a short    *)
(* critical section, and so is every frame a peer thread has handled.      *)
Finish(x) ==
    /\ pc[x] = "send" /\ todo[x] = {}
    /\ Unlock(x)
    /\ IF x = Main(x[1]) /\ lock[x[1]] = x
       THEN /\ client' = [client EXCEPT ![serving[x[1]]] = "idle"]
            /\ Rests(x, "command")
       ELSE /\ Rests(x, IF x = Monitor(x[1]) THEN "sleep" ELSE "again")
            /\ UNCHANGED client
    /\ UNCHANGED <<chan, backlog, serving, rounds, asks>>

(* The health monitor wakes up for a round. *)
Wake(s) ==
    /\ pc[Monitor(s)] = "sleep" /\ rounds < MaxRounds
    /\ rounds' = rounds + 1
    /\ \E k \in {"keepalive", "ask"} : Goes(Monitor(s), "lock", Plain(k), PeersOf(s))
    /\ UNCHANGED <<lock, chan, client, backlog, serving, asks>>

-----------------------------------------------------------------------------
(* A peer thread: receiveCommand, and handleServerCommand up to its send. *)
Receive(s, t) ==
    LET x == Peer(s, t) IN
    /\ pc[x] = "recv" /\ Ready(x)
    /\ chan' = [chan EXCEPT ![<<t, s>>] = Tail(@)]
    /\ Goes(x, "touch", Head(chan[<<t, s>>]), {})
    /\ UNCHANGED <<lock, client, backlog, serving, rounds, asks>>

(* A message is delivered here, sent to its destination without the mutex, *)
(* or flooded with it. *)
Pass(x, s, f) ==
    LET g == [f EXCEPT !.hops = @ \cup {s}] IN
    \/ (s \in f.hops \/ f.to = s) /\ Rests(x, "again")
    \/ /\ s \notin f.hops /\ f.to \in PeersOf(s)
       /\ Goes(x, "send", g, {f.to})
    \/ /\ s \notin f.hops /\ f.to \notin PeersOf(s) \cup {s}
       /\ Goes(x, "lock", g, PeersOf(s) \ g.hops)

Handle(s, t) ==
    LET x == Peer(s, t)
        f == frame[x] IN
    /\ pc[x] = "touch" /\ Ready(x)
    /\ \/ f.kind = "keepalive" /\ Goes(x, "send", Plain("ask"), {t})
       \/ f.kind \in {"keepalive", "answer"} /\ Rests(x, "again")
       \/ f.kind = "ask" /\ Goes(x, "send", Plain("answer"), {t})
       \/ f.kind = "message" /\ Pass(x, s, f)
    /\ UNCHANGED <<lock, chan, client, backlog, serving, rounds, asks>>

(* The critical section after a send: lastSeen again, or the lookup's end. *)
Again(x) ==
    /\ pc[x] = "again" /\ Ready(x)
    /\ IF x = Main(x[1])
       THEN /\ client' = [client EXCEPT ![serving[x[1]]] = "idle"]
            /\ Rests(x, "command")
       ELSE UNCHANGED client /\ Rests(x, "recv")
    /\ UNCHANGED <<lock, chan, backlog, serving, rounds, asks>>

-----------------------------------------------------------------------------
(* main serves one client until it hangs up. *)
Accept(s) ==
    /\ pc[Main(s)] = "accept" /\ backlog[s] # <<>>
    /\ serving' = [serving EXCEPT ![s] = Head(backlog[s])]
    /\ backlog' = [backlog EXCEPT ![s] = Tail(@)]
    /\ Rests(Main(s), "command")
    /\ UNCHANGED <<lock, chan, client, rounds, asks>>

Command(s) ==
    /\ pc[Main(s)] = "command" /\ client[serving[s]] = "waiting" /\ Free(Main(s))
    /\ \/ /\ client' = [client EXCEPT ![serving[s]] = "idle"]    \* GETMSG, LISTSERVERS
          /\ Rests(Main(s), "command")
       \/ /\ \E to \in Dest \cap PeersOf(s) :                              \* SENDMSG
                Goes(Main(s), "send", [kind |-> "message", to |-> to, hops |-> {s}], {to})
          /\ UNCHANGED client
       \/ /\ \E to \in Dest \ PeersOf(s) :
                Goes(Main(s), "lock", [kind |-> "message", to |-> to, hops |-> {s}], PeersOf(s))
          /\ UNCHANGED client
    /\ UNCHANGED <<lock, chan, backlog, serving, rounds, asks>>

CloseStays(s) ==               \* mutant: main goes on reading the closed connection
    /\ pc[Main(s)] = "command" /\ client[serving[s]] = "gone"
    /\ pc' = [pc EXCEPT ![Main(s)] = "recv"]
    /\ UNCHANGED <<lock, frame, todo, chan, client, backlog, serving, rounds, asks>>

Close(s) ==
    /\ pc[Main(s)] = "command" /\ client[serving[s]] = "gone"
    /\ serving' = [serving EXCEPT ![s] = None]
    /\ Rests(Main(s), "accept")
    /\ UNCHANGED <<lock, chan, client, backlog, rounds, asks>>

(* The clients' users. *)
Ask(c) ==
    /\ client[c] = "idle" /\ asks < MaxAsk
    /\ client' = [client EXCEPT ![c] = "waiting"]
    /\ asks'   = asks + 1
    /\ UNCHANGED <<lock, pc, frame, todo, chan, backlog, serving, rounds>>

HangUp(c) ==
    /\ client[c] = "idle"
    /\ client' = [client EXCEPT ![c] = "gone"]
    /\ UNCHANGED <<lock, pc, frame, todo, chan, backlog, serving, rounds, asks>>

-----------------------------------------------------------------------------
Serves(s) == Accept(s) \/ Command(s) \/ Close(s)

(* The steps of a thread that depend on no user and no clock. *)
Step(x) == \/ Lock(x) \/ Send(x) \/ Finish(x) \/ Again(x)
           \/ x = Main(x[1]) /\ Serves(x[1])
           \/ x[2] \in Node /\ (Receive(x[1], x[2]) \/ Handle(x[1], x[2]))

Threads == \E x \in Thread : Step(x)

Next == \/ Threads
        \/ \E s \in Server : Wake(s)
        \/ \E c \in Client : Ask(c) \/ HangUp(c)

Spec == Init /\ [][Next]_vars

(* Some thread that can goes on; rounds and users come or do not come.     *)
(* With a bounded load this is enough, and asks nothing of the mutex.      *)
FairSpec == Spec /\ WF_vars(Threads)

-----------------------------------------------------------------------------
(* Properties.                                                             *)

(* Every variable has its type; a connection holds what it has room for. *)
TypeOK ==
    /\ lock \in [Server -> Thread \cup {None}]
    /\ pc \in [Thread -> Place]
    /\ frame \in [Thread -> Frame]
    /\ todo \in [Thread -> SUBSET Node] /\ \A x \in Thread : todo[x] \subseteq PeersOf(x[1])
    /\ chan \in [Pipe -> Seq(Frame)] /\ \A p \in Pipe : Len(chan[p]) <= Cap
    /\ client \in [Client -> {"idle", "waiting", "gone"}]
    /\ backlog \in [Server -> Seq(Client)]
    /\ serving \in [Server -> Client \cup {None}]
    /\ rounds \in 0 .. MaxRounds /\ asks \in 0 .. MaxAsk

(* A thread of s waits for room on the connection to t. *)
Blocked(s, t) ==
    \E x \in Thread : x[1] = s /\ pc[x] = "send" /\ At(x, t) /\ Full(<<s, t>>)

(* Servers that block each other in a circle, or one that a peer blocks    *)
(* which has stopped reading. *)
Jam ==
    \/ \E s \in Server, t \in Deaf : Blocked(s, t)
    \/ \E S \in (SUBSET Server) \ {{}} : \A s \in S : \E t \in S : Blocked(s, t)

(* All threads that have something to do are stopped at once only in such  *)
(* a jam: waiting for a mutex, by itself, never stops the network. *)
StopsOnlyInJam ==
    (\E x \in Thread : pc[x] \in {"lock", "send", "touch", "again"})
        => Jam \/ \E x \in Thread : Ready(x)

(* A command is answered, unless a jam lasts for good, or the client that  *)
(* main serves instead neither asks nor hangs up. *)
Answered ==
    \A c \in Client :
        \/ client[c] = "waiting" ~> client[c] # "waiting"
        \/ <>[]Jam
        \/ <>[](\E s \in Server : /\ Contains(Queue[s], c)
                                 /\ serving[s] \notin {None, c} /\ client[serving[s]] = "idle")
=============================================================================
