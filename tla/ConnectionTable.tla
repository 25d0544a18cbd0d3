--------------------------- MODULE ConnectionTable ---------------------------
(***************************************************************************)
(* The peer connection table of the store-and-forward server               *)
(* (src/Botnet/botnet/server.cpp): connectedServers, connectedGroupIds,    *)
(* the descriptors behind them, and the threads that share them.           *)
(*                                                                         *)
(* Three kinds of thread run here.  The main thread opens connections at   *)
(* start-up and then accepts them one at a time; the health monitor drops  *)
(* dead and silent connections and opens new ones; every established       *)
(* connection has a peer thread that blocks in receiveCommand.             *)
(*                                                                         *)
(* A critical section of serverMutex is one atomic action; what the code   *)
(* does outside the mutex (close, accept, socket, recv, pthread_create) is *)
(* an action of its own, or joined to a neighbouring critical section it   *)
(* commutes with.  Descriptor numbers are reused: the kernel hands out     *)
(* the lowest free one, and close acts on a number, whoever owns it now.   *)
(*                                                                         *)
(* Abstracted: message traffic (MessageRouter), who chooses the addresses  *)
(* to connect to, the lists exchanged in SERVERS, wall-clock time (a       *)
(* silent peer is one whose thread is blocked in recv).  A peer sends      *)
(* well-formed frames, and a frame whose bytes come from two connections   *)
(* never parses.                                                           *)
(***************************************************************************)
EXTENDS Naturals, FiniteSets

CONSTANTS
    Fd,           \* descriptor numbers
    Conn,         \* TCP connections that may come to exist
    Group,        \* group ids that peers announce (MyGroup may be one)
    MyGroup,      \* MY_GROUP_ID
    NoGroup,      \* the empty group id
    Addr,         \* addresses the server may connect to
    None,         \* no descriptor, connection or address
    MaxServers,   \* the limit that connectToServer tests (8 in the code)
    SpawnMayFail  \* whether pthread_create may fail

ASSUME FdAssumption    == Fd \subseteq Nat
ASSUME NoneAssumption  == None \notin Conn \cup Fd \cup Addr
ASSUME GroupAssumption == NoGroup \notin Group /\ MyGroup # NoGroup
ASSUME LimitAssumption == MaxServers \in Nat
ASSUME SpawnAssumption == SpawnMayFail \in BOOLEAN

VARIABLES
    file,       \* the descriptor table of the process: Fd -> connection or None
    remote,     \* the far end of each connection: "fresh", "open", "shut"
    servers,    \* connectedServers: Fd -> entry
    groupIds,   \* connectedGroupIds
    worker,     \* the main and the health thread
    peer,       \* the peer thread started for each connection
    serving     \* main has left start-up and is in its accept loop

vars == <<file, remote, servers, groupIds, worker, peer, serving>>

-----------------------------------------------------------------------------
Worker   == {"main", "health"}
GroupId  == Group \cup {NoGroup}

(* An entry of connectedServers; conn names the connection it was created  *)
(* for.  The entry of an absent key has conn = None.                       *)
Entry    == [gid : GroupId, addr : Addr \cup {None}, conn : Conn \cup {None}]
NoEntry  == [gid |-> NoGroup, addr |-> None, conn |-> None]
Present(f)  == servers[f].conn # None
Connected   == {f \in Fd : Present(f)}

WorkerPc == {"idle",                          \* accept / sleep / start-up
             "first", "client",               \* main: receiveCommand, client loop
             "insert", "helo", "check",       \* main: an inbound HELO
             "spawn", "reject", "erase",      \* main: thread, or close then erase
             "hello", "servers",              \* connectToServer: awaiting replies
             "register",                      \* connectToServer: last section
             "outSpawn", "outClose"}          \* connectToServer: thread, close
WorkerState == [pc : WorkerPc, fd : Fd \cup {None}, conn : Conn \cup {None},
                gid : GroupId, addr : Addr \cup {None}]
IdleWorker  == [pc |-> "idle", fd |-> None, conn |-> None,
                gid |-> NoGroup, addr |-> None]

(* A peer thread knows a descriptor only; on is the connection its current *)
(* recv blocks on, gid the group of a HELO it has received.                *)
PeerPc    == {"none", "loop", "recv", "handle", "cleanup", "close", "done"}
PeerState == [pc : PeerPc, fd : Fd \cup {None}, on : Conn \cup {None}, gid : GroupId]
NoPeer    == [pc |-> "none", fd |-> None, on |-> None, gid |-> NoGroup]
DonePeer  == [NoPeer EXCEPT !.pc = "done"]

Init ==
    /\ file     = [f \in Fd |-> None]
    /\ remote   = [c \in Conn |-> "fresh"]
    /\ servers  = [f \in Fd |-> NoEntry]
    /\ groupIds = {}
    /\ worker   = [w \in Worker |-> IdleWorker]
    /\ peer     = [c \in Conn |-> NoPeer]
    /\ serving  = FALSE

-----------------------------------------------------------------------------
(* Descriptors and connections.                                            *)

(* socket() and accept() return the lowest free descriptor. *)
LowestFree(f) == /\ file[f] = None
                 /\ \A h \in Fd : h < f => file[h] # None

Open(f, c) == /\ LowestFree(f)
              /\ remote[c] = "fresh"
              /\ file'   = [file EXCEPT ![f] = c]
              /\ remote' = [remote EXCEPT ![c] = "open"]

Close(f) == file' = [file EXCEPT ![f] = None]

(* A connection without a descriptor and without a thread blocked on it    *)
(* counts as shut: when its far end closes can no longer be observed.      *)
Forget ==
    remote' = [c \in Conn |->
                 IF /\ remote[c] = "open"
                    /\ \A f \in Fd : file'[f] # c
                    /\ \A t \in Conn : ~(peer'[t].pc = "recv" /\ peer'[t].on = c)
                 THEN "shut" ELSE remote[c]]

(* receiveCommand(f) by a thread blocked on connection c: it delivers a    *)
(* command while f still names c, and fails once the far end has closed or *)
(* f was closed, or reused, under the blocked thread.                      *)
CanReceive(f, c)   == c # None /\ file[f] = c /\ remote[c] = "open"
ReceiveFails(f, c) == ~CanReceive(f, c)

(* sendCommand(f): it can only fail on a dead descriptor or a far end that *)
(* has closed.                                                             *)
SendCanFail(f) == file[f] # None => remote[file[f]] = "shut"

(* The far end closes. *)
RemoteClose(c) ==
    /\ remote[c] = "open"
    /\ remote' = [remote EXCEPT ![c] = "shut"]
    /\ UNCHANGED <<file, servers, groupIds, worker, peer, serving>>

-----------------------------------------------------------------------------
(* The HELO branch of handleServerCommand, one critical section, run by    *)
(* main for a new connection and by a peer thread for an established one.  *)
HeloUntested(f, g) ==          \* mutant: no duplicate test
    IF ~Present(f)
    THEN UNCHANGED <<servers, groupIds>>
    ELSE /\ servers'  = [servers EXCEPT ![f].gid = g]
         /\ groupIds' = groupIds \cup {g}

HeloUnregistered(f, g) ==      \* mutant: the group id is not inserted
    IF g \in groupIds \/ ~Present(f)
    THEN UNCHANGED <<servers, groupIds>>
    ELSE /\ servers'  = [servers EXCEPT ![f].gid = g]
         /\ groupIds' = groupIds

HandleHelo(f, g) ==
    IF g \in groupIds \/ ~Present(f)
    THEN UNCHANGED <<servers, groupIds>>
    ELSE /\ servers'  = [servers EXCEPT ![f].gid = g]
         /\ groupIds' = groupIds \cup {g}

-----------------------------------------------------------------------------
(* The main thread: accept loop.                                           *)

Moves(w, pc, g) ==
    worker' = [worker EXCEPT ![w] = [pc |-> pc, fd |-> worker[w].fd, gid |-> g,
                                     conn |-> worker[w].conn, addr |-> worker[w].addr]]

StartServing ==
    /\ ~serving
    /\ worker["main"].pc = "idle"
    /\ serving' = TRUE
    /\ UNCHANGED <<file, remote, servers, groupIds, worker, peer>>

Accept(f, c) ==
    /\ serving
    /\ worker["main"].pc = "idle"
    /\ Open(f, c)
    /\ worker' = [worker EXCEPT !["main"] =
                    [IdleWorker EXCEPT !.pc = "first", !.fd = f, !.conn = c]]
    /\ UNCHANGED <<servers, groupIds, peer, serving>>

FirstIsHelo(g) ==
    LET m == worker["main"] IN
    /\ m.pc = "first"
    /\ CanReceive(m.fd, m.conn)
    /\ Moves("main", "insert", g)
    /\ UNCHANGED <<file, remote, servers, groupIds, peer, serving>>

(* The connection enters the table with an empty group id and port 0. *)
MainInsert ==
    LET m == worker["main"] IN
    /\ m.pc = "insert"
    /\ servers' = [servers EXCEPT ![m.fd] = [NoEntry EXCEPT !.conn = m.conn]]
    /\ worker'  = [worker EXCEPT !["main"].pc = "helo"]
    /\ UNCHANGED <<file, remote, groupIds, peer, serving>>

(* Any other first command makes the connection a client's; main serves it *)
(* until it ends. *)
FirstIsClient ==
    LET m == worker["main"] IN
    /\ m.pc = "first"
    /\ CanReceive(m.fd, m.conn)
    /\ worker' = [worker EXCEPT !["main"].pc = "client"]
    /\ UNCHANGED <<file, remote, servers, groupIds, peer, serving>>

MainKeepsSocket ==             \* mutant: no close after a failed receive
    LET m == worker["main"] IN
    /\ m.pc \in {"first", "client"}
    /\ ReceiveFails(m.fd, m.conn)
    /\ worker' = [worker EXCEPT !["main"] = IdleWorker]
    /\ UNCHANGED <<file, remote, servers, groupIds, peer, serving>>

MainReceiveFails ==
    LET m == worker["main"] IN
    /\ m.pc \in {"first", "client"}
    /\ ReceiveFails(m.fd, m.conn)
    /\ Close(m.fd)
    /\ worker' = [worker EXCEPT !["main"] = IdleWorker]
    /\ UNCHANGED <<servers, groupIds, peer, serving>>
    /\ Forget

(* handleServerCommand(cSock, "HELO,g"); a HELO without a group id (gid =  *)
(* NoGroup) falls through every branch. *)
MainHelo ==
    LET m == worker["main"] IN
    /\ m.pc = "helo"
    /\ IF m.gid = NoGroup THEN UNCHANGED <<servers, groupIds>>
                          ELSE HandleHelo(m.fd, m.gid)
    /\ worker' = [worker EXCEPT !["main"].pc = "check"]
    /\ UNCHANGED <<file, remote, peer, serving>>

(* Accepted: still in the table with a group id. *)
MainCheck ==
    LET m == worker["main"] IN
    /\ m.pc = "check"
    /\ worker' = [worker EXCEPT !["main"].pc =
                    IF Present(m.fd) /\ servers[m.fd].gid # NoGroup
                    THEN "spawn" ELSE "reject"]
    /\ UNCHANGED <<file, remote, servers, groupIds, peer, serving>>

StartPeerFreed(c, f) ==        \* mutant: the argument is freed before it is read
    peer' = [peer EXCEPT ![c] = [NoPeer EXCEPT !.pc = "loop", !.fd = None]]

StartPeer(c, f) ==
    peer' = [peer EXCEPT ![c] = [NoPeer EXCEPT !.pc = "loop", !.fd = f]]

MainSpawn ==
    LET m == worker["main"] IN
    /\ m.pc = "spawn"
    /\ StartPeer(m.conn, m.fd)
    /\ worker' = [worker EXCEPT !["main"] = IdleWorker]
    /\ UNCHANGED <<file, remote, servers, groupIds, serving>>

(* No thread for an accepted peer: from here on the code does what it does *)
(* for a rejected one, and the group id stays in connectedGroupIds.        *)
MainSpawnFails ==
    /\ SpawnMayFail
    /\ worker["main"].pc = "spawn"
    /\ worker' = [worker EXCEPT !["main"].pc = "reject"]
    /\ UNCHANGED <<file, remote, servers, groupIds, peer, serving>>

(* The descriptor is closed first ... *)
MainRejectClose ==
    LET m == worker["main"] IN
    /\ m.pc = "reject"
    /\ Close(m.fd)
    /\ worker' = [worker EXCEPT !["main"].pc = "erase"]
    /\ UNCHANGED <<servers, groupIds, peer, serving>>
    /\ Forget

RejectFreesGroup ==            \* mutant: frees the group id as a clean-up does
    LET m == worker["main"] IN
    /\ m.pc = "erase"
    /\ servers'  = [servers EXCEPT ![m.fd] = NoEntry]
    /\ groupIds' = groupIds \ {m.gid}
    /\ worker'   = [worker EXCEPT !["main"] = IdleWorker]
    /\ UNCHANGED <<file, remote, peer, serving>>

(* ... and its table entry erased afterwards. *)
MainRejectErase ==
    LET m == worker["main"] IN
    /\ m.pc = "erase"
    /\ servers' = [servers EXCEPT ![m.fd] = NoEntry]
    /\ worker'  = [worker EXCEPT !["main"] = IdleWorker]
    /\ UNCHANGED <<file, remote, groupIds, peer, serving>>

-----------------------------------------------------------------------------
(* connectToServer, called by main during start-up and by the health       *)
(* thread.                                                                 *)

MayConnect(w) == worker[w].pc = "idle" /\ (w = "main" => ~serving)

(* The address and the limit are tested, the mutex released, and only then *)
(* is the socket opened and HELO sent. *)
OutConnect(w, a, f, c) ==
    /\ MayConnect(w)
    /\ \A h \in Connected : servers[h].addr # a
    /\ Cardinality(Connected) < MaxServers
    /\ Open(f, c)
    /\ worker' = [worker EXCEPT ![w] =
                    [pc |-> "hello", fd |-> f, conn |-> c, gid |-> NoGroup, addr |-> a]]
    /\ UNCHANGED <<servers, groupIds, peer, serving>>

(* connect refused, no answer in time, the connection lost, or an answer   *)
(* that is neither HELO nor SERVERS. *)
OutFails(w) ==
    /\ worker[w].pc \in {"hello", "servers"}
    /\ Moves(w, "outClose", NoGroup)
    /\ UNCHANGED <<file, remote, servers, groupIds, peer, serving>>

(* The responder answers HELO: a first duplicate test, then SERVERS is sent *)
(* and awaited. *)
OutHelo(w, g) ==
    /\ worker[w].pc = "hello"
    /\ CanReceive(worker[w].fd, worker[w].conn)
    /\ IF g \in groupIds THEN Moves(w, "outClose", NoGroup)
                         ELSE Moves(w, "servers", g)
    /\ UNCHANGED <<file, remote, servers, groupIds, peer, serving>>

(* SERVERS as the first answer: the responder is the first server listed,  *)
(* or nobody (NoGroup) when that entry is incomplete.  SERVERS after HELO: *)
(* the responder is the group that said HELO.                              *)
OutServers(w, g) ==
    /\ worker[w].pc \in {"hello", "servers"}
    /\ worker[w].pc = "servers" => g = worker[w].gid
    /\ CanReceive(worker[w].fd, worker[w].conn)
    /\ Moves(w, "register", g)
    /\ UNCHANGED <<file, remote, servers, groupIds, peer, serving>>

RegisterUntested(w) ==         \* mutant: no second duplicate test
    LET s == worker[w] IN
    /\ s.pc = "register"
    /\ IF s.gid = MyGroup
       THEN Moves(w, "outClose", NoGroup) /\ UNCHANGED <<servers, groupIds>>
       ELSE /\ servers'  = [servers EXCEPT ![s.fd] =
                               [gid |-> s.gid, addr |-> s.addr, conn |-> s.conn]]
            /\ groupIds' = groupIds \cup {s.gid}
            /\ worker'   = [worker EXCEPT ![w].pc = "outSpawn"]
    /\ UNCHANGED <<file, remote, peer, serving>>

(* The critical section that ends the handshake: own group and duplicates  *)
(* are refused, everyone else is entered in both structures at once.       *)
OutRegister(w) ==
    LET s == worker[w] IN
    /\ s.pc = "register"
    /\ IF s.gid = MyGroup \/ s.gid \in groupIds
       THEN Moves(w, "outClose", NoGroup) /\ UNCHANGED <<servers, groupIds>>
       ELSE /\ servers'  = [servers EXCEPT ![s.fd] =
                               [gid |-> s.gid, addr |-> s.addr, conn |-> s.conn]]
            /\ groupIds' = groupIds \cup {s.gid}
            /\ worker'   = [worker EXCEPT ![w].pc = "outSpawn"]
    /\ UNCHANGED <<file, remote, peer, serving>>

OutSpawn(w) ==
    /\ worker[w].pc = "outSpawn"
    /\ StartPeer(worker[w].conn, worker[w].fd)
    /\ worker' = [worker EXCEPT ![w] = IdleWorker]
    /\ UNCHANGED <<file, remote, servers, groupIds, serving>>

OutSpawnFails(w) ==
    /\ SpawnMayFail
    /\ worker[w].pc = "outSpawn"
    /\ servers'  = [servers EXCEPT ![worker[w].fd] = NoEntry]
    /\ groupIds' = groupIds \ {worker[w].gid}
    /\ Moves(w, "outClose", NoGroup)
    /\ UNCHANGED <<file, remote, peer, serving>>

OutClose(w) ==
    /\ worker[w].pc = "outClose"
    /\ Close(worker[w].fd)
    /\ worker' = [worker EXCEPT ![w] = IdleWorker]
    /\ UNCHANGED <<servers, groupIds, peer, serving>>
    /\ Forget

-----------------------------------------------------------------------------
DropForgets(S) ==              \* mutant: the group ids stay
    /\ worker["health"].pc = "idle"
    /\ servers'  = [f \in Fd |-> IF f \in S THEN NoEntry ELSE servers[f]]
    /\ groupIds' = groupIds
    /\ file'     = [f \in Fd |-> IF f \in S THEN None ELSE file[f]]
    /\ UNCHANGED <<worker, peer, serving>>
    /\ Forget

(* The health monitor removes a set of connections in one critical         *)
(* section: from both structures, and their descriptors are closed.  Their *)
(* peer threads stay blocked in recv.                                      *)
Drop(S) ==
    /\ worker["health"].pc = "idle"
    /\ servers'  = [f \in Fd |-> IF f \in S THEN NoEntry ELSE servers[f]]
    /\ groupIds' = groupIds \ {servers[f].gid : f \in S}
    /\ file'     = [f \in Fd |-> IF f \in S THEN None ELSE file[f]]
    /\ UNCHANGED <<worker, peer, serving>>
    /\ Forget

(* KEEPALIVE, GETMSGS and STATUSREQ rounds: those whose send failed. *)
DropFailed(S) ==
    /\ \A f \in S : Present(f) /\ servers[f].gid # NoGroup /\ SendCanFail(f)
    /\ Drop(S)

(* The 300 second sweep: those not heard of, whose thread is in recv. *)
DropSilent(S) ==
    /\ \A f \in S : /\ Present(f)
                    /\ \E t \in Conn : peer[t].pc = "recv" /\ peer[t].fd = f
    /\ Drop(S)

-----------------------------------------------------------------------------
(* peerCommunicationThread                                                 *)

Goes(t, pc, on, g) ==
    peer' = [peer EXCEPT ![t] = [pc |-> pc, fd |-> peer[t].fd, on |-> on, gid |-> g]]

(* Each round reads from whatever connection the descriptor names then. *)
PeerBlock(t) ==
    /\ peer[t].pc = "loop"
    /\ Goes(t, "recv", file[peer[t].fd], NoGroup)
    /\ UNCHANGED <<file, remote, servers, groupIds, worker, serving>>

(* HELO from group g, or any other command (NoGroup). *)
PeerReceive(t, g) ==
    /\ peer[t].pc = "recv"
    /\ CanReceive(peer[t].fd, peer[t].on)
    /\ Goes(t, "handle", None, g)
    /\ UNCHANGED <<file, remote, servers, groupIds, worker, serving>>

PeerHandle(t) ==
    /\ peer[t].pc = "handle"
    /\ IF peer[t].gid = NoGroup THEN UNCHANGED <<servers, groupIds>>
                                ELSE HandleHelo(peer[t].fd, peer[t].gid)
    /\ Goes(t, "loop", None, NoGroup)
    /\ UNCHANGED <<file, remote, worker, serving>>

PeerReceiveFails(t) ==
    /\ peer[t].pc = "recv"
    /\ ReceiveFails(peer[t].fd, peer[t].on)
    /\ Goes(t, "cleanup", None, NoGroup)
    /\ UNCHANGED <<file, servers, groupIds, worker, serving>>
    /\ Forget

(* Whatever entry the descriptor has now goes, with its group id. *)
PeerCleanup(t) ==
    LET f == peer[t].fd IN
    /\ peer[t].pc = "cleanup"
    /\ IF Present(f)
       THEN /\ groupIds' = groupIds \ {servers[f].gid}
            /\ servers'  = [servers EXCEPT ![f] = NoEntry]
       ELSE UNCHANGED <<servers, groupIds>>
    /\ Goes(t, "close", None, NoGroup)
    /\ UNCHANGED <<file, remote, worker, serving>>

(* close(sock) is unconditional. *)
PeerClose(t) ==
    /\ peer[t].pc = "close"
    /\ Close(peer[t].fd)
    /\ peer' = [peer EXCEPT ![t] = DonePeer]
    /\ UNCHANGED <<servers, groupIds, worker, serving>>
    /\ Forget

-----------------------------------------------------------------------------
MainNext ==
    \/ StartServing
    \/ \E f \in Fd, c \in Conn : Accept(f, c)
    \/ \E g \in GroupId : FirstIsHelo(g)
    \/ MainInsert
    \/ FirstIsClient
    \/ MainReceiveFails
    \/ MainHelo
    \/ MainCheck
    \/ MainSpawn
    \/ MainSpawnFails
    \/ MainRejectClose
    \/ MainRejectErase

OutNext(w) ==
    \/ \E a \in Addr, f \in Fd, c \in Conn : OutConnect(w, a, f, c)
    \/ OutFails(w)
    \/ \E g \in Group : OutHelo(w, g)
    \/ \E g \in GroupId : OutServers(w, g)
    \/ OutRegister(w)
    \/ OutSpawn(w)
    \/ OutSpawnFails(w)
    \/ OutClose(w)

HealthNext ==
    \E S \in (SUBSET Fd) \ {{}} : DropFailed(S) \/ DropSilent(S)

PeerNext(t) ==
    \/ PeerBlock(t)
    \/ \E g \in GroupId : PeerReceive(t, g)
    \/ PeerHandle(t)
    \/ PeerReceiveFails(t)
    \/ PeerCleanup(t)
    \/ PeerClose(t)

Next ==
    \/ MainNext
    \/ \E w \in Worker : OutNext(w)
    \/ HealthNext
    \/ \E t \in Conn : PeerNext(t) \/ RemoteClose(t)

Spec == Init /\ [][Next]_vars

(* Scheduling: a thread that can go on does.  Accepting, connecting and the *)
(* far ends owe nothing; a handshake that gets no answer times out.  A     *)
(* thread whose descriptor was closed under it is only woken by the far    *)
(* end of the connection it is blocked on.                                 *)
WorkerStep(w) ==
    \/ MainReceiveFails /\ w = "main"
    \/ (MainInsert \/ MainHelo \/ MainCheck \/ MainRejectClose \/ MainRejectErase) /\ w = "main"
    \/ (MainSpawn \/ MainSpawnFails) /\ w = "main"
    \/ OutFails(w) \/ OutRegister(w) \/ OutSpawn(w) \/ OutSpawnFails(w) \/ OutClose(w)

PeerStep(t) ==
    \/ /\ PeerReceiveFails(t)
       /\ peer[t].on # None => remote[peer[t].on] = "shut"
    \/ PeerBlock(t) \/ PeerHandle(t) \/ PeerCleanup(t) \/ PeerClose(t)

Fairness == /\ \A w \in Worker : WF_vars(WorkerStep(w))
            /\ \A t \in Conn : WF_vars(PeerStep(t))

FairSpec == Spec /\ Fairness

-----------------------------------------------------------------------------
(* Properties.                                                             *)

(* A thread at work has a descriptor, and a worker a connection. *)
ThreadShape ==
    /\ \A w \in Worker : worker[w].pc # "idle" => worker[w].fd \in Fd /\ worker[w].conn \in Conn
    /\ \A t \in Conn : peer[t].pc \notin {"none", "done"} => peer[t].fd \in Fd

(* Every variable has its type, and the threads their shape. *)
TypeOK ==
    /\ file     \in [Fd -> Conn \cup {None}]
    /\ remote   \in [Conn -> {"fresh", "open", "shut"}]
    /\ servers  \in [Fd -> Entry]
    /\ groupIds \in SUBSET GroupId
    /\ worker   \in [Worker -> WorkerState]
    /\ peer     \in [Conn -> PeerState]
    /\ serving  \in BOOLEAN
    /\ ThreadShape

(* No two entries of connectedServers carry the same group: simultaneous   *)
(* inbound and outbound handshakes, renames and descriptor reuse included. *)
UniqueGroups ==
    \A f, h \in Fd : servers[f].gid = servers[h].gid /\ servers[f].gid # NoGroup
                       => f = h

(* Every group in connectedServers is also in connectedGroupIds, the set   *)
(* the duplicate tests look at: no thread frees a group id that another    *)
(* connection still holds.                                                 *)
GroupsRegistered ==
    \A f \in Fd : servers[f].gid # NoGroup => servers[f].gid \in groupIds

(* No descriptor is lost: an open one is with the thread that will close   *)
(* it, the worker that opened it or the peer thread started with it, even  *)
(* after sweeps and closes by number have put other connections under the  *)
(* descriptors that threads hold.                                          *)
DescriptorsHeld ==
    \A f \in Fd : file[f] # None =>
        \/ \E w \in Worker : /\ worker[w].pc \notin {"idle", "erase"}
                             /\ worker[w].fd = f /\ worker[w].conn = file[f]
        \/ peer[file[f]].pc \notin {"none", "done"} /\ peer[file[f]].fd = f

(* A group id is only freed, for others to connect under, by a step that   *)
(* takes the connection holding it out of the table.                       *)
FreedWithConnection ==
    [][\A g \in Group : g \in groupIds /\ g \notin groupIds'
          => \E f \in Fd : servers[f].gid = g /\ ~Present(f)']_vars

(* A group id that no connection holds is refused as a duplicate for ever. *)
(* It is left behind in two ways only: a HELO gives its connection another *)
(* group id; or main or connectToServer, busy with the same descriptor,    *)
(* erases or overwrites the entry, which may be of a later connection, or  *)
(* renamed under it.  What the monitor drops and a peer thread cleans up   *)
(* leaves nothing behind.                                                  *)
LeftBehind(g) == g \in groupIds /\ \A f \in Fd : servers[f].gid # g

LeftByRenameOrMixUp ==
    [][\A g \in Group : LeftBehind(g)' /\ ~LeftBehind(g) =>
          \E f \in Fd : /\ servers[f].gid = g
                        /\ \/ servers'[f].conn = servers[f].conn
                           \/ \E w \in Worker : worker[w].fd = f /\ worker'[w] # worker[w]]_vars

(* The table is a registry of groups that admits one connection per group. *)
Registry == INSTANCE PeerRegistry
    WITH Slot <- Fd, Nobody <- NoGroup, member <- [f \in Fd |-> servers[f].gid]

Refinement == Registry!Spec

(* A connection whose far end has closed does not keep its descriptor.     *)
DescriptorsReleased ==
    \A c \in Conn : remote[c] = "shut" ~> \A f \in Fd : file[f] # c

-----------------------------------------------------------------------------
(* What the comments, the log lines and the README say, and the code does  *)
(* not do.                                                                 *)

(* "Peer g disconnected": the peer whose entry a thread is about to remove *)
(* is the one whose connection has ended.                                  *)
CleanupErasesOwn ==
    \A t \in Conn : peer[t].pc = "cleanup" /\ Present(peer[t].fd)
                      => servers[peer[t].fd].conn = t
=============================================================================
