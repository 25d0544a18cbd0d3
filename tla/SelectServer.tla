---------------------------- MODULE SelectServer ----------------------------
(***************************************************************************)
(* The command server of src/onlyConnect/server.cpp, which serves all its  *)
(* clients from one select loop, and its clients (client.cpp, myclient.cpp *)
(* beside it), which send a command and wait for an answer.                *)
(*                                                                         *)
(* The server is one thread.  A round is one turn of its loop: Select,     *)
(* Accept when the listening socket is ready, HandleClient for each ready  *)
(* client in the order of the map, EndRound.  Clients connect, ask and     *)
(* leave at any time between these steps.  Three things keep the loop      *)
(* going together: the map clients, the set openSockets, and maxfds.       *)
(*                                                                         *)
(* openSockets is never cleared and clientLen never set: both start with   *)
(* what is on the stack.  A garbage bit would make select fail if it named *)
(* a closed descriptor below maxfds; it may watch those the process was    *)
(* born with.  A negative clientLen makes accept fail.  What accept's -1   *)
(* does to a set of descriptors is undefined, and so is reading a command  *)
(* that fills the buffer to its last byte.  After that the model stops.    *)
(*                                                                         *)
(* Abstracted: what commands say and print (a command is a number of       *)
(* bytes, an answer the number of reads that take it in), urgent data.     *)
(* What popen runs ends, and an answer fits in the socket's buffers.       *)
(***************************************************************************)
EXTENDS Integers, Sequences, FiniteSets

CONSTANTS
    Conn,     \* clients, each with its connection
    Fd,       \* descriptors that accept may return
    Listen,   \* listenSock
    Std,      \* descriptors open from the start: stdin, stdout, stderr
    Backlog,  \* BACKLOG
    Size,     \* sizeof(buffer) (1025 in the code)
    Lengths,  \* the lengths of commands
    MaxOut,   \* bound: the reads that the longest answer takes
    MaxAsk,   \* bound: commands per client
    None      \* no connection, no byte

Bit == Fd \cup Std \cup {Listen}

ASSUME BitAssumption ==
    /\ Bit \subseteq Nat /\ IsFiniteSet(Bit)
    /\ Listen \notin Fd \cup Std /\ Fd \cap Std = {}
    /\ \A f \in Fd : Listen < f
ASSUME SizeAssumption == Size \in Nat \ {0} /\ Lengths \subseteq Nat
ASSUME NoneAssumption == None \notin Conn
ASSUME CapAssumption  == Backlog \in Nat /\ MaxOut \in Nat /\ MaxAsk \in Nat

VARIABLES
    file,         \* the descriptors of clients: Fd -> connection or None
    clients,      \* the keys of clients
    openSockets,  \* the bits of openSockets
    maxfds,
    clientLen,    \* clientLen is not negative
    pc,           \* where the loop is
    ready,        \* the bits of readSockets that the round has yet to visit
    n,            \* what select returned, less what has been handled
    toClear,      \* clientSocketsToClear
    buffer,       \* buffer: whose byte is where, None for a zero
    status,       \* "running" or "undefined"
    far,          \* what each client is doing
    backlog,      \* connections that wait to be accepted
    asked,        \* commands each client has sent
    toServer,     \* bytes on the way from each client
    toClient,     \* reads' worth of answers on the way to it
    mute,         \* clients whose command had no answer
    heard,        \* clients whose bytes were received in this round
    garbage       \* the bits openSockets started with

sets    == <<clients, openSockets, maxfds>>
round   == <<pc, ready, n, toClear>>
peers   == <<far, backlog, asked, toServer, toClient, mute>>
chance  == <<clientLen, garbage>>
vars    == <<file, sets, round, buffer, status, peers, heard, chance>>

-----------------------------------------------------------------------------
Zeroed == [i \in 1 .. Size |-> None]

(* Before main opens the listening socket nothing is connected; the stack  *)
(* decides about openSockets and clientLen. *)
Init ==
    /\ file        = [f \in Fd |-> None]
    /\ clients     = {}
    /\ garbage     \in SUBSET (Fd \cup Std)
    /\ openSockets = garbage \cup {Listen}
    /\ maxfds      = Listen
    /\ clientLen   \in BOOLEAN
    /\ pc          = "select"
    /\ ready       = {}
    /\ n           = 0
    /\ toClear     = {}
    /\ buffer      = Zeroed
    /\ status      = "running"
    /\ far         = [c \in Conn |-> "fresh"]
    /\ backlog     = <<>>
    /\ asked       = [c \in Conn |-> 0]
    /\ toServer    = [c \in Conn |-> 0]
    /\ toClient    = [c \in Conn |-> 0]
    /\ mute        = {}
    /\ heard       = {}

At(p) == status = "running" /\ pc = p

-----------------------------------------------------------------------------
(* The clients. *)

(* connect() is answered by the kernel, before the server accepts. *)
Connect(c) ==
    /\ far[c] = "fresh"
    /\ Len(backlog) < Backlog
    /\ far'     = [far EXCEPT ![c] = "typing"]
    /\ backlog' = Append(backlog, c)
    /\ UNCHANGED <<file, sets, round, buffer, status, asked, toServer, toClient, mute,
                   heard, chance>>

(* A command of k bytes; the client then waits, also when it was empty. *)
Ask(c, k) ==
    /\ far[c] = "typing"
    /\ asked[c] < MaxAsk
    /\ far'      = [far EXCEPT ![c] = "waiting"]
    /\ asked'    = [asked EXCEPT ![c] = @ + 1]
    /\ toServer' = [toServer EXCEPT ![c] = @ + k]
    /\ mute'     = IF k = 0 THEN mute \cup {c} ELSE mute
    /\ UNCHANGED <<file, sets, round, buffer, status, backlog, toClient, heard, chance>>

(* The client's recv takes what is there, which may be the rest of an      *)
(* earlier answer. *)
Take(c) ==
    /\ far[c] = "waiting"
    /\ toClient[c] > 0
    /\ far'      = [far EXCEPT ![c] = "typing"]
    /\ toClient' = [toClient EXCEPT ![c] = @ - 1]
    /\ UNCHANGED <<file, sets, round, buffer, status, backlog, asked, toServer, mute,
                   heard, chance>>

(* The client ends.  With an answer unread this resets the connection, and *)
(* the server may lose what it has not received. *)
Leave(c) ==
    /\ far[c] \in {"typing", "waiting"}
    /\ far'      = [far EXCEPT ![c] = "gone"]
    /\ asked'    = [asked EXCEPT ![c] = 0]
    /\ toClient' = [toClient EXCEPT ![c] = 0]
    /\ mute'     = mute \ {c}
    /\ \/ UNCHANGED toServer
       \/ toClient[c] > 0 /\ toServer' = [toServer EXCEPT ![c] = 0]
    /\ UNCHANGED <<file, sets, round, buffer, status, backlog, heard, chance>>

-----------------------------------------------------------------------------
(* The server. *)

(* select looks at the bits up to maxfds.  A connection is readable when   *)
(* it has bytes or has ended; the first descriptors at any time.  With a   *)
(* closed descriptor among them (EBADF) select fails, and the loop ends.   *)
Watched     == {b \in openSockets : b <= maxfds}
Stale       == {f \in Watched \cap Fd : file[f] = None}
Readable(f) == file[f] # None /\ (toServer[file[f]] > 0 \/ far[file[f]] = "gone")

Select ==
    /\ At("select") /\ Stale = {}
    /\ \E s \in SUBSET (Watched \cap Std) :
          ready' = s \cup {f \in Watched \cap Fd : Readable(f)}
                     \cup {b \in {Listen} \cap Watched : backlog # <<>>}
    /\ ready' # {}
    /\ n'  = Cardinality(ready')
    /\ pc' = IF Listen \in ready' THEN "accept" ELSE "clients"
    /\ UNCHANGED <<file, sets, toClear, buffer, status, peers, heard, chance>>

LowestFree(f) == /\ file[f] = None
                 /\ \A h \in Fd : h < f => file[h] # None

AcceptKeepsMax ==              \* mutant: maxfds is not raised
    /\ At("accept") /\ clientLen
    /\ \E f \in Fd :
          /\ LowestFree(f)
          /\ file'        = [file EXCEPT ![f] = Head(backlog)]
          /\ openSockets' = openSockets \cup {f}
          /\ maxfds'      = maxfds
          /\ clients'     = clients \cup {f}
    /\ backlog' = Tail(backlog)
    /\ ready'   = ready \ {Listen}
    /\ n'       = n - 1
    /\ pc'      = "clients"
    /\ UNCHANGED <<toClear, buffer, status, far, asked, toServer, toClient, mute,
                   heard, chance>>

Accept ==
    /\ At("accept") /\ clientLen
    /\ \E f \in Fd :
          /\ LowestFree(f)
          /\ file'        = [file EXCEPT ![f] = Head(backlog)]
          /\ openSockets' = openSockets \cup {f}
          /\ maxfds'      = IF maxfds < f THEN f ELSE maxfds
          /\ clients'     = clients \cup {f}
    /\ backlog' = Tail(backlog)
    /\ ready'   = ready \ {Listen}
    /\ n'       = n - 1
    /\ pc'      = "clients"
    /\ UNCHANGED <<toClear, buffer, status, far, asked, toServer, toClient, mute,
                   heard, chance>>

(* accept returns -1, which is used as a descriptor. *)
AcceptFails ==
    /\ At("accept")
    /\ ~clientLen \/ \A f \in Fd : file[f] # None
    /\ status' = "undefined"
    /\ UNCHANGED <<file, sets, round, buffer, peers, heard, chance>>

VisitsUncounted(f) ==          \* mutant: n is not lowered
    /\ At("clients")
    /\ f \in clients \cap ready
    /\ \A h \in clients \cap ready : f <= h
    /\ ready' = ready \ {f}
    /\ n'     = n

(* The clients are visited in the order of the map; when n is 0 the code   *)
(* skips the visit, and there is no bit left to visit. *)
Visits(f) ==
    /\ At("clients")
    /\ f \in clients \cap ready
    /\ \A h \in clients \cap ready : f <= h
    /\ ready' = ready \ {f}
    /\ n'     = n - 1

(* closeClient looks for the maximum among maxfds itself and all clients,  *)
(* the closed one included. *)
Recomputed(m) == /\ m \in clients \cup {maxfds}
                 /\ \A h \in clients \cup {maxfds} : h <= m

CloseForgetsListen(f) ==       \* mutant: the maximum is taken over the other clients only
    /\ file' = [file EXCEPT ![f] = None]
    /\ IF maxfds = f
       THEN \/ clients \ {f} = {} /\ maxfds' = 0
            \/ maxfds' \in clients \ {f} /\ \A h \in clients \ {f} : h <= maxfds'
       ELSE UNCHANGED maxfds
    /\ openSockets' = openSockets \ {f}

CloseLeaks(f) ==               \* mutant: the descriptor is not closed
    /\ UNCHANGED file
    /\ IF maxfds = f THEN Recomputed(maxfds') ELSE UNCHANGED maxfds
    /\ openSockets' = openSockets \ {f}

CloseKeepsBit(f) ==            \* mutant: the bit is not cleared
    /\ file' = [file EXCEPT ![f] = None]
    /\ IF maxfds = f THEN Recomputed(maxfds') ELSE UNCHANGED maxfds
    /\ openSockets' = openSockets

CloseClient(f) ==
    /\ file' = [file EXCEPT ![f] = None]
    /\ IF maxfds = f THEN Recomputed(maxfds') ELSE UNCHANGED maxfds
    /\ openSockets' = openSockets \ {f}

HandleGone(f) ==
    /\ Visits(f)
    /\ toServer[file[f]] = 0
    /\ CloseClient(f)
    /\ toClear' = toClear \cup {f}
    /\ UNCHANGED <<clients, pc, buffer, status, peers, heard, chance>>

(* recv fills the buffer from its start; what was received before in this  *)
(* round stays behind it, and the command is read up to the first zero.    *)
(* An answer takes out reads of the client, none when nothing was printed. *)
ReceivedFull(c) == Size        \* mutant: the buffer always counts as full

Received(c) == IF toServer[c] < Size THEN toServer[c] ELSE Size

Filled(c, k) == [i \in 1 .. Size |-> IF i <= k THEN c ELSE buffer[i]]

HandleCommand(f, out) ==
    LET c == file[f]
        k == Received(c) IN
    /\ Visits(f)
    /\ toServer[c] > 0
    /\ toServer' = [toServer EXCEPT ![c] = @ - k]
    /\ buffer'   = Filled(c, k)
    /\ heard'    = heard \cup {c}
    /\ toClient' = IF far[c] = "gone" THEN toClient ELSE [toClient EXCEPT ![c] = @ + out]
    /\ mute'     = IF out = 0 /\ far[c] # "gone" THEN mute \cup {c} ELSE mute
    /\ status'   = IF \A i \in 1 .. Size : buffer'[i] # None THEN "undefined" ELSE status
    /\ UNCHANGED <<file, sets, pc, toClear, far, backlog, asked, chance>>

(* The map loses the closed clients, and the loop starts again with a      *)
(* buffer of zeros. *)
EndRoundUncleared ==           \* mutant: the buffer keeps its bytes
    /\ At("clients")
    /\ clients \cap ready = {}
    /\ clients' = clients \ toClear
    /\ pc'      = "select"
    /\ ready'   = {} /\ n' = 0 /\ toClear' = {} /\ heard' = {}
    /\ buffer'  = buffer
    /\ UNCHANGED <<file, openSockets, maxfds, status, peers, chance>>

EndRound ==
    /\ At("clients")
    /\ clients \cap ready = {}
    /\ clients' = clients \ toClear
    /\ pc'      = "select"
    /\ ready'   = {} /\ n' = 0 /\ toClear' = {} /\ heard' = {}
    /\ buffer'  = Zeroed
    /\ UNCHANGED <<file, openSockets, maxfds, status, peers, chance>>

-----------------------------------------------------------------------------
Serve == \/ Select \/ Accept \/ AcceptFails \/ EndRound
         \/ \E f \in Fd : HandleGone(f) \/ \E out \in 0 .. MaxOut : HandleCommand(f, out)

Use(c) == Connect(c) \/ Take(c) \/ Leave(c) \/ \E k \in Lengths : Ask(c, k)

Next == Serve \/ (status = "running" /\ \E c \in Conn : Use(c))

Spec == Init /\ [][Next]_vars

(* The server goes on, and a client that waits reads what arrives; whether *)
(* a client connects, asks again or leaves is up to its user.              *)
FairSpec == Spec /\ WF_vars(Serve) /\ \A c \in Conn : WF_vars(status = "running" /\ Take(c))

-----------------------------------------------------------------------------
(* Properties.                                                             *)

Far == {"fresh", "typing", "waiting", "gone"}

(* Every variable has its type. *)
TypeOK ==
    /\ file \in [Fd -> Conn \cup {None}]
    /\ clients \in SUBSET Fd /\ openSockets \in SUBSET Bit /\ maxfds \in Nat
    /\ clientLen \in BOOLEAN /\ garbage \in SUBSET (Fd \cup Std)
    /\ pc \in {"select", "accept", "clients"}
    /\ ready \in SUBSET Bit /\ n \in Int /\ toClear \in SUBSET Fd
    /\ buffer \in [1 .. Size -> Conn \cup {None}]
    /\ status \in {"running", "undefined"}
    /\ far \in [Conn -> Far] /\ backlog \in Seq(Conn)
    /\ asked \in [Conn -> Nat] /\ toServer \in [Conn -> Nat] /\ toClient \in [Conn -> Nat]
    /\ mute \in SUBSET Conn /\ heard \in SUBSET Conn

(* Before every select the listening socket and every connection are among *)
(* the descriptors that it looks at, and the map has exactly the open      *)
(* connections: maxfds, openSockets and clients, which three places update *)
(* separately, never drift apart. *)
SelectSeesAll ==
    pc = "select" =>
        /\ clients = {f \in Fd : file[f] # None}
        /\ clients \cup {Listen} \subseteq Watched

(* "select failed - closing down" is never logged: no sequence of          *)
(* connections and closes leaves a closed descriptor below maxfds in       *)
(* openSockets, and the bits that it started with are overwritten before   *)
(* maxfds reaches them, because accept returns the lowest free descriptor. *)
SelectNeverFails == pc = "select" => Stale = {}

(* "ERROR: not all sockets handled" is logged only because of bits left in *)
(* openSockets: what select counts is what the round handles. *)
AllHandled ==
    At("clients") /\ clients \cap ready = {} /\ n # 0 => garbage \cap Std # {}

(* Behind a client's own bytes a command can have those of clients served  *)
(* earlier in the same round, but never anything older. *)
NothingOlder == \A i \in 1 .. Size : pc = "clients" => buffer[i] \in heard \cup {None}

(* A client that waits gets an answer, unless its command was empty, or    *)
(* printed nothing: then server and client wait for each other. *)
Answered ==
    \A c \in Conn : far[c] = "waiting" ~> \/ far[c] # "waiting" \/ c \in mute
                                          \/ status # "running"

(* The connection of a client that has left is accepted, if need be, and   *)
(* closed. *)
Released ==
    \A c \in Conn : far[c] = "gone" ~> \/ /\ \A i \in DOMAIN backlog : backlog[i] # c
                                          /\ \A f \in Fd : file[f] # c
                                       \/ status # "running"
=============================================================================
