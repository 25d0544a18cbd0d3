------------------------- MODULE SelectServerProofs -------------------------
(***************************************************************************)
(* Proofs about SelectServer, for any number of clients and descriptors    *)
(* and any size of the buffer: every variable keeps its type, the select   *)
(* sees every connection and never fails, whatever bits openSockets starts *)
(* with, and the buffer forgets between rounds.                            *)
(***************************************************************************)
EXTENDS SelectServer, FiniteSetTheorems, TLAPS

-----------------------------------------------------------------------------
(* The invariant.  Within a round the map still holds the clients in       *)
(* toClear, whose descriptors are closed and whose bits are gone; between  *)
(* rounds nothing is in toClear.                                           *)

Occupied == {f \in Fd : file[f] # None}

(* The map is the open descriptors and those closed in this round. *)
MapInv ==
    /\ toClear \subseteq clients
    /\ Occupied = clients \ toClear
    /\ pc # "clients" => toClear = {}
    /\ toClear \cap ready = {}

(* The open descriptors have their bits; bits of closed ones are above     *)
(* maxfds, where select does not look.                                     *)
BitInv ==
    /\ Occupied \cup {Listen} \subseteq openSockets
    /\ \A f \in openSockets \cap Fd : f <= maxfds => f \in Occupied

(* maxfds bounds the map. *)
MaxInv == \A f \in clients \cup {Listen} : f <= maxfds

(* Accept finds a connection. *)
WaitInv == pc = "accept" => backlog # <<>>

LoopInv == TypeOK /\ MapInv /\ BitInv /\ MaxInv /\ WaitInv

-----------------------------------------------------------------------------
(* The actions apart, for case distinctions. *)
LEMMA Steps ==
    ASSUME [Next]_vars
    PROVE  \/ Select \/ Accept \/ AcceptFails \/ EndRound
           \/ \E f \in Fd : HandleGone(f)
           \/ \E f \in Fd, out \in 0 .. MaxOut : HandleCommand(f, out)
           \/ \E c \in Conn : Connect(c) \/ Take(c) \/ Leave(c)
           \/ \E c \in Conn, k \in Lengths : Ask(c, k)
           \/ UNCHANGED vars
    BY DEF Next, Serve, Use

(* Sets of bits are finite, so that select's result is a number. *)
LEMMA BitsCounted == \A S \in SUBSET Bit : Cardinality(S) \in Nat
    BY BitAssumption, FS_Subset, FS_CardinalityType

LEMMA InitLoop == Init => LoopInv
    <1> SUFFICES ASSUME Init PROVE LoopInv OBVIOUS
    <1>1. TypeOK
        BY BitAssumption, SizeAssumption DEF Init, TypeOK, Bit, Zeroed, Far
    <1>2. MapInv /\ BitInv /\ MaxInv /\ WaitInv
        BY BitAssumption DEF Init, MapInv, BitInv, MaxInv, WaitInv, Occupied, Bit
    <1>. QED BY <1>1, <1>2 DEF LoopInv

-----------------------------------------------------------------------------
(* The steps of the clients leave the loop alone. *)
LEMMA ClientSteps ==
    ASSUME LoopInv, NEW c \in Conn,
           \/ Connect(c) \/ Take(c) \/ Leave(c) \/ \E k \in Lengths : Ask(c, k)
    PROVE  LoopInv'
    <1> USE DEF LoopInv
    <1>1. UNCHANGED <<file, sets, round, buffer, status, heard, chance>>
        BY DEF Connect, Take, Leave, Ask
    <1>2. backlog # <<>> => backlog' # <<>>
        BY DEF Connect, Take, Leave, Ask, TypeOK
    <1>3. /\ far' \in [Conn -> Far] /\ backlog' \in Seq(Conn)
          /\ asked' \in [Conn -> Nat] /\ toServer' \in [Conn -> Nat]
          /\ toClient' \in [Conn -> Nat] /\ mute' \in SUBSET Conn
        <2>1. CASE Connect(c) BY <2>1 DEF Connect, TypeOK, Far
        <2>2. CASE Take(c) BY <2>2 DEF Take, TypeOK, Far
        <2>3. CASE Leave(c) BY <2>3 DEF Leave, TypeOK, Far
        <2>4. ASSUME NEW k \in Lengths, Ask(c, k)
              PROVE  /\ far' \in [Conn -> Far] /\ backlog' \in Seq(Conn)
                     /\ asked' \in [Conn -> Nat] /\ toServer' \in [Conn -> Nat]
                     /\ toClient' \in [Conn -> Nat] /\ mute' \in SUBSET Conn
            BY <2>4, SizeAssumption DEF Ask, TypeOK, Far
        <2>. QED BY <2>1, <2>2, <2>3, <2>4
    <1>4. TypeOK'
        BY <1>1, <1>3 DEF TypeOK, sets, round, chance
    <1>5. MapInv' /\ BitInv' /\ MaxInv' /\ WaitInv'
        BY <1>1, <1>2 DEF MapInv, BitInv, MaxInv, WaitInv, Occupied, sets, round, chance
    <1>. QED BY <1>4, <1>5

LEMMA SelectStep ==
    ASSUME LoopInv, Select \/ AcceptFails
    PROVE  LoopInv'
    <1> USE DEF LoopInv
    <1>1. CASE Select
        <2>1. ready' \in SUBSET Bit
            BY <1>1 DEF Select, Watched, TypeOK, Bit
        <2>2. n' \in Int
            BY <1>1, <2>1, BitsCounted DEF Select
        <2>3. pc' \in {"accept", "clients"} /\ (pc' = "accept" => Listen \in ready')
            BY <1>1 DEF Select
        <2>4. Listen \in ready' => backlog # <<>>
            BY <1>1, BitAssumption DEF Select, Watched
        <2>5. TypeOK'
            BY <1>1, <2>1, <2>2, <2>3 DEF Select, TypeOK, sets, peers, chance
        <2>6. MapInv' /\ BitInv' /\ MaxInv' /\ WaitInv'
            BY <1>1, <2>3, <2>4
            DEF Select, At, MapInv, BitInv, MaxInv, WaitInv, Occupied, sets, peers, chance
        <2>. QED BY <2>5, <2>6
    <1>2. CASE AcceptFails
        BY <1>2 DEF AcceptFails, TypeOK, MapInv, BitInv, MaxInv, WaitInv, Occupied,
                    sets, round, peers, chance
    <1>. QED BY <1>1, <1>2

(* The descriptor that accept returns is in neither the map nor toClear.   *)
LEMMA AcceptStep ==
    ASSUME LoopInv, Accept
    PROVE  LoopInv'
    <1> USE DEF LoopInv
    <1>1. PICK f \in Fd : /\ LowestFree(f)
                          /\ file'        = [file EXCEPT ![f] = Head(backlog)]
                          /\ openSockets' = openSockets \cup {f}
                          /\ maxfds'      = IF maxfds < f THEN f ELSE maxfds
                          /\ clients'     = clients \cup {f}
        BY DEF Accept
    <1>2. Head(backlog) \in Conn /\ Tail(backlog) \in Seq(Conn)
        BY DEF Accept, At, WaitInv, TypeOK
    <1>3. f \in Nat /\ f \in Bit /\ \A h \in Fd : h \in Nat
        BY BitAssumption DEF Bit
    <1>4. TypeOK'
        <2>1. file' \in [Fd -> Conn \cup {None}] BY <1>1, <1>2 DEF TypeOK
        <2>2. /\ clients' \in SUBSET Fd /\ openSockets' \in SUBSET Bit
            BY <1>1, <1>3 DEF TypeOK
        <2>3. maxfds' \in Nat
            BY <1>1, <1>3 DEF TypeOK
        <2>4. ready' \in SUBSET Bit /\ n' \in Int /\ pc' = "clients" /\ backlog' \in Seq(Conn)
            BY <1>2 DEF Accept, TypeOK
        <2>5. UNCHANGED <<toClear, buffer, status, far, asked, toServer, toClient, mute,
                          heard, clientLen, garbage>>
            BY DEF Accept, chance
        <2>. QED BY <2>1, <2>2, <2>3, <2>4, <2>5 DEF TypeOK
    <1>5. f \notin Occupied /\ Occupied' = Occupied \cup {f}
        BY <1>1, <1>2, NoneAssumption DEF LowestFree, Occupied, TypeOK
    <1>6. MapInv' /\ WaitInv'
        BY <1>1, <1>5 DEF Accept, At, MapInv, WaitInv, chance
    <1>8. BitInv'
        <2>1. ASSUME NEW h \in openSockets' \cap Fd, h <= maxfds' PROVE h \in Occupied'
            <3>1. CASE h = f \/ h <= maxfds
                BY <1>1, <1>5, <2>1, <3>1 DEF BitInv
            <3>2. CASE h # f /\ ~(h <= maxfds)
                <4>1. h < f
                    BY <1>1, <1>3, <2>1, <3>2 DEF TypeOK
                <4>2. h \in Occupied
                    BY <1>1, <4>1 DEF LowestFree, Occupied
                <4>. QED BY <1>5, <4>2
            <3>. QED BY <3>1, <3>2
        <2>2. Occupied' \cup {Listen} \subseteq openSockets'
            BY <1>1, <1>5 DEF BitInv
        <2>. QED BY <2>1, <2>2 DEF BitInv
    <1>7. MaxInv'
        BY <1>1, <1>3, BitAssumption DEF MaxInv, TypeOK, Bit
    <1>. QED BY <1>4, <1>6, <1>7, <1>8

(* A closed client keeps its place in the map until the round ends, which  *)
(* is why the maximum that closeClient finds is the one it had. *)
LEMMA GoneStep ==
    ASSUME LoopInv, NEW f \in Fd, HandleGone(f)
    PROVE  LoopInv'
    <1> USE DEF LoopInv
    <1>1. /\ file' = [file EXCEPT ![f] = None]
          /\ openSockets' = openSockets \ {f}
          /\ toClear' = toClear \cup {f} /\ clients' = clients
          /\ ready' = ready \ {f} /\ f \in clients /\ f \in ready
        BY DEF HandleGone, CloseClient, Visits
    <1>2. maxfds' = maxfds
        <2>1. CASE maxfds = f
            <3>1. /\ maxfds' \in clients \cup {maxfds}
                  /\ \A h \in clients \cup {maxfds} : h <= maxfds'
                BY <2>1 DEF HandleGone, CloseClient, Recomputed
            <3>2. clients \subseteq Nat /\ maxfds \in Nat /\ \A h \in clients : h <= maxfds
                BY BitAssumption DEF TypeOK, MaxInv, Bit
            <3>3. maxfds' \in Nat BY <3>1, <3>2
            <3>. QED BY <3>1, <3>2, <3>3
        <2>2. CASE maxfds # f
            BY <2>2 DEF HandleGone, CloseClient
        <2>. QED BY <2>1, <2>2
    <1>3. TypeOK'
        BY <1>1, <1>2 DEF HandleGone, Visits, TypeOK, peers, chance
    <1>4. Occupied' = Occupied \ {f}
        BY <1>1 DEF Occupied, TypeOK
    <1>5. MapInv' /\ BitInv' /\ WaitInv'
        BY <1>1, <1>2, <1>4, BitAssumption
        DEF HandleGone, Visits, At, MapInv, BitInv, WaitInv, peers, chance
    <1>6. MaxInv'
        BY <1>1, <1>2 DEF MaxInv
    <1>. QED BY <1>3, <1>5, <1>6

(* What recv does to the buffer leaves it a buffer. *)
LEMMA FilledIsBuffer ==
    ASSUME NEW c \in Conn, NEW k \in Nat, buffer \in [1 .. Size -> Conn \cup {None}]
    PROVE  Filled(c, k) \in [1 .. Size -> Conn \cup {None}]
    BY DEF Filled

LEMMA CommandStep ==
    ASSUME LoopInv, NEW f \in Fd, NEW out \in 0 .. MaxOut, HandleCommand(f, out)
    PROVE  LoopInv'
    <1> USE DEF LoopInv
    <1> DEFINE c == file[f]
    <1>1. c \in Conn
        BY DEF HandleCommand, Visits, MapInv, Occupied, TypeOK
    <1>2. Received(c) \in Nat /\ toServer[c] - Received(c) \in Nat
        BY <1>1, SizeAssumption DEF Received, TypeOK
    <1>3. buffer' \in [1 .. Size -> Conn \cup {None}]
        <2>1. buffer' = Filled(c, Received(c))
            BY DEF HandleCommand
        <2>2. buffer \in [1 .. Size -> Conn \cup {None}]
            BY DEF TypeOK
        <2>. QED BY <1>1, <1>2, <2>1, <2>2, FilledIsBuffer
    <1>4. toServer' \in [Conn -> Nat]
        <2>1. toServer' = [toServer EXCEPT ![c] = @ - Received(c)] /\ toServer \in [Conn -> Nat]
            BY DEF HandleCommand, TypeOK
        <2>. QED BY <1>1, <1>2, <2>1
    <1>5. toClient' \in [Conn -> Nat]
        <2>1. toClient \in [Conn -> Nat] /\ out \in Nat
            BY CapAssumption DEF TypeOK
        <2>2. toClient' = toClient \/ toClient' = [toClient EXCEPT ![c] = @ + out]
            BY DEF HandleCommand
        <2>. QED BY <1>1, <2>1, <2>2
    <1>7. ready' \in SUBSET Bit /\ n' \in Int
        BY DEF HandleCommand, Visits, TypeOK
    <1>8. mute' \in SUBSET Conn /\ heard' \in SUBSET Conn
        BY <1>1 DEF HandleCommand, TypeOK
    <1>9. status' \in {"running", "undefined"}
        BY DEF HandleCommand, TypeOK
    <1>10. UNCHANGED <<file, sets, pc, toClear, far, backlog, asked, chance>>
        BY DEF HandleCommand
    <1>11. TypeOK'
        BY <1>3, <1>4, <1>5, <1>7, <1>8, <1>9, <1>10 DEF TypeOK, sets, chance
    <1>6. MapInv' /\ BitInv' /\ MaxInv' /\ WaitInv'
        BY DEF HandleCommand, Visits, At, MapInv, BitInv, MaxInv, WaitInv, Occupied, sets, chance
    <1>. QED BY <1>11, <1>6

LEMMA RoundStep ==
    ASSUME LoopInv, EndRound
    PROVE  LoopInv'
    <1> USE DEF LoopInv
    <1>1. TypeOK'
        BY SizeAssumption DEF EndRound, TypeOK, Zeroed, peers, chance
    <1>2. MapInv' /\ BitInv' /\ MaxInv' /\ WaitInv'
        BY DEF EndRound, MapInv, BitInv, MaxInv, WaitInv, Occupied, peers, chance
    <1>. QED BY <1>1, <1>2

LEMMA NextLoop == LoopInv /\ [Next]_vars => LoopInv'
    <1> SUFFICES ASSUME LoopInv, [Next]_vars PROVE LoopInv' OBVIOUS
    <1>1. CASE Select \/ AcceptFails BY <1>1, SelectStep
    <1>2. CASE Accept BY <1>2, AcceptStep
    <1>3. CASE EndRound BY <1>3, RoundStep
    <1>4. CASE \E f \in Fd : HandleGone(f) BY <1>4, GoneStep
    <1>5. CASE \E f \in Fd, out \in 0 .. MaxOut : HandleCommand(f, out)
        BY <1>5, CommandStep
    <1>6. CASE \/ \E c \in Conn : Connect(c) \/ Take(c) \/ Leave(c)
               \/ \E c \in Conn, k \in Lengths : Ask(c, k)
        BY <1>6, ClientSteps
    <1>7. CASE UNCHANGED vars
        BY <1>7 DEF LoopInv, TypeOK, MapInv, BitInv, MaxInv, WaitInv, Occupied,
                    vars, sets, round, peers, chance
    <1>. QED BY <1>1, <1>2, <1>3, <1>4, <1>5, <1>6, <1>7, Steps

LEMMA LoopKept == Spec => []LoopInv
    BY InitLoop, NextLoop, PTL DEF Spec

-----------------------------------------------------------------------------
(* Every variable keeps its type, for any number of clients, descriptors   *)
(* and bytes in the buffer: accept always finds a connection, and a        *)
(* command is never received on a descriptor that is closed. *)
THEOREM TypeCorrect == Spec => []TypeOK
    <1>1. LoopInv => TypeOK BY DEF LoopInv
    <1>. QED BY <1>1, LoopKept, PTL

(* Before every select, openSockets and maxfds cover every connection and  *)
(* the listening socket, and the map has exactly the open connections. *)
THEOREM SelectCoversAll == Spec => []SelectSeesAll
    <1>1. LoopInv => SelectSeesAll
        BY BitAssumption
        DEF LoopInv, MapInv, BitInv, MaxInv, Occupied, SelectSeesAll, Watched, TypeOK, Bit
    <1>. QED BY <1>1, LoopKept, PTL

(* select never fails, whatever bits openSockets held when main began,     *)
(* whoever connects and leaves, and in whatever order. *)
THEOREM SelectAlwaysWorks == Spec => []SelectNeverFails
    <1>1. LoopInv => SelectNeverFails
        BY DEF LoopInv, BitInv, Occupied, SelectNeverFails, Stale, Watched
    <1>. QED BY <1>1, LoopKept, PTL

(* Within a round the buffer holds bytes received in that round and zeros, *)
(* between rounds zeros only. *)
BufferInv == \A i \in 1 .. Size : /\ pc = "clients" => buffer[i] \in heard \cup {None}
                                  /\ pc # "clients" => buffer[i] = None

(* What a command can have behind its own bytes was received in the same   *)
(* round, for any size of the buffer and any lengths of commands. *)
THEOREM RoundForgets == Spec => []NothingOlder
    <1>1. Init => BufferInv
        BY DEF Init, BufferInv, Zeroed
    <1>2. ASSUME BufferInv, [Next]_vars PROVE BufferInv'
        <2>1. CASE \/ \E c \in Conn : Connect(c) \/ Take(c) \/ Leave(c)
                   \/ \E c \in Conn, k \in Lengths : Ask(c, k)
                   \/ UNCHANGED vars
            <3>1. UNCHANGED <<pc, buffer, heard>>
                BY <2>1 DEF Connect, Take, Leave, Ask, vars, round
            <3>. QED BY <1>2, <3>1 DEF BufferInv
        <2>2. CASE AcceptFails
            <3>1. UNCHANGED <<pc, buffer, heard>>
                BY <2>2 DEF AcceptFails, round
            <3>. QED BY <1>2, <3>1 DEF BufferInv
        <2>3. CASE Select \/ Accept
            <3>1. UNCHANGED <<buffer, heard>> /\ pc # "clients"
                BY <2>3 DEF Select, Accept, peers, At
            <3>. QED BY <1>2, <3>1 DEF BufferInv
        <2>4. CASE EndRound
            <3>1. buffer' = [i \in 1 .. Size |-> None]
                BY <2>4 DEF EndRound, Zeroed
            <3>. QED BY <3>1 DEF BufferInv
        <2>5. ASSUME NEW f \in Fd, HandleGone(f) PROVE BufferInv'
            <3>1. UNCHANGED <<pc, buffer, heard>>
                BY <2>5 DEF HandleGone
            <3>. QED BY <1>2, <3>1 DEF BufferInv
        <2>6. ASSUME NEW f \in Fd, NEW out \in 0 .. MaxOut, HandleCommand(f, out)
              PROVE  BufferInv'
            <3>1. pc = "clients" /\ pc' = pc /\ heard' = heard \cup {file[f]}
                BY <2>6 DEF HandleCommand, Visits, At
            <3>2. buffer' = [i \in 1 .. Size |-> IF i <= Received(file[f]) THEN file[f] ELSE buffer[i]]
                BY <2>6 DEF HandleCommand, Filled
            <3>3. \A i \in 1 .. Size : buffer'[i] = file[f] \/ buffer'[i] = buffer[i]
                BY <3>2
            <3>. QED BY <1>2, <3>1, <3>3 DEF BufferInv
        <2>. QED BY <1>2, <2>1, <2>2, <2>3, <2>4, <2>5, <2>6, Steps
    <1>3. BufferInv => NothingOlder
        <2> SUFFICES ASSUME BufferInv, NEW i \in 1 .. Size, pc = "clients"
                     PROVE  buffer[i] \in heard \cup {None}
            BY DEF NothingOlder
        <2>. QED BY DEF BufferInv
    <1>. QED BY <1>1, <1>2, <1>3, PTL DEF Spec
-----------------------------------------------------------------------------
(* Within a round n counts what is left in ready, and what is left is the  *)
(* listening socket before the accept, clients in the map, and bits that   *)
(* openSockets has had from the start.                                     *)
CountInv ==
    /\ openSockets \cap Std \subseteq garbage
    /\ pc = "accept" => Listen \in ready
    /\ pc = "clients" => Listen \notin ready
    /\ pc # "select" => /\ n = Cardinality(ready)
                        /\ ready \cap Fd \subseteq clients
                        /\ ready \cap Std \subseteq garbage

LEMMA ReadyCounted ==
    ASSUME TypeOK, NEW b \in ready
    PROVE  Cardinality(ready \ {b}) = Cardinality(ready) - 1
    BY BitAssumption, FS_Subset, FS_RemoveElement DEF TypeOK

(* The connections still in ready are in the map when the round begins. *)
LEMMA SelectCounts ==
    ASSUME LoopInv, CountInv, Select
    PROVE  CountInv'
    <1>1. /\ n' = Cardinality(ready') /\ pc' = IF Listen \in ready' THEN "accept" ELSE "clients"
          /\ UNCHANGED <<file, sets, chance>>
        BY DEF Select
    <1>2. PICK s \in SUBSET (Watched \cap Std) :
              ready' = s \cup {f \in Watched \cap Fd : Readable(f)}
                         \cup {b \in {Listen} \cap Watched : backlog # <<>>}
        BY DEF Select
    <1>3. ready' \cap Fd \subseteq Occupied
        BY <1>2, BitAssumption DEF Readable, Occupied
    <1>4. Occupied \subseteq clients
        BY DEF LoopInv, MapInv
    <1>5. ready' \cap Std \subseteq garbage
        BY <1>2, BitAssumption DEF CountInv, Watched
    <1>6. openSockets' = openSockets /\ garbage' = garbage /\ clients' = clients
        BY <1>1 DEF sets, chance
    <1>. QED BY <1>1, <1>3, <1>4, <1>5, <1>6 DEF CountInv

LEMMA AcceptCounts ==
    ASSUME LoopInv, CountInv, Accept
    PROVE  CountInv'
    <1>1. PICK f \in Fd : openSockets' = openSockets \cup {f} /\ clients' = clients \cup {f}
        BY DEF Accept
    <1>2. /\ ready' = ready \ {Listen} /\ n' = n - 1 /\ pc' = "clients" /\ pc = "accept"
          /\ garbage' = garbage
        BY DEF Accept, At, chance
    <1>3. n' = Cardinality(ready')
        BY <1>2, ReadyCounted DEF CountInv, LoopInv
    <1>. QED BY <1>1, <1>2, <1>3, BitAssumption DEF CountInv

(* A visit takes one bit out, and counts it. *)
LEMMA VisitCounts ==
    ASSUME LoopInv, CountInv, NEW f \in Fd,
           HandleGone(f) \/ \E out \in 0 .. MaxOut : HandleCommand(f, out)
    PROVE  CountInv'
    <1>1. /\ ready' = ready \ {f} /\ f \in ready /\ n' = n - 1 /\ pc = "clients"
          /\ UNCHANGED <<clients, pc, garbage>>
        BY DEF HandleGone, HandleCommand, Visits, At, sets, chance
    <1>2. openSockets' \subseteq openSockets
        BY DEF HandleGone, HandleCommand, CloseClient, sets
    <1>3. n' = Cardinality(ready')
        BY <1>1, ReadyCounted DEF CountInv, LoopInv
    <1>. QED BY <1>1, <1>2, <1>3 DEF CountInv

(* The loop handles all that select counts, but for bits of the first      *)
(* descriptors that openSockets held from the start. *)
THEOREM AllAreHandled == Spec => []AllHandled
    <1>1. Init => CountInv
        BY BitAssumption DEF Init, CountInv
    <1>2. ASSUME LoopInv, CountInv, [Next]_vars PROVE CountInv'
        <2>1. CASE \/ AcceptFails \/ UNCHANGED vars
                   \/ \E c \in Conn : Connect(c) \/ Take(c) \/ Leave(c)
                   \/ \E c \in Conn, k \in Lengths : Ask(c, k)
            <3>1. UNCHANGED <<sets, round, garbage>>
                BY <2>1 DEF AcceptFails, Connect, Take, Leave, Ask, vars, chance
            <3>. QED BY <1>2, <3>1 DEF CountInv, sets, round
        <2>2. CASE EndRound
            <3>1. pc' = "select" /\ UNCHANGED <<openSockets, garbage>>
                BY <2>2 DEF EndRound, chance
            <3>. QED BY <1>2, <3>1 DEF CountInv
        <2>. QED BY <1>2, <2>1, <2>2, SelectCounts, AcceptCounts, VisitCounts, Steps
    <1>3. LoopInv /\ CountInv => AllHandled
        <2> SUFFICES ASSUME LoopInv, CountInv, pc = "clients", clients \cap ready = {}, n # 0
                     PROVE  garbage \cap Std # {}
            BY DEF AllHandled, At
        <2>1. ready # {}
            BY FS_EmptySet DEF CountInv
        <2>2. ready \subseteq Std
            BY DEF CountInv, LoopInv, TypeOK, Bit
        <2>. QED BY <2>1, <2>2 DEF CountInv
    <1>. QED BY <1>1, <1>2, <1>3, LoopKept, PTL DEF Spec

=============================================================================
