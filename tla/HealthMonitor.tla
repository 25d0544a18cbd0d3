---------------------------- MODULE HealthMonitor ----------------------------
(***************************************************************************)
(* Time on one connection between two servers (healthMonitorThread of      *)
(* src/Botnet/botnet/server.cpp).  The health monitor of each wakes up     *)
(* every 30 seconds, sends KEEPALIVE, GETMSGS and STATUSREQ in rounds of   *)
(* 60, 90 and 180 seconds, drops a peer it has not heard of for more than  *)
(* 300, and now and then looks for more servers.  Nobody sends the rounds  *)
(* while it looks: it is the same thread, and it connects to one server    *)
(* after the other, with timeouts of ten seconds and more.                 *)
(*                                                                         *)
(* A tick is 30 seconds.  The times the code keeps are ages here: lastKA   *)
(* is how long ago the last KEEPALIVE round was.  Whatever is due happens  *)
(* before the next tick, in any order: a monitor that has slept goes on, a *)
(* frame is handled, a closed connection is noticed.                       *)
(*                                                                         *)
(* Abstracted: all other connections, and with them whether the monitor    *)
(* has too few; what a search does (it may take any time of Search); the   *)
(* mutex (LockedSend); failing sends, which only drop a peer earlier.      *)
(***************************************************************************)
EXTENDS Naturals

CONSTANTS
    A, B,     \* two servers with a connection between them
    KA,       \* ticks between KEEPALIVE rounds (2: 60 seconds)
    GM,       \* ticks between GETMSGS rounds (3: 90 seconds)
    SR,       \* ticks between STATUSREQ rounds (6: 180 seconds)
    CC,       \* ticks between looks at the number of connections (4: 120)
    Silence,  \* ticks after which a peer is dropped (10: 300 seconds)
    Search    \* bound: how long a search may take, 0 when there is none

Server == {A, B}

ASSUME ServerAssumption == A # B
ASSUME TimeAssumption   == /\ {KA, GM, SR, CC} \subseteq Nat \ {0} /\ Silence \in Nat
                           /\ 0 \in Search /\ Search \subseteq Nat

VARIABLES
    lastKA, lastGM, lastSR, lastCC,  \* ages of the monitor's rounds
    away,      \* ticks since the monitor's loop began its turn
    length,    \* ticks this turn takes: the sleep and a search
    lastSeen,  \* ticks since the peer was heard of
    entry,     \* whether the peer is in connectedServers
    wire,      \* frames on the way from a server to the other
    alive      \* the server's machine runs

rounds == <<lastKA, lastGM, lastSR, lastCC, away, length>>
vars   == <<rounds, lastSeen, entry, wire, alive>>

-----------------------------------------------------------------------------
Other(s) == IF s = A THEN B ELSE A
Frame    == {"keepalive", "getmsgs", "statusreq", "answer"}

(* A connection has just been made and both monitors have just started. *)
Init ==
    /\ lastKA   = [s \in Server |-> 0]
    /\ lastGM   = [s \in Server |-> 0]
    /\ lastSR   = [s \in Server |-> 0]
    /\ lastCC   = [s \in Server |-> 0]
    /\ away     = [s \in Server |-> 0]
    /\ length   = [s \in Server |-> 1]
    /\ lastSeen = [s \in Server |-> 0]
    /\ entry    = [s \in Server |-> TRUE]
    /\ wire     = [s \in Server |-> {}]
    /\ alive    = [s \in Server |-> TRUE]

(* The sleep of 30 seconds, after a search of d ticks. *)
NoPause(d) == d                \* mutant: no sleep
Pause(d)   == d + 1

(* How long the search at the end of a turn takes, if there is one. *)
Searches(s) == {d \in Search : d > 0 => lastCC[s] >= CC}

(* What a server sends in this turn of its loop. *)
Due(s) == {f \in {"keepalive", "getmsgs", "statusreq"} :
              \/ f = "keepalive" /\ lastKA[s] >= KA
              \/ f = "getmsgs"   /\ lastGM[s] >= GM
              \/ f = "statusreq" /\ lastSR[s] >= SR}

SilentLate(s) == lastSeen[s] > Silence + 1   \* mutant: a tick too late
Silent(s)     == lastSeen[s] > Silence

(* Both ends of the connection are there: what one sends the other gets. *)
Linked == \A s \in Server : alive[s] /\ entry[s]

(* One turn of the loop: the rounds that are due, the sweep of silent      *)
(* peers, and a search, for which the next turn has to wait.  The sweep    *)
(* closes the connection; what is on the way counts as lost.               *)
Turn(s) ==
    /\ alive[s] /\ away[s] = length[s]
    /\ lastKA' = [lastKA EXCEPT ![s] = IF @ >= KA THEN 0 ELSE @]
    /\ lastGM' = [lastGM EXCEPT ![s] = IF @ >= GM THEN 0 ELSE @]
    /\ lastSR' = [lastSR EXCEPT ![s] = IF @ >= SR THEN 0 ELSE @]
    /\ lastCC' = [lastCC EXCEPT ![s] = IF @ >= CC THEN 0 ELSE @]
    /\ \/ /\ entry[s] /\ Silent(s)
          /\ entry' = [entry EXCEPT ![s] = FALSE]
          /\ wire'  = [r \in Server |-> {}]
       \/ /\ entry[s] /\ ~Silent(s)
          /\ wire' = IF Linked THEN [wire EXCEPT ![s] = @ \cup Due(s)] ELSE wire
          /\ UNCHANGED entry
       \/ ~entry[s] /\ UNCHANGED <<entry, wire>>
    /\ \E d \in Searches(s) : length' = [length EXCEPT ![s] = Pause(d)]
    /\ away' = [away EXCEPT ![s] = 0]
    /\ UNCHANGED <<lastSeen, alive>>

(* A peer thread handles a frame.  Every frame counts as a sign of life;   *)
(* GETMSGS and STATUSREQ are answered, a KEEPALIVE that announces messages *)
(* with a GETMSGS. *)
Replies(f) == IF f = "keepalive" THEN {{}, {"getmsgs"}}
              ELSE IF f = "answer" THEN {{}} ELSE {{"answer"}}

HandleUnseen(s, f) ==          \* mutant: answers are no sign of life
    /\ alive[s] /\ entry[s]
    /\ f \in wire[Other(s)]
    /\ lastSeen' = IF f = "answer" THEN lastSeen ELSE [lastSeen EXCEPT ![s] = 0]
    /\ \E reply \in Replies(f) :
          wire' = [r \in Server |-> IF r = s THEN wire[r] \cup reply ELSE wire[r] \ {f}]
    /\ UNCHANGED <<rounds, entry, alive>>

Handle(s, f) ==
    /\ alive[s] /\ entry[s]
    /\ f \in wire[Other(s)]
    /\ lastSeen' = [lastSeen EXCEPT ![s] = 0]
    /\ \E reply \in Replies(f) :
          wire' = [r \in Server |-> IF r = s THEN wire[r] \cup reply ELSE wire[r] \ {f}]
    /\ UNCHANGED <<rounds, entry, alive>>

(* The other end closed the connection.  Its peer thread may have been in  *)
(* recv on it at that time, which keeps the socket open until a frame      *)
(* comes: nothing bounds how late this end learns of it.                   *)
Closed(s) == alive[s] /\ entry[s] /\ ~entry[Other(s)]

PeerEnds(s) ==
    /\ Closed(s)
    /\ entry' = [entry EXCEPT ![s] = FALSE]
    /\ wire'  = [r \in Server |-> {}]
    /\ UNCHANGED <<rounds, lastSeen, alive>>

Connect ==
    /\ \A s \in Server : alive[s] /\ ~entry[s]
    /\ entry'    = [s \in Server |-> TRUE]
    /\ lastSeen' = [s \in Server |-> 0]
    /\ UNCHANGED <<rounds, wire, alive>>

(* A machine stops without closing its connections. *)
Crash(s) ==
    /\ alive[s] /\ alive[Other(s)]
    /\ alive' = [alive EXCEPT ![s] = FALSE]
    /\ wire'  = [r \in Server |-> IF r = s THEN wire[r] ELSE {}]
    /\ UNCHANGED <<rounds, lastSeen, entry>>

-----------------------------------------------------------------------------
(* Half a minute passes, for the machines that run. *)
Older(age, counts) == IF counts THEN age + 1 ELSE age

Tick ==
    /\ \A s \in Server : alive[s] => away[s] < length[s]
    /\ \A s \in Server : wire[s] = {}
    /\ lastKA'   = [s \in Server |-> Older(lastKA[s], alive[s])]
    /\ lastGM'   = [s \in Server |-> Older(lastGM[s], alive[s])]
    /\ lastSR'   = [s \in Server |-> Older(lastSR[s], alive[s])]
    /\ lastCC'   = [s \in Server |-> Older(lastCC[s], alive[s])]
    /\ away'     = [s \in Server |-> Older(away[s], alive[s])]
    /\ lastSeen' = [s \in Server |-> Older(lastSeen[s], alive[s] /\ entry[s])]
    /\ UNCHANGED <<length, entry, wire, alive>>

Next ==
    \/ \E s \in Server : Turn(s) \/ PeerEnds(s) \/ Crash(s) \/ \E f \in Frame : Handle(s, f)
    \/ Connect
    \/ Tick

Spec == Init /\ [][Next]_vars

-----------------------------------------------------------------------------
(* Properties.                                                             *)

(* Every variable has its type, and every turn of a loop takes time. *)
TypeOK ==
    /\ lastKA \in [Server -> Nat] /\ lastGM \in [Server -> Nat]
    /\ lastSR \in [Server -> Nat] /\ lastCC \in [Server -> Nat]
    /\ away \in [Server -> Nat] /\ length \in [Server -> Nat \ {0}]
    /\ lastSeen \in [Server -> Nat] /\ entry \in [Server -> BOOLEAN]
    /\ wire \in [Server -> SUBSET Frame] /\ alive \in [Server -> BOOLEAN]

(* A living peer is dropped for its silence only when both monitors have   *)
(* been away in a search: the own one for so long that no answer to a      *)
(* GETMSGS could come, the peer's so long that it sent no KEEPALIVE.  One  *)
(* monitor that makes its rounds is enough for both ends.                  *)
LivingKept ==
    [][\A s \in Server :
          entry[s] /\ ~entry'[s] /\ entry[Other(s)] /\ alive[Other(s)] =>
              /\ away[s] + GM >= Silence + 2
              /\ away[Other(s)] + KA >= Silence + 2 \/ wire[Other(s)] # {}]_vars

(* A peer that has fallen silent is dropped by the end of the search that  *)
(* the monitor may be in when the 300 seconds are over. *)
SilentDropped ==
    \A s \in Server : alive[s] /\ entry[s] =>
        \E d \in Search : lastSeen[s] <= Silence + d + 1
=============================================================================
