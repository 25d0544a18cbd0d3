------------------------- MODULE HealthMonitorProofs -------------------------
(***************************************************************************)
(* What HealthMonitor promises for any lengths of the rounds, of the       *)
(* silence and of the searches.                                            *)
(***************************************************************************)
EXTENDS HealthMonitor, TLAPS

USE DEF Server

LEMMA OtherServer ==
    \A s \in Server : /\ Other(s) \in Server
                      /\ Other(s) # s
                      /\ Other(Other(s)) = s
                      /\ \A r \in Server : r = s \/ r = Other(s)
  BY ServerAssumption DEF Other

LEMMA RepliesAreFrames ==
    \A f \in Frame : \A reply \in Replies(f) : reply \in SUBSET Frame
  BY DEF Replies, Frame

-----------------------------------------------------------------------------
(* Every variable has its type in every reachable state. *)
THEOREM TypeCorrect == Spec => []TypeOK
<1>1. Init => TypeOK
  BY TimeAssumption DEF Init, TypeOK
<1>2. TypeOK /\ [Next]_vars => TypeOK'
  <2> SUFFICES ASSUME TypeOK, [Next]_vars PROVE TypeOK'
    OBVIOUS
  <2> USE DEF TypeOK
  <2>1. ASSUME NEW s \in Server, Turn(s) PROVE TypeOK'
    <3>1. lastKA' \in [Server -> Nat] /\ lastGM' \in [Server -> Nat]
      BY <2>1 DEF Turn
    <3>2. lastSR' \in [Server -> Nat] /\ lastCC' \in [Server -> Nat]
      BY <2>1 DEF Turn
    <3>3. away' \in [Server -> Nat] /\ lastSeen' \in [Server -> Nat] /\ alive' \in [Server -> BOOLEAN]
      BY <2>1 DEF Turn
    <3>4. length' \in [Server -> Nat \ {0}]
      <4>1. PICK d \in Search : length' = [length EXCEPT ![s] = Pause(d)]
        BY <2>1 DEF Turn, Searches
      <4>2. Pause(d) \in Nat \ {0}
        BY TimeAssumption DEF Pause
      <4> QED
        BY <4>1, <4>2
    <3>5. entry' \in [Server -> BOOLEAN]
      <4>1. entry' = entry \/ entry' = [entry EXCEPT ![s] = FALSE]
        BY <2>1 DEF Turn
      <4> QED
        BY <4>1
    <3>6. wire' \in [Server -> SUBSET Frame]
      <4>1. Due(s) \in SUBSET Frame
        BY DEF Due, Frame
      <4>2. \/ wire' = [r \in Server |-> {}]
            \/ wire' = [wire EXCEPT ![s] = @ \cup Due(s)]
            \/ wire' = wire
        BY <2>1 DEF Turn
      <4>3. [r \in Server |-> {}] \in [Server -> SUBSET Frame]
        OBVIOUS
      <4>4. [wire EXCEPT ![s] = @ \cup Due(s)] \in [Server -> SUBSET Frame]
        BY <4>1
      <4> QED
        BY <4>2, <4>3, <4>4
    <3> QED
      BY <3>1, <3>2, <3>3, <3>4, <3>5, <3>6
  <2>2. ASSUME NEW s \in Server, NEW f \in Frame, Handle(s, f) PROVE TypeOK'
    <3>1. PICK reply \in Replies(f) :
             wire' = [r \in Server |-> IF r = s THEN wire[r] \cup reply ELSE wire[r] \ {f}]
      BY <2>2 DEF Handle
    <3>2. reply \in SUBSET Frame
      BY RepliesAreFrames
    <3>3. wire' \in [Server -> SUBSET Frame]
      BY <3>1, <3>2
    <3> QED
      BY <2>2, <3>3 DEF Handle, rounds
  <2>3. ASSUME NEW s \in Server, PeerEnds(s) PROVE TypeOK'
    BY <2>3 DEF PeerEnds, rounds
  <2>4. ASSUME NEW s \in Server, Crash(s) PROVE TypeOK'
    BY <2>4 DEF Crash, rounds
  <2>5. CASE Connect
    BY <2>5 DEF Connect, rounds
  <2>6. CASE Tick
    BY <2>6 DEF Tick, Older
  <2>7. CASE UNCHANGED vars
    BY <2>7 DEF vars, rounds
  <2> QED
    BY <2>1, <2>2, <2>3, <2>4, <2>5, <2>6, <2>7 DEF Next
<1> QED
  BY <1>1, <1>2, PTL DEF Spec

-----------------------------------------------------------------------------
(* A round is late by no more than the time the monitor has been away. *)
RoundsInTime ==
    \A s \in Server : /\ lastKA[s] < away[s] + KA
                      /\ lastGM[s] < away[s] + GM

(* On a connection with both ends: as long as nothing is on the way, a     *)
(* peer was heard of since its last KEEPALIVE round; and it was heard of   *)
(* since the own GETMSGS round, or that was just now and the request or    *)
(* its answer is on the way. *)
HeardSinceKA ==
    Linked => \A s \in Server :
        wire[Other(s)] # {} \/ lastSeen[s] <= lastKA[Other(s)]

JustAsked(s) ==
    /\ away[s] = 0
    /\ "getmsgs" \in wire[s] \/ "answer" \in wire[Other(s)]

HeardSinceGM ==
    Linked => \A s \in Server : JustAsked(s) \/ lastSeen[s] <= lastGM[s]

LEMMA RoundsInTimeInvariant == Spec => []RoundsInTime
<1>1. Init => RoundsInTime
  BY TimeAssumption DEF Init, RoundsInTime
<1>2. TypeOK /\ RoundsInTime /\ [Next]_vars => RoundsInTime'
  <2> SUFFICES ASSUME TypeOK, RoundsInTime, [Next]_vars,
                      NEW s \in Server
               PROVE  lastKA'[s] < away'[s] + KA /\ lastGM'[s] < away'[s] + GM
    BY DEF RoundsInTime
  <2> USE TimeAssumption DEF TypeOK, RoundsInTime
  <2>1. ASSUME NEW r \in Server, Turn(r) PROVE lastKA'[s] < away'[s] + KA /\ lastGM'[s] < away'[s] + GM
    BY <2>1 DEF Turn
  <2>2. CASE Tick
    BY <2>2 DEF Tick, Older
  <2>3. CASE UNCHANGED rounds
    BY <2>3 DEF rounds
  <2> QED
    BY <2>1, <2>2, <2>3 DEF Next, Handle, PeerEnds, Crash, Connect, vars
<1> QED
  BY <1>1, <1>2, TypeCorrect, PTL DEF Spec

LEMMA HeardInvariant == Spec => [](HeardSinceKA /\ HeardSinceGM)
<1>1. Init => HeardSinceKA /\ HeardSinceGM
  BY OtherServer DEF Init, HeardSinceKA, HeardSinceGM
<1>2. TypeOK /\ HeardSinceKA /\ HeardSinceGM /\ [Next]_vars => HeardSinceKA' /\ HeardSinceGM'
  <2> SUFFICES ASSUME TypeOK, HeardSinceKA, HeardSinceGM, [Next]_vars, Linked',
                      NEW s \in Server
               PROVE  /\ (wire[Other(s)] # {} \/ lastSeen[s] <= lastKA[Other(s)])'
                      /\ (JustAsked(s) \/ lastSeen[s] <= lastGM[s])'
    BY DEF HeardSinceKA, HeardSinceGM
  <2> DEFINE o    == Other(s)
             KeptKA == (wire[o] # {} \/ lastSeen[s] <= lastKA[o])'
             KeptGM == (JustAsked(s) \/ lastSeen[s] <= lastGM[s])'
  <2>o. o \in Server /\ o # s /\ Other(o) = s /\ \A r \in Server : r = s \/ r = o
    BY OtherServer
  <2> HIDE DEF o
  <2>h. Linked => /\ wire[o] # {} \/ lastSeen[s] <= lastKA[o]
                  /\ JustAsked(s) \/ lastSeen[s] <= lastGM[s]
    BY DEF HeardSinceKA, HeardSinceGM, o
  <2>j. /\ JustAsked(s)  <=> away[s] = 0 /\ ("getmsgs" \in wire[s] \/ "answer" \in wire[o])
        /\ JustAsked(s)' <=> away'[s] = 0 /\ ("getmsgs" \in wire'[s] \/ "answer" \in wire'[o])
    BY DEF JustAsked, o
  <2>1. ASSUME NEW r \in Server, Turn(r) PROVE KeptKA /\ KeptGM
    <3>1. Linked /\ wire' = [wire EXCEPT ![r] = @ \cup Due(r)]
      BY <2>1 DEF Turn, Linked, TypeOK
    <3>2. CASE r = s
      <4>1. wire'[o] = wire[o] /\ lastSeen' = lastSeen /\ lastKA'[o] = lastKA[o]
        BY <2>1, <2>o, <3>1, <3>2 DEF Turn, TypeOK
      <4>2. CASE lastGM[s] >= GM
        <5>1. "getmsgs" \in wire'[s] /\ away'[s] = 0
          BY <2>1, <3>1, <3>2, <4>2 DEF Turn, Due, TypeOK
        <5> QED
          BY <2>h, <2>j, <3>1, <4>1, <5>1
      <4>3. CASE ~(lastGM[s] >= GM)
        <5>1. lastGM'[s] = lastGM[s] /\ away'[s] = 0 /\ wire[s] \subseteq wire'[s]
          BY <2>1, <3>1, <3>2, <4>3 DEF Turn, TypeOK
        <5> QED
          BY <2>h, <2>j, <3>1, <4>1, <5>1
      <4> QED
        BY <4>2, <4>3
    <3>3. CASE r = o
      <4>1. wire'[s] = wire[s] /\ wire[o] \subseteq wire'[o] /\ lastSeen' = lastSeen
        BY <2>1, <2>o, <3>1, <3>3 DEF Turn, TypeOK
      <4>2. lastGM'[s] = lastGM[s] /\ away'[s] = away[s]
        BY <2>1, <2>o, <3>3 DEF Turn, TypeOK
      <4>3. KeptGM
        BY <2>h, <2>j, <3>1, <4>1, <4>2
      <4>4. CASE lastKA[o] >= KA
        <5>1. "keepalive" \in wire'[o]
          BY <2>o, <3>1, <3>3, <4>4 DEF Due, TypeOK
        <5> QED
          BY <4>3, <5>1
      <4>5. CASE ~(lastKA[o] >= KA)
        <5>1. lastKA'[o] = lastKA[o]
          BY <2>1, <2>o, <3>3, <4>5 DEF Turn, TypeOK
        <5> QED
          BY <2>h, <3>1, <4>1, <4>3, <5>1
      <4> QED
        BY <4>4, <4>5
    <3> QED
      BY <2>o, <3>2, <3>3
  <2>2. ASSUME NEW r \in Server, NEW f \in Frame, Handle(r, f) PROVE KeptKA /\ KeptGM
    <3>1. Linked /\ UNCHANGED rounds /\ lastSeen' = [lastSeen EXCEPT ![r] = 0]
      BY <2>2 DEF Handle, Linked
    <3>2. PICK reply \in Replies(f) :
             wire' = [q \in Server |-> IF q = r THEN wire[q] \cup reply ELSE wire[q] \ {f}]
      BY <2>2 DEF Handle
    <3>3. CASE r = s
      <4>1. lastSeen'[s] = 0
        BY <3>1, <3>3 DEF TypeOK
      <4>2. lastKA'[o] \in Nat /\ lastGM'[s] \in Nat
        BY <2>o, <3>1 DEF rounds, TypeOK
      <4> QED
        BY <4>1, <4>2
    <3>4. CASE r = o
      <4>1. lastSeen'[s] = lastSeen[s] /\ lastKA' = lastKA /\ lastGM' = lastGM /\ away' = away
        BY <2>o, <3>1, <3>4 DEF rounds, TypeOK
      <4>2. wire'[s] = wire[s] \ {f} /\ wire'[o] = wire[o] \cup reply
        BY <2>o, <3>2, <3>4
      <4>3. f = "getmsgs" => reply = {"answer"}
        BY DEF Replies
      <4>4. JustAsked(s) => JustAsked(s)'
        BY <2>j, <4>1, <4>2, <4>3
      <4> QED
        BY <2>h, <3>1, <4>1, <4>2, <4>4
    <3> QED
      BY <2>o, <3>3, <3>4
  <2>3. ASSUME Tick PROVE KeptKA /\ KeptGM
    <3>1. Linked /\ wire[s] = {} /\ wire[o] = {}
      BY <2>o, <2>3 DEF Tick, Linked
    <3>2. lastSeen[s] <= lastKA[o] /\ lastSeen[s] <= lastGM[s]
      BY <2>h, <2>j, <3>1
    <3>3. /\ lastSeen'[s] = lastSeen[s] + 1
          /\ lastKA'[o] = lastKA[o] + 1
          /\ lastGM'[s] = lastGM[s] + 1
      BY <2>o, <2>3, <3>1 DEF Tick, Older, Linked
    <3> QED
      BY <2>o, <3>2, <3>3 DEF TypeOK
  <2>4. ASSUME Connect PROVE KeptKA /\ KeptGM
    <3>1. lastSeen'[s] = 0 /\ lastKA'[o] \in Nat /\ lastGM'[s] \in Nat
      BY <2>o, <2>4 DEF Connect, rounds, TypeOK
    <3> QED
      BY <3>1
  <2>5. ASSUME NEW r \in Server, PeerEnds(r) \/ Crash(r) PROVE FALSE
    BY <2>5 DEF PeerEnds, Crash, Linked, TypeOK
  <2>6. ASSUME UNCHANGED vars PROVE KeptKA /\ KeptGM
    <3>1. Linked /\ JustAsked(s)' = JustAsked(s)
      BY <2>6 DEF Linked, JustAsked, vars, rounds
    <3>2. wire' = wire /\ lastSeen' = lastSeen /\ lastKA' = lastKA /\ lastGM' = lastGM
      BY <2>6 DEF vars, rounds
    <3> QED
      BY <2>h, <3>1, <3>2
  <2>7. KeptKA /\ KeptGM
    BY <2>1, <2>2, <2>3, <2>4, <2>5, <2>6 DEF Next
  <2> QED
    BY <2>7 DEF o
<1> QED
  BY <1>1, <1>2, TypeCorrect, PTL DEF Spec

-----------------------------------------------------------------------------
(* A living peer is dropped for its silence only when both monitors have   *)
(* been away in a search for nearly all of that silence. *)
THEOREM LivingPeerKept == Spec => LivingKept
<1> DEFINE Kept(s) == entry[s] /\ ~entry'[s] /\ entry[Other(s)] /\ alive[Other(s)] =>
                          /\ away[s] + GM >= Silence + 2
                          /\ away[Other(s)] + KA >= Silence + 2 \/ wire[Other(s)] # {}
<1>1. TypeOK /\ RoundsInTime /\ HeardSinceKA /\ HeardSinceGM /\ [Next]_vars
         => [\A s \in Server : Kept(s)]_vars
  <2> SUFFICES ASSUME TypeOK, RoundsInTime, HeardSinceKA, HeardSinceGM, Next,
                      NEW s \in Server, entry[s], ~entry'[s], entry[Other(s)], alive[Other(s)]
               PROVE  /\ away[s] + GM >= Silence + 2
                      /\ away[Other(s)] + KA >= Silence + 2 \/ wire[Other(s)] # {}
    OBVIOUS
  <2>1. Turn(s) /\ Silent(s)
    <3>1. \A r \in Server : Turn(r) /\ r # s => entry'[s] = entry[s]
      BY DEF Turn, TypeOK
    <3>2. \A r \in Server : PeerEnds(r) => r # s /\ entry'[s] = entry[s]
      BY OtherServer DEF PeerEnds, Closed, TypeOK
    <3>3. ASSUME NEW r \in Server, Crash(r) \/ \E f \in Frame : Handle(r, f)
          PROVE  entry'[s] = entry[s]
      BY <3>3 DEF Crash, Handle
    <3>4. Connect \/ Tick => entry'[s] = TRUE
      BY DEF Connect, Tick
    <3>5. Turn(s)
      BY <3>1, <3>2, <3>3, <3>4 DEF Next
    <3> QED
      BY <3>5 DEF Turn
  <2>2. Linked
    <3>1. alive[s]
      BY <2>1 DEF Turn
    <3> QED
      BY <3>1, OtherServer DEF Linked
  <2>3. lastSeen[s] > Silence /\ away[s] # 0
    BY <2>1 DEF Silent, Turn, TypeOK
  <2>4. lastSeen[s] <= lastGM[s]
    BY <2>2, <2>3 DEF HeardSinceGM, JustAsked
  <2>5. wire[Other(s)] # {} \/ lastSeen[s] <= lastKA[Other(s)]
    BY <2>2 DEF HeardSinceKA
  <2>6. lastGM[s] < away[s] + GM /\ lastKA[Other(s)] < away[Other(s)] + KA
    BY OtherServer DEF RoundsInTime
  <2>7. /\ {lastSeen[s], lastGM[s], away[s], lastKA[Other(s)], away[Other(s)]} \subseteq Nat
        /\ {KA, GM, Silence} \subseteq Nat
    BY OtherServer, TimeAssumption DEF TypeOK
  <2> QED
    BY <2>3, <2>4, <2>5, <2>6, <2>7
<1> QED
  BY <1>1, TypeCorrect, RoundsInTimeInvariant, HeardInvariant, PTL DEF Spec, LivingKept

-----------------------------------------------------------------------------
(* How long the silence of a peer in the table can be, with the time the   *)
(* monitor has been away.                                                  *)
SilenceInTurn ==
    \A s \in Server :
        /\ away[s] <= length[s]
        /\ \E d \in Search : length[s] = d + 1
        /\ alive[s] /\ entry[s] => lastSeen[s] <= Silence + away[s]

(* A silent peer is dropped by the end of the search the monitor is in. *)
THEOREM SilentPeerDropped == Spec => []SilentDropped
<1>1. Init => SilenceInTurn
  BY TimeAssumption DEF Init, SilenceInTurn
<1>2. TypeOK /\ SilenceInTurn /\ [Next]_vars => SilenceInTurn'
  <2> SUFFICES ASSUME TypeOK, SilenceInTurn, [Next]_vars, NEW s \in Server
               PROVE  /\ away'[s] <= length'[s]
                      /\ \E d \in Search : length'[s] = d + 1
                      /\ alive'[s] /\ entry'[s] => lastSeen'[s] <= Silence + away'[s]
    BY DEF SilenceInTurn
  <2> DEFINE Good == /\ away'[s] <= length'[s]
                     /\ \E d \in Search : length'[s] = d + 1
                     /\ alive'[s] /\ entry'[s] => lastSeen'[s] <= Silence + away'[s]
  <2> USE TimeAssumption
  <2>0. /\ away[s] <= length[s]
        /\ \E d \in Search : length[s] = d + 1
        /\ alive[s] /\ entry[s] => lastSeen[s] <= Silence + away[s]
    BY DEF SilenceInTurn
  <2>1. ASSUME NEW r \in Server, Turn(r) PROVE Good
    <3>1. PICK d \in Search : length' = [length EXCEPT ![r] = d + 1]
      BY <2>1 DEF Turn, Searches, Pause
    <3>2. CASE r = s
      <4>1. length'[s] = d + 1 /\ away'[s] = 0
        BY <2>1, <3>1, <3>2 DEF Turn, TypeOK
      <4>2. entry'[s] => lastSeen'[s] <= Silence
        BY <2>1, <3>2 DEF Turn, Silent, TypeOK
      <4> QED
        BY <4>1, <4>2
    <3>3. CASE r # s
      <4>1. length'[s] = length[s] /\ away'[s] = away[s]
        BY <2>1, <3>1, <3>3 DEF Turn, TypeOK
      <4>2. lastSeen' = lastSeen /\ alive' = alive /\ entry'[s] = entry[s]
        BY <2>1, <3>3 DEF Turn, TypeOK
      <4> QED
        BY <2>0, <4>1, <4>2
    <3> QED
      BY <3>2, <3>3
  <2>2. ASSUME NEW r \in Server, NEW f \in Frame, Handle(r, f) PROVE Good
    <3>1. UNCHANGED <<rounds, entry, alive>> /\ (lastSeen'[s] = lastSeen[s] \/ lastSeen'[s] = 0)
      BY <2>2 DEF Handle, TypeOK
    <3> QED
      BY <2>0, <3>1 DEF rounds, TypeOK
  <2>3. ASSUME NEW r \in Server, PeerEnds(r) PROVE Good
    <3>1. UNCHANGED <<rounds, lastSeen, alive>> /\ (entry'[s] => entry[s])
      BY <2>3 DEF PeerEnds, TypeOK
    <3> QED
      BY <2>0, <3>1 DEF rounds
  <2>4. ASSUME NEW r \in Server, Crash(r) PROVE Good
    <3>1. UNCHANGED <<rounds, lastSeen, entry>> /\ (alive'[s] => alive[s])
      BY <2>4 DEF Crash, TypeOK
    <3> QED
      BY <2>0, <3>1 DEF rounds
  <2>5. CASE Connect
    <3>1. UNCHANGED rounds /\ lastSeen'[s] = 0
      BY <2>5 DEF Connect
    <3> QED
      BY <2>0, <3>1 DEF rounds, TypeOK
  <2>6. CASE Tick
    <3>1. alive[s] => away[s] < length[s]
      BY <2>6 DEF Tick
    <3>2. UNCHANGED <<length, entry, alive>>
      BY <2>6 DEF Tick
    <3>3. CASE alive[s]
      <4>1. away'[s] = away[s] + 1 /\ lastSeen'[s] <= lastSeen[s] + 1
        BY <2>6, <3>3 DEF Tick, Older, TypeOK
      <4>2. entry[s] => lastSeen'[s] = lastSeen[s] + 1
        BY <2>6, <3>3 DEF Tick, Older
      <4> QED
        BY <2>0, <3>1, <3>2, <3>3, <4>1, <4>2 DEF TypeOK
    <3>4. CASE ~alive[s]
      <4>1. away'[s] = away[s]
        BY <2>6, <3>4 DEF Tick, Older
      <4> QED
        BY <2>0, <3>2, <3>4, <4>1
    <3> QED
      BY <3>3, <3>4
  <2>7. CASE UNCHANGED vars
    BY <2>0, <2>7 DEF vars, rounds
  <2>8. Good
    BY <2>1, <2>2, <2>3, <2>4, <2>5, <2>6, <2>7 DEF Next
  <2> QED
    BY <2>8
<1>3. TypeOK /\ SilenceInTurn => SilentDropped
  <2> SUFFICES ASSUME TypeOK, SilenceInTurn, NEW s \in Server, alive[s], entry[s]
               PROVE  \E d \in Search : lastSeen[s] <= Silence + d + 1
    BY DEF SilentDropped
  <2>1. PICK d \in Search : length[s] = d + 1
    BY DEF SilenceInTurn
  <2>2. lastSeen[s] <= Silence + away[s] /\ away[s] <= d + 1
    BY <2>1 DEF SilenceInTurn
  <2>3. lastSeen[s] <= Silence + d + 1
    BY <2>2, TimeAssumption DEF TypeOK
  <2> QED
    BY <2>3
<1> QED
  BY <1>1, <1>2, <1>3, TypeCorrect, PTL DEF Spec
=============================================================================
