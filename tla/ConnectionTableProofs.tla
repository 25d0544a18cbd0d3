------------------------ MODULE ConnectionTableProofs ------------------------
(***************************************************************************)
(* Theorems about ConnectionTable, for any number of descriptors,          *)
(* connections, addresses and groups and for any limit.                    *)
(***************************************************************************)
EXTENDS ConnectionTable, TLAPS

-----------------------------------------------------------------------------
(* Type correctness.                                                       *)

LEMMA Types ==
    /\ NoEntry \in Entry
    /\ IdleWorker \in WorkerState
    /\ NoPeer \in PeerState
    /\ DonePeer \in PeerState
BY DEF NoEntry, Entry, IdleWorker, WorkerState, WorkerPc, NoPeer, DonePeer,
       PeerState, PeerPc, GroupId

LEMMA TypeInit == Init => TypeOK
<1> SUFFICES ASSUME Init PROVE TypeOK
    OBVIOUS
<1>1. /\ file \in [Fd -> Conn \cup {None}]
      /\ remote \in [Conn -> {"fresh", "open", "shut"}]
      /\ groupIds \in SUBSET GroupId
      /\ serving \in BOOLEAN
      BY DEF Init
<1>2. servers \in [Fd -> Entry] /\ peer \in [Conn -> PeerState]
      BY Types DEF Init
<1>3. worker \in [Worker -> WorkerState]
      BY Types DEF Init
<1>4. ThreadShape
      BY DEF Init, ThreadShape, IdleWorker, NoPeer
<1>5. QED
      BY <1>1, <1>2, <1>3, <1>4 DEF TypeOK

LEMMA ForgetType ==
    ASSUME remote \in [Conn -> {"fresh", "open", "shut"}], Forget
    PROVE  remote' \in [Conn -> {"fresh", "open", "shut"}]
BY DEF Forget

LEMMA HeloType ==
    ASSUME servers \in [Fd -> Entry], groupIds \in SUBSET GroupId,
           NEW f \in Fd, NEW g \in GroupId, HandleHelo(f, g)
    PROVE  servers' \in [Fd -> Entry] /\ groupIds' \in SUBSET GroupId
<1>1. [servers[f] EXCEPT !.gid = g] \in Entry
      BY DEF Entry
<1>2. [servers EXCEPT ![f].gid = g] \in [Fd -> Entry]
      BY <1>1
<1>3. QED
      BY <1>2 DEF HandleHelo

LEMMA MainType == TypeOK /\ MainNext => TypeOK'
<1> SUFFICES ASSUME TypeOK, MainNext PROVE TypeOK'
    OBVIOUS
<1> USE DEF TypeOK, ThreadShape, Entry, NoEntry, GroupId, WorkerState,
            IdleWorker, WorkerPc, PeerState, PeerPc, Worker, Moves
<1>1. CASE StartServing
      BY <1>1 DEF StartServing
<1>2. ASSUME NEW f \in Fd, NEW c \in Conn, Accept(f, c) PROVE TypeOK'
      BY <1>2 DEF Accept, Open
<1>3. ASSUME NEW g \in GroupId, FirstIsHelo(g) PROVE TypeOK'
      BY <1>3 DEF FirstIsHelo
<1>4. CASE MainInsert
      <2>1. [NoEntry EXCEPT !.conn = worker["main"].conn] \in Entry
            BY <1>4 DEF MainInsert
      <2>2. servers' \in [Fd -> Entry]
            BY <1>4, <2>1 DEF MainInsert
      <2>3. worker' \in [Worker -> WorkerState] /\ ThreadShape'
            BY <1>4 DEF MainInsert
      <2>4. QED
            BY <1>4, <2>2, <2>3 DEF MainInsert
<1>5. CASE FirstIsClient
      <2>1. [worker["main"] EXCEPT !.pc = "client"] \in WorkerState
            BY <1>5 DEF FirstIsClient
      <2>2. worker' \in [Worker -> WorkerState]
            BY <1>5, <2>1 DEF FirstIsClient
      <2>3. ThreadShape'
            BY <1>5 DEF FirstIsClient
      <2>4. QED
            BY <1>5, <2>2, <2>3 DEF FirstIsClient
<1>6. CASE MainReceiveFails
      BY <1>6, ForgetType DEF MainReceiveFails, Close
<1>7. CASE MainHelo
      <2>1. servers' \in [Fd -> Entry] /\ groupIds' \in SUBSET GroupId
        <3>1. worker["main"].fd \in Fd /\ worker["main"].gid \in GroupId
              BY <1>7 DEF MainHelo
        <3>2. HandleHelo(worker["main"].fd, worker["main"].gid)
                \/ UNCHANGED <<servers, groupIds>>
              BY <1>7 DEF MainHelo
        <3>3. QED
              BY <3>1, <3>2, HeloType
      <2>2. worker' \in [Worker -> WorkerState] /\ ThreadShape'
            BY <1>7 DEF MainHelo
      <2>3. QED
            BY <1>7, <2>1, <2>2 DEF MainHelo
<1>8. CASE MainCheck
      BY <1>8 DEF MainCheck
<1>9. CASE MainSpawn
      BY <1>9 DEF MainSpawn, StartPeer, NoPeer
<1>10. CASE MainSpawnFails
      BY <1>10 DEF MainSpawnFails
<1>11. CASE MainRejectClose
      BY <1>11, ForgetType DEF MainRejectClose, Close
<1>12. CASE MainRejectErase
      BY <1>12 DEF MainRejectErase
<1>13. QED
      BY <1>1, <1>2, <1>3, <1>4, <1>5, <1>6, <1>7, <1>8, <1>9, <1>10, <1>11,
         <1>12 DEF MainNext

LEMMA OutType == ASSUME NEW w \in Worker, TypeOK, OutNext(w) PROVE TypeOK'
<1> USE DEF TypeOK, ThreadShape, Entry, NoEntry, GroupId, WorkerState,
            IdleWorker, WorkerPc, PeerState, PeerPc, Worker, Moves
<1>1. ASSUME NEW a \in Addr, NEW f \in Fd, NEW c \in Conn, OutConnect(w, a, f, c)
      PROVE  TypeOK'
      BY <1>1 DEF OutConnect, Open
<1>2. CASE OutFails(w)
      BY <1>2 DEF OutFails
<1>3. ASSUME NEW g \in Group, OutHelo(w, g) PROVE TypeOK'
      BY <1>3 DEF OutHelo
<1>4. ASSUME NEW g \in GroupId, OutServers(w, g) PROVE TypeOK'
      BY <1>4 DEF OutServers
<1>5. CASE OutRegister(w)
      BY <1>5 DEF OutRegister
<1>6. CASE OutSpawn(w)
      BY <1>6 DEF OutSpawn, StartPeer, NoPeer
<1>7. CASE OutSpawnFails(w)
      BY <1>7 DEF OutSpawnFails
<1>8. CASE OutClose(w)
      BY <1>8, ForgetType DEF OutClose, Close
<1>9. QED
      BY <1>1, <1>2, <1>3, <1>4, <1>5, <1>6, <1>7, <1>8, OutNext(w) DEF OutNext

LEMMA DropType == ASSUME NEW S \in SUBSET Fd, TypeOK, Drop(S) PROVE TypeOK'
BY ForgetType DEF Drop, TypeOK, ThreadShape, Entry, NoEntry, GroupId

LEMMA PeerType ==
    ASSUME NEW t \in Conn, TypeOK, PeerNext(t) \/ RemoteClose(t) PROVE TypeOK'
<1> USE DEF TypeOK, ThreadShape, Entry, NoEntry, GroupId, PeerState, PeerPc, NoPeer, Goes
<1>1. CASE PeerBlock(t)
      BY <1>1 DEF PeerBlock
<1>2. ASSUME NEW g \in GroupId, PeerReceive(t, g) PROVE TypeOK'
      BY <1>2 DEF PeerReceive
<1>3. CASE PeerHandle(t)
      <2>1. servers' \in [Fd -> Entry] /\ groupIds' \in SUBSET GroupId
        <3>1. peer[t].fd \in Fd /\ peer[t].gid \in GroupId
              BY <1>3 DEF PeerHandle
        <3>2. HandleHelo(peer[t].fd, peer[t].gid) \/ UNCHANGED <<servers, groupIds>>
              BY <1>3 DEF PeerHandle
        <3>3. QED
              BY <3>1, <3>2, HeloType
      <2>2. peer' \in [Conn -> PeerState] /\ ThreadShape'
            BY <1>3 DEF PeerHandle
      <2>3. QED
            BY <1>3, <2>1, <2>2 DEF PeerHandle
<1>4. CASE PeerReceiveFails(t)
      BY <1>4, ForgetType DEF PeerReceiveFails
<1>5. CASE PeerCleanup(t)
      BY <1>5 DEF PeerCleanup
<1>6. CASE PeerClose(t)
      BY <1>6, ForgetType DEF PeerClose, Close, DonePeer
<1>7. CASE RemoteClose(t)
      BY <1>7 DEF RemoteClose
<1>8. QED
      BY <1>1, <1>2, <1>3, <1>4, <1>5, <1>6, <1>7 DEF PeerNext

LEMMA TypeStep == TypeOK /\ [Next]_vars => TypeOK'
<1>1. TypeOK /\ UNCHANGED vars => TypeOK'
      BY DEF TypeOK, ThreadShape, vars
<1>2. TypeOK /\ HealthNext => TypeOK'
      BY DropType DEF HealthNext, DropFailed, DropSilent
<1>3. QED
      BY <1>1, <1>2, MainType, OutType, PeerType DEF Next

(* Every variable keeps its type, and every thread at work has a           *)
(* descriptor: the code of server.cpp never uses one it was not given.     *)
THEOREM TypeCorrect == Spec => []TypeOK
BY TypeInit, TypeStep, PTL DEF Spec

-----------------------------------------------------------------------------
(* What a step may do to the table.  Whatever thread takes it, it either   *)
(* claims a group nobody holds for one descriptor, or empties some entries *)
(* (perhaps none) and frees at most the groups of entries it removes.      *)

Claims ==
    \E f \in Fd, g \in GroupId :
        /\ g \notin groupIds
        /\ groupIds' = groupIds \cup {g}
        /\ \A h \in Fd : servers'[h].gid = IF h = f THEN g ELSE servers[h].gid

Empties(S) ==
    /\ groupIds' \subseteq groupIds
    /\ \A g \in groupIds : g \notin groupIds'
          => \E f \in S : servers[f].gid = g /\ servers'[f].conn = None
    /\ \A h \in Fd : servers'[h].gid = IF h \in S THEN NoGroup ELSE servers[h].gid

Vacates == \E S \in SUBSET Fd : Empties(S)

LEMMA TableUnchanged == UNCHANGED <<servers, groupIds>> => Vacates
<1> SUFFICES ASSUME UNCHANGED <<servers, groupIds>> PROVE Vacates
    OBVIOUS
<1>1. \A h \in Fd : servers'[h].gid = IF h \in {} THEN NoGroup ELSE servers[h].gid
      OBVIOUS
<1>2. Empties({})
      BY <1>1 DEF Empties
<1>3. QED
      BY <1>2 DEF Vacates

(* The HELO handler, for main and for a peer thread. *)
LEMMA HeloStep ==
    ASSUME TypeOK, NEW f \in Fd, NEW g \in GroupId, HandleHelo(f, g)
    PROVE  Claims \/ Vacates
<1>1. CASE g \in groupIds \/ ~Present(f)
      BY <1>1, TableUnchanged DEF HandleHelo
<1>2. CASE ~(g \in groupIds \/ ~Present(f))
      <2>1. \A h \in Fd : servers'[h].gid = IF h = f THEN g ELSE servers[h].gid
            BY <1>2 DEF HandleHelo, TypeOK, Entry
      <2>2. groupIds' = groupIds \cup {g} /\ g \notin groupIds
            BY <1>2 DEF HandleHelo
      <2>3. QED
            BY <2>1, <2>2 DEF Claims
<1>3. QED
      BY <1>1, <1>2

LEMMA EraseStep ==
    ASSUME TypeOK, NEW f \in Fd, NEW e \in Entry, e.gid = NoGroup,
           servers' = [servers EXCEPT ![f] = e],
           \/ groupIds' = groupIds
           \/ groupIds' = groupIds \ {servers[f].gid} /\ e.conn = None
    PROVE  Vacates
<1>1. \A h \in Fd : servers'[h].gid = IF h \in {f} THEN NoGroup ELSE servers[h].gid
      BY DEF TypeOK
<1>2. \A g \in groupIds : g \notin groupIds'
         => \E h \in {f} : servers[h].gid = g /\ servers'[h].conn = None
      BY DEF TypeOK
<1>3. groupIds' \subseteq groupIds
      OBVIOUS
<1>4. QED
      <2>1. Empties({f})
            BY <1>1, <1>2, <1>3 DEF Empties
      <2>2. QED
            BY <2>1 DEF Vacates

LEMMA MainStep == ASSUME TypeOK, MainNext PROVE Claims \/ Vacates
<1> DEFINE m == worker["main"]
<1>1. CASE MainInsert
      <2>1. m.fd \in Fd /\ m.conn \in Conn
            BY <1>1 DEF MainInsert, TypeOK, ThreadShape, Worker
      <2>2. /\ [NoEntry EXCEPT !.conn = m.conn] \in Entry
            /\ [NoEntry EXCEPT !.conn = m.conn].gid = NoGroup
            BY <2>1 DEF NoEntry, Entry, GroupId
      <2>3. QED
            BY <1>1, <2>1, <2>2, EraseStep DEF MainInsert
<1>2. CASE MainHelo
      <2>1. m.fd \in Fd /\ m.gid \in GroupId
            BY <1>2 DEF MainHelo, TypeOK, ThreadShape, Worker, WorkerState
      <2>2. QED
            BY <1>2, <2>1, HeloStep, TableUnchanged DEF MainHelo
<1>3. CASE MainRejectErase
      <2>1. m.fd \in Fd
            BY <1>3 DEF MainRejectErase, TypeOK, ThreadShape, Worker
      <2>2. QED
            BY <1>3, <2>1, Types, EraseStep DEF MainRejectErase, NoEntry
<1>4. CASE UNCHANGED <<servers, groupIds>>
      BY <1>4, TableUnchanged
<1>5. QED
      BY <1>1, <1>2, <1>3, <1>4
      DEF MainNext, StartServing, Accept, FirstIsHelo, FirstIsClient,
          MainReceiveFails, MainCheck, MainSpawn, MainSpawnFails, MainRejectClose

LEMMA OutStep ==
    ASSUME TypeOK, ~SpawnMayFail, NEW w \in Worker, OutNext(w)
    PROVE  Claims \/ Vacates
<1>1. CASE OutRegister(w) /\ worker[w].gid \notin groupIds /\ worker[w].gid # MyGroup
      <2> DEFINE f == worker[w].fd
                 g == worker[w].gid
      <2>1. f \in Fd /\ g \in GroupId
            BY <1>1 DEF OutRegister, TypeOK, ThreadShape, WorkerState
      <2>2. \A h \in Fd : servers'[h].gid = IF h = f THEN g ELSE servers[h].gid
            BY <1>1 DEF OutRegister, TypeOK
      <2>3. groupIds' = groupIds \cup {g}
            BY <1>1 DEF OutRegister
      <2>4. QED
            BY <1>1, <2>1, <2>2, <2>3 DEF Claims
<1>2. CASE UNCHANGED <<servers, groupIds>>
      BY <1>2, TableUnchanged
<1>3. QED
      BY <1>1, <1>2
      DEF OutNext, OutConnect, OutFails, OutHelo, OutServers, OutRegister,
          OutSpawn, OutSpawnFails, OutClose

LEMMA DropStep == ASSUME TypeOK, NEW S \in SUBSET Fd, Drop(S) PROVE Vacates
<1>1. \A h \in Fd : servers'[h] = IF h \in S THEN NoEntry ELSE servers[h]
      BY DEF Drop
<1>2. \A h \in Fd : servers'[h].gid = IF h \in S THEN NoGroup ELSE servers[h].gid
      BY <1>1 DEF NoEntry
<1>3. \A g \in groupIds : g \notin groupIds'
         => \E f \in S : servers[f].gid = g /\ servers'[f].conn = None
      BY <1>1 DEF Drop, NoEntry
<1>4. groupIds' \subseteq groupIds
      BY DEF Drop
<1>5. QED
      BY <1>2, <1>3, <1>4 DEF Vacates, Empties

LEMMA PeerStepTable ==
    ASSUME TypeOK, NEW t \in Conn, PeerNext(t) \/ RemoteClose(t)
    PROVE  Claims \/ Vacates
<1>1. CASE PeerHandle(t)
      <2>1. peer[t].fd \in Fd /\ peer[t].gid \in GroupId
            BY <1>1 DEF PeerHandle, TypeOK, ThreadShape, PeerState
      <2>2. QED
            BY <1>1, <2>1, HeloStep, TableUnchanged DEF PeerHandle
<1>2. CASE PeerCleanup(t)
      <2>1. peer[t].fd \in Fd
            BY <1>2 DEF PeerCleanup, TypeOK, ThreadShape
      <2>2. CASE Present(peer[t].fd)
            BY <1>2, <2>1, <2>2, Types, EraseStep DEF PeerCleanup, NoEntry
      <2>3. CASE ~Present(peer[t].fd)
            BY <1>2, <2>3, TableUnchanged DEF PeerCleanup
      <2>4. QED
            BY <2>2, <2>3
<1>3. CASE UNCHANGED <<servers, groupIds>>
      BY <1>3, TableUnchanged
<1>4. QED
      BY <1>1, <1>2, <1>3
      DEF PeerNext, PeerBlock, PeerReceive, PeerReceiveFails, PeerClose, RemoteClose

LEMMA TableStep ==
    ASSUME TypeOK, ~SpawnMayFail, [Next]_vars PROVE Claims \/ Vacates
<1>1. CASE UNCHANGED vars
      BY <1>1, TableUnchanged DEF vars
<1>2. CASE HealthNext
      BY <1>2, DropStep DEF HealthNext, DropFailed, DropSilent
<1>3. QED
      BY <1>1, <1>2, MainStep, OutStep, PeerStepTable DEF Next

-----------------------------------------------------------------------------
(* The invariant.  UniqueGroups alone is not inductive: a handshake tests  *)
(* connectedGroupIds, not the table, so the table's groups must all be in  *)
(* that set; and a removal frees the group of the removed entry, which     *)
(* keeps the others registered because no other entry has that group.      *)

TableInv == TypeOK /\ UniqueGroups /\ GroupsRegistered

LEMMA TableInvInit == Init => TableInv
BY TypeInit DEF TableInv, Init, UniqueGroups, GroupsRegistered, NoEntry

LEMMA TableInvStep ==
    ASSUME TableInv, ~SpawnMayFail, [Next]_vars PROVE TableInv'
<1>1. TypeOK'
      BY TypeStep DEF TableInv
<1>2. ASSUME NEW f \in Fd, NEW g \in GroupId,
             g \notin groupIds,
             groupIds' = groupIds \cup {g},
             \A h \in Fd : servers'[h].gid = IF h = f THEN g ELSE servers[h].gid
      PROVE  UniqueGroups' /\ GroupsRegistered'
      BY <1>2 DEF TableInv, UniqueGroups, GroupsRegistered
<1>3. ASSUME NEW S \in SUBSET Fd, Empties(S)
      PROVE  UniqueGroups' /\ GroupsRegistered'
      <2>1. \A h \in Fd : servers'[h].gid = NoGroup \/ servers'[h].gid = servers[h].gid
            BY <1>3 DEF Empties
      <2>2. UniqueGroups'
            BY <2>1 DEF TableInv, UniqueGroups
      <2>3. ASSUME NEW h \in Fd, servers'[h].gid # NoGroup
            PROVE  servers'[h].gid \in groupIds'
            <3>1. h \notin S /\ servers'[h].gid = servers[h].gid
                  BY <1>3, <2>3 DEF Empties
            <3>2. servers[h].gid \in groupIds
                  BY <2>3, <3>1 DEF TableInv, GroupsRegistered
            <3>3. \A f \in S : servers[f].gid # servers[h].gid
                  BY <2>3, <3>1 DEF TableInv, UniqueGroups
            <3>4. QED
                  BY <1>3, <3>1, <3>2, <3>3 DEF Empties
      <2>4. QED
            BY <2>2, <2>3 DEF GroupsRegistered
<1>4. Claims \/ Vacates
      BY TableStep DEF TableInv
<1>5. QED
      BY <1>1, <1>2, <1>3, <1>4 DEF TableInv, Claims, Vacates

LEMMA TableInvariant == ASSUME ~SpawnMayFail PROVE Spec => []TableInv
<1>1. TableInv /\ [Next]_vars => TableInv'
      BY TableInvStep
<1>2. QED
      BY <1>1, TableInvInit, PTL DEF Spec

(* No two entries of connectedServers ever carry the same group, whatever  *)
(* the interleaving of accepts, connects, renames, sweeps and clean-ups    *)
(* and however descriptors are reused, as long as threads can be created.  *)
THEOREM OneConnectionPerGroup == ASSUME ~SpawnMayFail PROVE Spec => []UniqueGroups
<1>1. TableInv => UniqueGroups
      BY DEF TableInv
<1>2. QED
      BY <1>1, TableInvariant, PTL

(* Every group in the table is in connectedGroupIds, so that the duplicate *)
(* tests of both handshakes see it.                                        *)
THEOREM DuplicatesSeen == ASSUME ~SpawnMayFail PROVE Spec => []GroupsRegistered
<1>1. TableInv => GroupsRegistered
      BY DEF TableInv
<1>2. QED
      BY <1>1, TableInvariant, PTL

(* A group id is freed only together with the table entry that holds it.   *)
THEOREM GroupFreedWithItsEntry == ASSUME ~SpawnMayFail PROVE Spec => FreedWithConnection
<1> DEFINE Frees == \A g \in Group : g \in groupIds /\ g \notin groupIds'
                       => \E f \in Fd : servers[f].gid = g /\ ~Present(f)'
<1>1. ASSUME TypeOK, [Next]_vars PROVE Frees
      <2>1. CASE Claims
            BY <2>1 DEF Claims
      <2>2. ASSUME NEW S \in SUBSET Fd, Empties(S) PROVE Frees
            BY <2>2 DEF Empties, Present
      <2>3. QED
            BY <1>1, <2>1, <2>2, TableStep DEF Vacates
<1>2. TypeOK /\ [Next]_vars => [Frees]_vars
      BY <1>1
<1>3. QED
      BY <1>2, TypeCorrect, PTL DEF Spec, FreedWithConnection

(* A step that changes one entry, and registers at most the group id it    *)
(* puts there, leaves behind only the id that this entry had.              *)
LEMMA LeftByOneEntry ==
    ASSUME NEW f \in Fd, NEW g \in Group,
           \A h \in Fd \ {f} : servers'[h] = servers[h],
           groupIds' \subseteq groupIds \cup {servers'[f].gid},
           LeftBehind(g)', ~LeftBehind(g)
    PROVE  servers[f].gid = g
BY DEF LeftBehind

(* Whatever the order of handshakes, renames, drops and clean-ups: a group *)
(* id loses its connection and stays registered only by a rename or by a   *)
(* handshake at work on the same descriptor.  No assumption is needed on   *)
(* threads that cannot be started.                                         *)
THEOREM OnlyRenamesLeaveBehind == Spec => LeftByRenameOrMixUp
<1> DEFINE Excused(g) ==
              \E f \in Fd : /\ servers[f].gid = g
                            /\ \/ servers'[f].conn = servers[f].conn
                               \/ \E w \in Worker : worker[w].fd = f /\ worker'[w] # worker[w]
<1>1. ASSUME TypeOK, Next, NEW g \in Group, LeftBehind(g)', ~LeftBehind(g)
      PROVE  Excused(g)
      <2>1. ASSUME NEW f \in Fd, NEW h \in GroupId, HandleHelo(f, h) PROVE Excused(g)
            <3>1. /\ servers' = [servers EXCEPT ![f].gid = h]
                  /\ groupIds' = groupIds \cup {h}
                  BY <1>1, <2>1 DEF HandleHelo, LeftBehind
            <3>2. servers'[f].gid = h /\ servers'[f].conn = servers[f].conn
                  BY <1>1, <3>1 DEF TypeOK, Entry
            <3>3. servers[f].gid = g
                  BY <1>1, <3>1, <3>2, LeftByOneEntry DEF TypeOK
            <3>4. QED
                  BY <3>2, <3>3
      <2>2. ASSUME NEW w \in Worker, worker[w].fd \in Fd, worker'[w] # worker[w],
                   \A h \in Fd \ {worker[w].fd} : servers'[h] = servers[h],
                   groupIds' \subseteq groupIds \cup {servers'[worker[w].fd].gid}
            PROVE  Excused(g)
            <3>1. servers[worker[w].fd].gid = g
                  BY <1>1, <2>2, LeftByOneEntry
            <3>2. QED
                  BY <2>2, <3>1
      <2>3. ASSUME NEW S \in SUBSET Fd, Drop(S) PROVE FALSE
            BY <1>1, <2>3 DEF Drop, LeftBehind, TypeOK
      <2>4. ASSUME UNCHANGED <<servers, groupIds>> PROVE FALSE
            BY <1>1, <2>4 DEF LeftBehind
      <2>5. CASE MainNext
            <3>1. CASE MainInsert \/ MainRejectErase
                  <4>1. worker["main"].fd \in Fd /\ "main" \in Worker
                        BY <1>1, <3>1 DEF MainInsert, MainRejectErase, TypeOK, ThreadShape, Worker
                  <4>2. /\ \A h \in Fd \ {worker["main"].fd} : servers'[h] = servers[h]
                        /\ groupIds' = groupIds
                        BY <1>1, <3>1, <4>1 DEF MainInsert, MainRejectErase, TypeOK
                  <4>3. worker["main"].pc \in {"insert", "erase"} /\ worker'["main"].pc \in {"helo", "idle"}
                        BY <1>1, <3>1, <4>1 DEF MainInsert, MainRejectErase, TypeOK, WorkerState, IdleWorker
                  <4>4. worker'["main"] # worker["main"]
                        BY <4>3
                  <4>5. QED
                        BY <2>2, <4>1, <4>2, <4>4
            <3>2. CASE MainHelo
                  <4>1. worker["main"].fd \in Fd /\ worker["main"].gid \in GroupId
                        BY <1>1, <3>2 DEF MainHelo, TypeOK, ThreadShape, Worker, WorkerState
                  <4>2. QED
                        BY <2>1, <2>4, <3>2, <4>1 DEF MainHelo
            <3>3. CASE ~MainInsert /\ ~MainRejectErase /\ ~MainHelo
                  <4>1. UNCHANGED <<servers, groupIds>>
                        BY <2>5, <3>3 DEF MainNext, StartServing, Accept, FirstIsHelo,
                           FirstIsClient, MainReceiveFails, MainCheck, MainSpawn,
                           MainSpawnFails, MainRejectClose
                  <4>2. QED
                        BY <2>4, <4>1
            <3>4. QED
                  BY <3>1, <3>2, <3>3
      <2>6. ASSUME NEW w \in Worker, OutNext(w) PROVE Excused(g)
            <3>1. CASE OutRegister(w) \/ OutSpawnFails(w)
                  <4>1. worker[w].fd \in Fd
                        BY <1>1, <3>1 DEF OutRegister, OutSpawnFails, TypeOK, ThreadShape
                  <4>2. CASE UNCHANGED <<servers, groupIds>>
                        BY <2>4, <4>2
                  <4>3. CASE ~UNCHANGED <<servers, groupIds>>
                        <5>1. \A h \in Fd \ {worker[w].fd} : servers'[h] = servers[h]
                              BY <1>1, <3>1, <4>1, <4>3 DEF OutRegister, OutSpawnFails, TypeOK
                        <5>2. groupIds' \subseteq groupIds \cup {servers'[worker[w].fd].gid}
                              BY <1>1, <3>1, <4>1, <4>3 DEF OutRegister, OutSpawnFails, TypeOK
                        <5>3. \/ worker[w].pc = "register" /\ worker'[w].pc = "outSpawn"
                              \/ worker[w].pc = "outSpawn" /\ worker'[w].pc = "outClose"
                              BY <1>1, <3>1, <4>3 DEF OutRegister, OutSpawnFails, TypeOK, WorkerState, Moves
                        <5>4. QED
                              BY <2>2, <4>1, <5>1, <5>2, <5>3
                  <4>4. QED
                        BY <4>2, <4>3
            <3>2. CASE ~OutRegister(w) /\ ~OutSpawnFails(w)
                  <4>1. UNCHANGED <<servers, groupIds>>
                        BY <2>6, <3>2 DEF OutNext, OutConnect, OutFails, OutHelo, OutServers,
                           OutSpawn, OutClose
                  <4>2. QED
                        BY <2>4, <4>1
            <3>3. QED
                  BY <3>1, <3>2
      <2>7. ASSUME NEW t \in Conn, PeerNext(t) PROVE Excused(g)
            <3>1. CASE PeerHandle(t)
                  <4>1. peer[t].fd \in Fd /\ peer[t].gid \in GroupId
                        BY <1>1, <3>1 DEF PeerHandle, TypeOK, ThreadShape, PeerState
                  <4>2. QED
                        BY <2>1, <2>4, <3>1, <4>1 DEF PeerHandle
            <3>2. CASE PeerCleanup(t)
                  <4>1. peer[t].fd \in Fd
                        BY <1>1, <3>2 DEF PeerCleanup, TypeOK, ThreadShape
                  <4>2. Present(peer[t].fd)
                        BY <2>4, <3>2 DEF PeerCleanup
                  <4>3. /\ groupIds' = groupIds \ {servers[peer[t].fd].gid}
                        /\ \A h \in Fd \ {peer[t].fd} : servers'[h] = servers[h]
                        BY <1>1, <3>2, <4>1, <4>2 DEF PeerCleanup, TypeOK
                  <4>4. servers[peer[t].fd].gid = g
                        BY <1>1, <4>1, <4>3, LeftByOneEntry
                  <4>5. QED
                        BY <1>1, <4>3, <4>4 DEF LeftBehind
            <3>3. CASE ~PeerHandle(t) /\ ~PeerCleanup(t)
                  <4>1. UNCHANGED <<servers, groupIds>>
                        BY <2>7, <3>3 DEF PeerNext, PeerBlock, PeerReceive, PeerReceiveFails, PeerClose
                  <4>2. QED
                        BY <2>4, <4>1
            <3>4. QED
                  BY <3>1, <3>2, <3>3
      <2>8. ASSUME NEW t \in Conn, RemoteClose(t) PROVE FALSE
            BY <2>4, <2>8 DEF RemoteClose
      <2>9. CASE HealthNext
            BY <2>3, <2>9 DEF HealthNext, DropFailed, DropSilent
      <2>10. QED
            BY <1>1, <2>5, <2>6, <2>7, <2>8, <2>9 DEF Next
<1>2. TypeOK /\ [Next]_vars
         => [\A g \in Group : LeftBehind(g)' /\ ~LeftBehind(g) => Excused(g)]_vars
      BY <1>1
<1>3. QED
      BY <1>2, TypeCorrect, PTL DEF Spec, LeftByRenameOrMixUp

(* The table implements the registry: every step of every thread claims a  *)
(* free group for a slot, releases slots, or is a stutter.                 *)
THEOREM TableIsRegistry == ASSUME ~SpawnMayFail PROVE Spec => Refinement
<1> DEFINE member == [f \in Fd |-> servers[f].gid]
<1>1. Init => Registry!Init
      BY DEF Init, Registry!Init, NoEntry
<1>2. ASSUME TableInv, [Next]_vars PROVE Registry!Next
      <2>1. ASSUME NEW f \in Fd, NEW g \in GroupId,
                   g \notin groupIds,
                   \A h \in Fd : servers'[h].gid = IF h = f THEN g ELSE servers[h].gid
            PROVE  Registry!Next
            <3>1. CASE g = NoGroup
                  <4>1. Registry!Release({f})
                        BY <2>1, <3>1 DEF Registry!Release
                  <4>2. QED
                        BY <4>1 DEF Registry!Next
            <3>2. CASE g # NoGroup
                  <4>1. g \in Group
                        BY <3>2 DEF GroupId
                  <4>2. \A h \in Fd : servers[h].gid # g
                        BY <1>2, <2>1, <3>2 DEF TableInv, GroupsRegistered
                  <4>3. Registry!Admit(f, g)
                        BY <2>1, <4>2 DEF Registry!Admit
                  <4>4. QED
                        BY <4>1, <4>3 DEF Registry!Next
            <3>3. QED
                  BY <3>1, <3>2
      <2>2. ASSUME NEW S \in SUBSET Fd, Empties(S) PROVE Registry!Next
            <3>1. Registry!Release(S)
                  BY <2>2 DEF Empties, Registry!Release
            <3>2. QED
                  BY <3>1 DEF Registry!Next
      <2>3. Claims \/ Vacates
            BY <1>2, TableStep DEF TableInv
      <2>4. QED
            BY <2>1, <2>2, <2>3 DEF Claims, Vacates
<1>3. TableInv /\ [Next]_vars => [Registry!Next]_member
      BY <1>2
<1>4. QED
      BY <1>1, <1>3, TableInvariant, PTL DEF Spec, Refinement, Registry!Spec

-----------------------------------------------------------------------------
(* Who holds a descriptor.  The steps, by what they do to the descriptors  *)
(* and to the threads that know them.                                      *)

Works(w) == worker[w].pc # "idle"
Lives(t) == peer[t].pc \notin {"none", "done"}

SameFresh == \A c \in Conn : remote'[c] = "fresh" <=> remote[c] = "fresh"

SameFiles == \A f \in Fd : file'[f] = file[f]

OthersWork(w) == \A v \in Worker \ {w} : worker'[v] = worker[v]

SamePeers == \A t \in Conn : peer'[t] = peer[t]

(* A descriptor is opened for a thread that had none. *)
Opens(w) ==
    /\ ~Works(w)
    /\ Open(worker'[w].fd, worker'[w].conn)
    /\ worker'[w].pc \notin {"idle", "erase"}
    /\ OthersWork(w) /\ SamePeers

(* A worker goes on with its connection. *)
GoesOn(w) ==
    /\ Works(w)
    /\ worker'[w].pc \notin {"idle", "erase"}
    /\ worker'[w].fd = worker[w].fd /\ worker'[w].conn = worker[w].conn
    /\ OthersWork(w) /\ SameFiles /\ SameFresh /\ SamePeers

(* It closes its descriptor; what remains to be done, if anything, is to   *)
(* erase the entry. *)
Closes(w) ==
    /\ Works(w)
    /\ \/ worker'[w].pc = "idle"
       \/ /\ worker'[w].pc = "erase"
          /\ worker'[w].fd = worker[w].fd /\ worker'[w].conn = worker[w].conn
    /\ \A f \in Fd : file'[f] = IF f = worker[w].fd THEN None ELSE file[f]
    /\ OthersWork(w) /\ SameFresh /\ SamePeers

Erases(w) ==
    /\ worker[w].pc = "erase"
    /\ worker'[w].pc = "idle"
    /\ OthersWork(w) /\ SameFiles /\ SameFresh /\ SamePeers

(* It hands its descriptor to a new thread. *)
HandsOver(w) ==
    /\ Works(w)
    /\ worker'[w].pc = "idle"
    /\ peer'[worker[w].conn].pc \notin {"none", "done"}
    /\ peer'[worker[w].conn].fd = worker[w].fd
    /\ \A t \in Conn \ {worker[w].conn} : peer'[t] = peer[t]
    /\ OthersWork(w) /\ SameFiles /\ SameFresh

(* A peer thread goes on with its descriptor, or closes it and ends. *)
PeerGoesOn(t) ==
    /\ Lives(t)
    /\ peer'[t].pc \notin {"none", "done"}
    /\ peer'[t].fd = peer[t].fd
    /\ \A s \in Conn \ {t} : peer'[s] = peer[s]
    /\ \A w \in Worker : worker'[w] = worker[w]
    /\ SameFiles /\ SameFresh

PeerEnds(t) ==
    /\ Lives(t)
    /\ peer'[t].pc = "done"
    /\ \A s \in Conn \ {t} : peer'[s] = peer[s]
    /\ \A f \in Fd : file'[f] = IF f = peer[t].fd THEN None ELSE file[f]
    /\ \A w \in Worker : worker'[w] = worker[w]
    /\ SameFresh

(* Descriptors are closed, perhaps none, and no thread moves. *)
Sweeps ==
    /\ \A f \in Fd : file'[f] \in {None, file[f]}
    /\ \A w \in Worker : worker'[w] = worker[w]
    /\ SamePeers /\ SameFresh

LEMMA ForgetFresh == ASSUME TypeOK, Forget PROVE SameFresh
BY DEF Forget, TypeOK, SameFresh

LEMMA MainHolds ==
    ASSUME TypeOK, MainNext
    PROVE  \/ Opens("main") \/ GoesOn("main") \/ Closes("main")
           \/ Erases("main") \/ HandsOver("main") \/ Sweeps
<1> DEFINE m == worker["main"]
<1>0. /\ "main" \in Worker /\ worker["main"] \in WorkerState
      /\ worker \in [Worker -> WorkerState] /\ file \in [Fd -> Conn \cup {None}]
      /\ peer \in [Conn -> PeerState]
      /\ m.pc # "idle" => m.fd \in Fd /\ m.conn \in Conn
      BY DEF TypeOK, ThreadShape, Worker
<1> USE DEF WorkerState
<1>1. CASE StartServing
      BY <1>0, <1>1 DEF StartServing, Sweeps, SamePeers, SameFresh
<1>2. ASSUME NEW f \in Fd, NEW c \in Conn, Accept(f, c) PROVE Opens("main")
      <2>1. worker'["main"].pc = "first" /\ worker'["main"].fd = f /\ worker'["main"].conn = c
            BY <1>0, <1>2 DEF Accept, IdleWorker
      <2>2. Open(f, c) /\ worker["main"].pc = "idle" /\ SamePeers /\ OthersWork("main")
            BY <1>0, <1>2 DEF Accept, SamePeers, OthersWork
      <2>3. QED
            BY <2>1, <2>2 DEF Opens, Works
<1>3. ASSUME NEW g \in GroupId, FirstIsHelo(g) PROVE GoesOn("main")
      BY <1>0, <1>3 DEF FirstIsHelo, Moves, GoesOn, Works, OthersWork, SameFiles, SameFresh, SamePeers
<1>4. CASE MainInsert \/ FirstIsClient \/ MainHelo \/ MainSpawnFails
      BY <1>0, <1>4 DEF MainInsert, FirstIsClient, MainHelo, MainSpawnFails,
         GoesOn, Works, OthersWork, SameFiles, SameFresh, SamePeers
<1>5. CASE MainCheck
      BY <1>0, <1>5 DEF MainCheck, GoesOn, Works, OthersWork, SameFiles, SameFresh, SamePeers
<1>6. CASE MainReceiveFails
      <2>1. SameFresh
            BY <1>6, ForgetFresh DEF MainReceiveFails
      <2>2. QED
            BY <1>0, <1>6, <2>1
            DEF MainReceiveFails, Close, Closes, Works, OthersWork, SamePeers, IdleWorker
<1>7. CASE MainRejectClose
      <2>1. SameFresh
            BY <1>7, ForgetFresh DEF MainRejectClose
      <2>2. QED
            BY <1>0, <1>7, <2>1 DEF MainRejectClose, Close, Closes, Works, OthersWork, SamePeers
<1>8. CASE MainSpawn
      BY <1>0, <1>8 DEF MainSpawn, StartPeer, NoPeer, HandsOver, Works, OthersWork,
         SameFiles, SameFresh, IdleWorker
<1>9. CASE MainRejectErase
      BY <1>0, <1>9 DEF MainRejectErase, Erases, OthersWork, SameFiles, SameFresh,
         SamePeers, IdleWorker
<1>10. QED
       BY <1>1, <1>2, <1>3, <1>4, <1>5, <1>6, <1>7, <1>8, <1>9 DEF MainNext

LEMMA OutHolds ==
    ASSUME TypeOK, NEW w \in Worker, OutNext(w)
    PROVE  Opens(w) \/ GoesOn(w) \/ Closes(w) \/ HandsOver(w)
<1>0. /\ worker[w] \in WorkerState
      /\ worker \in [Worker -> WorkerState] /\ file \in [Fd -> Conn \cup {None}]
      /\ peer \in [Conn -> PeerState]
      /\ worker[w].pc # "idle" => worker[w].fd \in Fd /\ worker[w].conn \in Conn
      BY DEF TypeOK, ThreadShape
<1> USE DEF WorkerState
<1>1. ASSUME NEW a \in Addr, NEW f \in Fd, NEW c \in Conn, OutConnect(w, a, f, c)
      PROVE  Opens(w)
      <2>1. worker'[w].pc = "hello" /\ worker'[w].fd = f /\ worker'[w].conn = c
            BY <1>0, <1>1 DEF OutConnect
      <2>2. Open(f, c) /\ worker[w].pc = "idle" /\ SamePeers /\ OthersWork(w)
            BY <1>0, <1>1 DEF OutConnect, MayConnect, SamePeers, OthersWork
      <2>3. QED
            BY <2>1, <2>2 DEF Opens, Works
<1>2. CASE OutFails(w)
      BY <1>0, <1>2 DEF OutFails, Moves, GoesOn, Works, OthersWork, SameFiles, SameFresh, SamePeers
<1>3. ASSUME NEW g \in Group, OutHelo(w, g) PROVE GoesOn(w)
      BY <1>0, <1>3 DEF OutHelo, Moves, GoesOn, Works, OthersWork, SameFiles, SameFresh, SamePeers
<1>4. ASSUME NEW g \in GroupId, OutServers(w, g) PROVE GoesOn(w)
      BY <1>0, <1>4 DEF OutServers, Moves, GoesOn, Works, OthersWork, SameFiles, SameFresh, SamePeers
<1>5. CASE OutRegister(w)
      BY <1>0, <1>5 DEF OutRegister, Moves, GoesOn, Works, OthersWork, SameFiles, SameFresh, SamePeers
<1>6. CASE OutSpawn(w)
      BY <1>0, <1>6 DEF OutSpawn, StartPeer, NoPeer, HandsOver, Works, OthersWork,
         SameFiles, SameFresh, IdleWorker
<1>7. CASE OutSpawnFails(w)
      BY <1>0, <1>7 DEF OutSpawnFails, Moves, GoesOn, Works, OthersWork, SameFiles, SameFresh, SamePeers
<1>8. CASE OutClose(w)
      <2>1. SameFresh
            BY <1>8, ForgetFresh DEF OutClose
      <2>2. QED
            BY <1>0, <1>8, <2>1
            DEF OutClose, Close, Closes, Works, OthersWork, SamePeers, IdleWorker
<1>9. QED
      BY <1>1, <1>2, <1>3, <1>4, <1>5, <1>6, <1>7, <1>8 DEF OutNext

LEMMA PeerHolds ==
    ASSUME TypeOK, NEW t \in Conn, PeerNext(t) \/ RemoteClose(t)
    PROVE  PeerGoesOn(t) \/ PeerEnds(t) \/ Sweeps
<1>0. /\ peer \in [Conn -> PeerState] /\ file \in [Fd -> Conn \cup {None}]
      /\ remote \in [Conn -> {"fresh", "open", "shut"}]
      /\ peer[t].pc \notin {"none", "done"} => peer[t].fd \in Fd
      BY DEF TypeOK, ThreadShape
<1> USE DEF PeerState
<1>1. CASE PeerBlock(t) \/ PeerHandle(t) \/ PeerCleanup(t)
      BY <1>0, <1>1 DEF PeerBlock, PeerHandle, PeerCleanup, Goes, PeerGoesOn, Lives,
         SameFiles, SameFresh
<1>2. ASSUME NEW g \in GroupId, PeerReceive(t, g) PROVE PeerGoesOn(t)
      BY <1>0, <1>2 DEF PeerReceive, Goes, PeerGoesOn, Lives, SameFiles, SameFresh
<1>3. CASE PeerReceiveFails(t)
      <2>1. SameFresh
            BY <1>3, ForgetFresh DEF PeerReceiveFails
      <2>2. QED
            BY <1>0, <1>3, <2>1 DEF PeerReceiveFails, Goes, PeerGoesOn, Lives, SameFiles
<1>4. CASE PeerClose(t)
      <2>1. SameFresh
            BY <1>4, ForgetFresh DEF PeerClose
      <2>2. QED
            BY <1>0, <1>4, <2>1 DEF PeerClose, Close, PeerEnds, Lives, DonePeer, NoPeer
<1>5. CASE RemoteClose(t)
      BY <1>0, <1>5 DEF RemoteClose, Sweeps, SamePeers, SameFresh
<1>6. QED
      BY <1>1, <1>2, <1>3, <1>4, <1>5 DEF PeerNext

LEMMA SweepHolds ==
    ASSUME TypeOK, HealthNext \/ UNCHANGED vars PROVE Sweeps
<1>1. CASE UNCHANGED vars
      BY <1>1 DEF vars, Sweeps, SamePeers, SameFresh
<1>2. ASSUME NEW S \in SUBSET Fd, Drop(S) PROVE Sweeps
      <2>1. SameFresh
            BY <1>2, ForgetFresh DEF Drop
      <2>2. QED
            BY <1>2, <2>1 DEF Drop, Sweeps, SamePeers
<1>3. QED
      BY <1>1, <1>2 DEF HealthNext, DropFailed, DropSilent

(* The invariant.  DescriptorsHeld alone is not inductive: a worker that   *)
(* starts a peer thread must not overwrite one that runs, and a fresh      *)
(* connection must not be one that a thread holds already.  So a worker's  *)
(* connection has no thread yet, two workers are never busy with the same  *)
(* connection, and what a thread or a descriptor names is no longer fresh. *)

WorkersOwn == \A w \in Worker : Works(w) => /\ remote[worker[w].conn] # "fresh"
                                            /\ peer[worker[w].conn].pc = "none"

WorkersApart == \A v, w \in Worker :
                  Works(v) /\ Works(w) /\ worker[v].conn = worker[w].conn => v = w

NoneFresh == /\ \A t \in Conn : peer[t].pc # "none" => remote[t] # "fresh"
             /\ \A f \in Fd : file[f] # None => remote[file[f]] # "fresh"

Held(f) ==
    \/ \E w \in Worker : /\ worker[w].pc \notin {"idle", "erase"}
                         /\ worker[w].fd = f /\ worker[w].conn = file[f]
    \/ peer[file[f]].pc \notin {"none", "done"} /\ peer[file[f]].fd = f

HeldInv == TypeOK /\ WorkersOwn /\ WorkersApart /\ NoneFresh /\ DescriptorsHeld

LEMMA HeldTypes ==
    ASSUME TypeOK
    PROVE  /\ \A w \in Worker : Works(w) => worker[w].fd \in Fd /\ worker[w].conn \in Conn
           /\ \A f \in Fd : file[f] \in Conn \cup {None}
           /\ \A t \in Conn : Lives(t) => peer[t].fd \in Fd
BY DEF TypeOK, ThreadShape, Works, Lives

LEMMA HeldInit == Init => HeldInv
<1> SUFFICES ASSUME Init PROVE HeldInv
    OBVIOUS
<1>1. /\ \A w \in Worker : worker[w].pc = "idle"
      /\ \A t \in Conn : peer[t].pc = "none"
      /\ \A f \in Fd : file[f] = None
      BY DEF Init, IdleWorker, NoPeer
<1>2. QED
      BY <1>1, TypeInit DEF HeldInv, WorkersOwn, WorkersApart, NoneFresh, DescriptorsHeld, Works

LEMMA OpensKeeps ==
    ASSUME HeldInv, TypeOK', NEW w \in Worker, Opens(w) PROVE HeldInv'
<1> DEFINE g == worker'[w].fd
           c == worker'[w].conn
<1>1. g \in Fd /\ c \in Conn
      BY DEF Opens, TypeOK, ThreadShape
<1>2. /\ file[g] = None /\ remote[c] = "fresh"
      /\ \A f \in Fd : file'[f] = IF f = g THEN c ELSE file[f]
      /\ \A d \in Conn : remote'[d] = IF d = c THEN "open" ELSE remote[d]
      BY <1>1 DEF Opens, Open, LowestFree, HeldInv, TypeOK
<1>3. \A f \in Fd : file[f] \in Conn \cup {None}
      BY HeldTypes DEF HeldInv
<1>4. \A v \in Worker : Works(v) => v # w /\ worker[v].conn \in Conn /\ worker[v].conn # c
      BY <1>2, HeldTypes DEF HeldInv, WorkersOwn, Opens
<1>5. peer[c].pc = "none" /\ \A t \in Conn : peer'[t] = peer[t]
      BY <1>1, <1>2 DEF HeldInv, NoneFresh, Opens, SamePeers
<1>6. \A v \in Worker \ {w} : worker'[v] = worker[v]
      BY DEF Opens, OthersWork
<1> HIDE DEF g, c
<1>7. WorkersOwn'
      <2>1. ASSUME NEW v \in Worker, worker'[v].pc # "idle"
            PROVE  remote'[worker'[v].conn] # "fresh" /\ peer'[worker'[v].conn].pc = "none"
            <3>1. CASE v = w
                  BY <1>1, <1>2, <1>5, <3>1 DEF c
            <3>2. CASE v # w
                  <4>1. Works(v) /\ worker'[v] = worker[v]
                        BY <1>6, <2>1, <3>2 DEF Works
                  <4>2. QED
                        BY <1>2, <1>4, <1>5, <4>1 DEF HeldInv, WorkersOwn
            <3>3. QED
                  BY <3>1, <3>2
      <2>2. QED
            BY <2>1 DEF WorkersOwn, Works
<1>8. WorkersApart'
      <2>1. ASSUME NEW v \in Worker, NEW u \in Worker, worker'[v].pc # "idle",
                   worker'[u].pc # "idle", worker'[v].conn = worker'[u].conn
            PROVE  v = u
            BY <1>4, <1>6, <2>1 DEF HeldInv, WorkersApart, Works, c
      <2>2. QED
            BY <2>1 DEF WorkersApart, Works
<1>9. NoneFresh'
      BY <1>1, <1>2, <1>3, <1>5 DEF HeldInv, NoneFresh
<1>10. DescriptorsHeld'
      <2>1. ASSUME NEW f \in Fd, file'[f] # None PROVE Held(f)'
            <3>1. CASE f = g
                  BY <1>1, <1>2, <3>1 DEF Held, Opens, g, c
            <3>2. CASE f # g
                  <4>1. file'[f] = file[f] /\ file[f] \in Conn
                        BY <1>2, <1>3, <2>1, <3>2
                  <4>2. Held(f)
                        BY <2>1, <4>1 DEF HeldInv, DescriptorsHeld, Held
                  <4>3. QED
                        BY <1>4, <1>5, <1>6, <4>1, <4>2 DEF Held, Works
            <3>3. QED
                  BY <3>1, <3>2
      <2>2. QED
            BY <2>1 DEF DescriptorsHeld, Held
<1>11. QED
      BY <1>7, <1>8, <1>9, <1>10 DEF HeldInv

(* Steps of a worker that keep its connection, or leave it, and start no   *)
(* thread. *)
LEMMA WorkerKeeps ==
    ASSUME HeldInv, TypeOK', NEW w \in Worker, OthersWork(w), SameFresh, SamePeers,
           Works(w),
           worker'[w].pc # "idle" => worker'[w].conn = worker[w].conn,
           \A f \in Fd : file'[f] \in {None, file[f]}
    PROVE  WorkersOwn' /\ WorkersApart' /\ NoneFresh'
<1>1. /\ \A v \in Worker : Works(v)' => Works(v) /\ worker'[v].conn = worker[v].conn
      /\ \A v \in Worker : Works(v) => worker[v].conn \in Conn
      BY HeldTypes DEF HeldInv, OthersWork, Works
<1>2. /\ \A t \in Conn : peer'[t] = peer[t]
      /\ \A c \in Conn : remote'[c] = "fresh" <=> remote[c] = "fresh"
      /\ \A f \in Fd : file[f] \in Conn \cup {None}
      BY HeldTypes DEF HeldInv, SamePeers, SameFresh
<1>3. WorkersOwn'
      BY <1>1, <1>2 DEF HeldInv, WorkersOwn
<1>4. WorkersApart'
      BY <1>1 DEF HeldInv, WorkersApart
<1>5. NoneFresh'
      BY <1>2 DEF HeldInv, NoneFresh
<1>6. QED
      BY <1>3, <1>4, <1>5

LEMMA GoesOnKeeps ==
    ASSUME HeldInv, TypeOK', NEW w \in Worker, GoesOn(w) PROVE HeldInv'
<1>1. WorkersOwn' /\ WorkersApart' /\ NoneFresh'
      BY WorkerKeeps DEF GoesOn, SameFiles
<1>2. ASSUME NEW f \in Fd, file'[f] # None PROVE Held(f)'
      <2>1. file'[f] = file[f] /\ file[f] \in Conn
            BY <1>2, HeldTypes DEF HeldInv, GoesOn, SameFiles
      <2>2. Held(f)
            BY <1>2, <2>1 DEF HeldInv, DescriptorsHeld, Held
      <2>3. CASE Lives(file[f]) /\ peer[file[f]].fd = f
            BY <2>1, <2>3 DEF Held, Lives, GoesOn, SamePeers
      <2>4. ASSUME NEW v \in Worker, worker[v].pc \notin {"idle", "erase"},
                   worker[v].fd = f, worker[v].conn = file[f]
            PROVE  Held(f)'
            BY <2>1, <2>4 DEF Held, GoesOn, OthersWork
      <2>5. QED
            BY <2>2, <2>3, <2>4 DEF Held, Lives
<1>3. QED
      BY <1>1, <1>2 DEF HeldInv, DescriptorsHeld, Held

LEMMA ClosesKeeps ==
    ASSUME HeldInv, TypeOK', NEW w \in Worker, Closes(w) PROVE HeldInv'
<1>1. WorkersOwn' /\ WorkersApart' /\ NoneFresh'
      BY WorkerKeeps DEF Closes
<1>2. ASSUME NEW f \in Fd, file'[f] # None PROVE Held(f)'
      <2>1. f # worker[w].fd /\ file'[f] = file[f] /\ file[f] \in Conn
            BY <1>2, HeldTypes DEF HeldInv, Closes
      <2>2. Held(f)
            BY <1>2, <2>1 DEF HeldInv, DescriptorsHeld, Held
      <2>3. CASE Lives(file[f]) /\ peer[file[f]].fd = f
            BY <2>1, <2>3 DEF Held, Lives, Closes, SamePeers
      <2>4. ASSUME NEW v \in Worker, worker[v].pc \notin {"idle", "erase"},
                   worker[v].fd = f, worker[v].conn = file[f]
            PROVE  Held(f)'
            BY <2>1, <2>4 DEF Held, Closes, OthersWork
      <2>5. QED
            BY <2>2, <2>3, <2>4 DEF Held, Lives
<1>3. QED
      BY <1>1, <1>2 DEF HeldInv, DescriptorsHeld, Held

LEMMA ErasesKeeps ==
    ASSUME HeldInv, TypeOK', NEW w \in Worker, Erases(w) PROVE HeldInv'
<1>1. WorkersOwn' /\ WorkersApart' /\ NoneFresh'
      BY WorkerKeeps DEF Erases, SameFiles, Works
<1>2. ASSUME NEW f \in Fd, file'[f] # None PROVE Held(f)'
      <2>1. file'[f] = file[f] /\ file[f] \in Conn
            BY <1>2, HeldTypes DEF HeldInv, Erases, SameFiles
      <2>2. Held(f)
            BY <1>2, <2>1 DEF HeldInv, DescriptorsHeld, Held
      <2>3. CASE Lives(file[f]) /\ peer[file[f]].fd = f
            BY <2>1, <2>3 DEF Held, Lives, Erases, SamePeers
      <2>4. ASSUME NEW v \in Worker, worker[v].pc \notin {"idle", "erase"},
                   worker[v].fd = f, worker[v].conn = file[f]
            PROVE  Held(f)'
            BY <2>1, <2>4 DEF Held, Erases, OthersWork
      <2>5. QED
            BY <2>2, <2>3, <2>4 DEF Held, Lives
<1>3. QED
      BY <1>1, <1>2 DEF HeldInv, DescriptorsHeld, Held

(* The new thread takes over what its worker held, and, as the connection  *)
(* had no thread, no running thread is overwritten. *)
LEMMA HandsOverKeeps ==
    ASSUME HeldInv, TypeOK', NEW w \in Worker, HandsOver(w) PROVE HeldInv'
<1> DEFINE c == worker[w].conn
<1>1. c \in Conn /\ peer[c].pc = "none" /\ remote[c] # "fresh"
      BY HeldTypes DEF HeldInv, HandsOver, WorkersOwn
<1>2. /\ \A v \in Worker : Works(v)' => Works(v) /\ worker'[v] = worker[v]
                                        /\ worker[v].conn \in Conn /\ worker[v].conn # c
      /\ \A v \in Worker \ {w} : worker'[v] = worker[v]
      BY HeldTypes DEF HeldInv, HandsOver, OthersWork, WorkersApart, Works
<1>3. /\ \A t \in Conn \ {c} : peer'[t] = peer[t]
      /\ peer'[c].pc \notin {"none", "done"} /\ peer'[c].fd = worker[w].fd
      /\ \A d \in Conn : remote'[d] = "fresh" <=> remote[d] = "fresh"
      /\ \A f \in Fd : file'[f] = file[f] /\ file[f] \in Conn \cup {None}
      BY HeldTypes DEF HeldInv, HandsOver, SameFresh, SameFiles
<1> HIDE DEF c
<1>4. WorkersOwn'
      BY <1>2, <1>3 DEF HeldInv, WorkersOwn
<1>5. WorkersApart'
      BY <1>2 DEF HeldInv, WorkersApart
<1>6. NoneFresh'
      BY <1>1, <1>3 DEF HeldInv, NoneFresh
<1>7. ASSUME NEW f \in Fd, file'[f] # None PROVE Held(f)'
      <2>1. file'[f] = file[f] /\ file[f] \in Conn
            BY <1>3, <1>7
      <2>2. Held(f)
            BY <1>7, <2>1 DEF HeldInv, DescriptorsHeld, Held
      <2>3. CASE Lives(file[f]) /\ peer[file[f]].fd = f
            BY <1>1, <1>3, <2>1, <2>3 DEF Held, Lives
      <2>4. ASSUME NEW v \in Worker, worker[v].pc \notin {"idle", "erase"},
                   worker[v].fd = f, worker[v].conn = file[f]
            PROVE  Held(f)'
            <3>1. CASE v = w
                  BY <1>3, <2>1, <2>4, <3>1 DEF Held, c
            <3>2. CASE v # w
                  BY <1>2, <2>1, <2>4, <3>2 DEF Held
            <3>3. QED
                  BY <3>1, <3>2
      <2>5. QED
            BY <2>2, <2>3, <2>4 DEF Held, Lives
<1>8. QED
      BY <1>4, <1>5, <1>6, <1>7 DEF HeldInv, DescriptorsHeld, Held

(* Steps that move no worker, open nothing and start no thread: those of a *)
(* peer thread, and the monitor's sweeps. *)
LEMMA IdleKeeps ==
    ASSUME HeldInv, TypeOK', SameFresh,
           \A w \in Worker : worker'[w] = worker[w],
           \A f \in Fd : file'[f] \in {None, file[f]},
           \A t \in Conn : peer'[t].pc = "none" <=> peer[t].pc = "none",
           \A f \in Fd : file'[f] # None => peer'[file[f]] = peer[file[f]]
                           \/ Held(f)' \/ ~(Lives(file[f]) /\ peer[file[f]].fd = f)
    PROVE  HeldInv'
<1>1. /\ \A v \in Worker : Works(v)' => Works(v) /\ worker'[v] = worker[v]
                                        /\ worker[v].conn \in Conn
      /\ \A d \in Conn : remote'[d] = "fresh" <=> remote[d] = "fresh"
      /\ \A f \in Fd : file[f] \in Conn \cup {None}
      BY HeldTypes DEF HeldInv, Works, SameFresh
<1>2. WorkersOwn' /\ WorkersApart'
      BY <1>1 DEF HeldInv, WorkersOwn, WorkersApart
<1>3. NoneFresh'
      BY <1>1 DEF HeldInv, NoneFresh
<1>4. ASSUME NEW f \in Fd, file'[f] # None PROVE Held(f)'
      <2>1. file'[f] = file[f] /\ file[f] \in Conn
            BY <1>1, <1>4
      <2>2. Held(f)
            BY <1>4, <2>1 DEF HeldInv, DescriptorsHeld, Held
      <2>3. CASE Lives(file[f]) /\ peer[file[f]].fd = f
            BY <1>4, <2>1, <2>3 DEF Held, Lives
      <2>4. ASSUME NEW v \in Worker, worker[v].pc \notin {"idle", "erase"},
                   worker[v].fd = f, worker[v].conn = file[f]
            PROVE  Held(f)'
            BY <2>1, <2>4 DEF Held
      <2>5. QED
            BY <2>2, <2>3, <2>4 DEF Held, Lives
<1>5. QED
      BY <1>2, <1>3, <1>4 DEF HeldInv, DescriptorsHeld, Held

LEMMA PeerKeeps ==
    ASSUME HeldInv, TypeOK', NEW t \in Conn, PeerGoesOn(t) \/ PeerEnds(t) PROVE HeldInv'
<1>1. /\ SameFresh /\ \A w \in Worker : worker'[w] = worker[w]
      /\ \A f \in Fd : file'[f] \in {None, file[f]}
      /\ \A s \in Conn : peer'[s].pc = "none" <=> peer[s].pc = "none"
      BY DEF PeerGoesOn, PeerEnds, SameFiles, Lives
<1>2. ASSUME NEW f \in Fd, file'[f] # None, Lives(file[f]), peer[file[f]].fd = f
      PROVE  peer'[file[f]] = peer[file[f]] \/ Held(f)'
      <2>1. file'[f] = file[f] /\ file[f] \in Conn
            BY <1>1, <1>2, HeldTypes DEF HeldInv
      <2>2. CASE file[f] = t
            BY <1>2, <2>1, <2>2 DEF PeerGoesOn, PeerEnds, Held
      <2>3. CASE file[f] # t
            BY <2>1, <2>3 DEF PeerGoesOn, PeerEnds
      <2>4. QED
            BY <2>2, <2>3
<1>3. QED
      BY <1>1, <1>2, IdleKeeps

LEMMA SweepKeeps == ASSUME HeldInv, TypeOK', Sweeps PROVE HeldInv'
<1>1. \A f \in Fd : file[f] \in Conn \cup {None}
      BY HeldTypes DEF HeldInv
<1>2. ASSUME NEW f \in Fd, file'[f] # None PROVE peer'[file[f]] = peer[file[f]]
      BY <1>1, <1>2 DEF Sweeps, SamePeers
<1>3. /\ SameFresh /\ \A w \in Worker : worker'[w] = worker[w]
      /\ \A f \in Fd : file'[f] \in {None, file[f]}
      /\ \A s \in Conn : peer'[s].pc = "none" <=> peer[s].pc = "none"
      BY DEF Sweeps, SamePeers
<1>4. QED
      BY <1>2, <1>3, IdleKeeps

LEMMA HeldStep == HeldInv /\ [Next]_vars => HeldInv'
<1> SUFFICES ASSUME HeldInv, [Next]_vars PROVE HeldInv'
    OBVIOUS
<1>1. TypeOK /\ TypeOK' /\ "main" \in Worker
      BY TypeStep DEF HeldInv, Worker
<1>2. CASE MainNext
      BY <1>1, <1>2, MainHolds, OpensKeeps, GoesOnKeeps, ClosesKeeps, ErasesKeeps,
         HandsOverKeeps, SweepKeeps
<1>3. ASSUME NEW w \in Worker, OutNext(w) PROVE HeldInv'
      BY <1>1, <1>3, OutHolds, OpensKeeps, GoesOnKeeps, ClosesKeeps, HandsOverKeeps
<1>4. ASSUME NEW t \in Conn, PeerNext(t) \/ RemoteClose(t) PROVE HeldInv'
      BY <1>1, <1>4, PeerHolds, PeerKeeps, SweepKeeps
<1>5. CASE HealthNext \/ UNCHANGED vars
      BY <1>1, <1>5, SweepHolds, SweepKeeps
<1>6. QED
      BY <1>2, <1>3, <1>4, <1>5 DEF Next

(* No descriptor is lost: whatever the order of accepts, handshakes, failed *)
(* thread creations, sweeps and clean-ups, and however often a thread       *)
(* closes a number that another connection has got, an open descriptor is   *)
(* with the thread whose way out closes it.                                 *)
THEOREM NoDescriptorLost == Spec => []DescriptorsHeld
<1>1. HeldInv => DescriptorsHeld
      BY DEF HeldInv
<1>2. QED
      BY <1>1, HeldInit, HeldStep, PTL DEF Spec

-----------------------------------------------------------------------------
(* Who is to blame for a clean-up of somebody else's entry.  Without the   *)
(* health monitor's sweeps, which close descriptors under the threads that *)
(* use them, a descriptor has one user, and an entry is its user's or one  *)
(* that main is about to erase.                                            *)

Before == {"first", "client", "insert", "hello", "servers", "register", "outClose"}

OfConn(f)  == servers[f].conn
NewConn(f) == servers'[f].conn

Stale(f) == worker["main"].pc = "erase" /\ worker["main"].fd = f

WorkersUse == \A w \in Worker :
    /\ worker[w].pc \notin {"idle", "erase"} => file[worker[w].fd] = worker[w].conn
    /\ worker[w].pc \in Before   => OfConn(worker[w].fd) # worker[w].conn
    /\ worker[w].pc = "outSpawn" => OfConn(worker[w].fd) \in {worker[w].conn, None}

PeersUse == \A t \in Conn : Lives(t) =>
    /\ file[peer[t].fd] = t
    /\ OfConn(peer[t].fd) \in {t, None}
    /\ peer[t].pc = "close" => OfConn(peer[t].fd) = None

EntriesUsed == \A f \in Fd : OfConn(f) # None =>
    /\ OfConn(f) = file[f] \/ Stale(f)
    /\ remote[OfConn(f)] # "fresh"

UseInv == WorkersUse /\ PeersUse /\ EntriesUsed

(* The steps again, with what they do to the entries. *)
SameConns     == \A f \in Fd : NewConn(f) = OfConn(f)
OtherConns(g) == \A f \in Fd \ {g} : NewConn(f) = OfConn(f)

Starts(w) == Opens(w) /\ SameConns /\ worker'[w].pc \in Before

Proceeds(w) ==
    /\ GoesOn(w) /\ worker[w].pc # "erase" /\ OtherConns(worker[w].fd)
    /\ \/ /\ NewConn(worker[w].fd) = OfConn(worker[w].fd)
          /\ worker'[w].pc \in Before => worker[w].pc \in Before
          /\ worker'[w].pc # "outSpawn"
       \/ /\ NewConn(worker[w].fd) = worker[w].conn
          /\ worker'[w].pc \notin Before
       \/ NewConn(worker[w].fd) = None

Leaves(w) ==
    /\ Closes(w) /\ SameConns /\ worker[w].pc # "erase"
    /\ worker'[w].pc = "erase" => w = "main"
    /\ worker'[w].pc = "idle" => worker[w].pc \in Before

Forgets == /\ Erases("main") /\ OtherConns(worker["main"].fd)
           /\ NewConn(worker["main"].fd) = None

Starting(w) == /\ HandsOver(w) /\ SameConns
               /\ \/ worker[w].pc = "outSpawn"
                  \/ worker[w].pc = "spawn" /\ w = "main"
               /\ peer'[worker[w].conn].pc # "close"

PeerProceeds(t) ==
    /\ PeerGoesOn(t) /\ OtherConns(peer[t].fd)
    /\ \/ NewConn(peer[t].fd) = OfConn(peer[t].fd) /\ peer'[t].pc # "close"
       \/ NewConn(peer[t].fd) = None

PeerLeaves(t) == PeerEnds(t) /\ SameConns /\ peer[t].pc = "close"

Rests ==
    /\ \A w \in Worker : worker'[w] = worker[w]
    /\ SameFiles /\ SamePeers /\ SameFresh /\ SameConns

(* The HELO handler changes no entry's connection. *)
LEMMA HeloConns ==
    ASSUME TypeOK, NEW f \in Fd, NEW g \in GroupId,
           HandleHelo(f, g) \/ UNCHANGED <<servers, groupIds>>
    PROVE  SameConns
<1>1. CASE UNCHANGED <<servers, groupIds>>
      BY <1>1 DEF SameConns, OfConn, NewConn
<1>2. CASE servers' = [servers EXCEPT ![f].gid = g]
      BY <1>2 DEF SameConns, OfConn, NewConn, TypeOK, Entry
<1>3. QED
      BY <1>1, <1>2 DEF HandleHelo

LEMMA OneEntry ==
    ASSUME TypeOK, NEW f \in Fd, NEW e \in Entry, servers' = [servers EXCEPT ![f] = e]
    PROVE  OtherConns(f) /\ NewConn(f) = e.conn
BY DEF OtherConns, OfConn, NewConn, TypeOK

LEMMA MainUses ==
    ASSUME TypeOK, MainNext
    PROVE  \/ Starts("main") \/ Proceeds("main") \/ Leaves("main")
           \/ Forgets \/ Starting("main") \/ Rests
<1> DEFINE m == worker["main"]
<1>0. /\ "main" \in Worker /\ worker["main"] \in WorkerState
      /\ worker \in [Worker -> WorkerState] /\ file \in [Fd -> Conn \cup {None}]
      /\ peer \in [Conn -> PeerState]
      /\ m.pc # "idle" => m.fd \in Fd /\ m.conn \in Conn
      BY DEF TypeOK, ThreadShape, Worker
<1> USE DEF WorkerState
<1>a. ASSUME UNCHANGED servers PROVE SameConns /\ \A g \in Fd : OtherConns(g)
      BY <1>a DEF SameConns, OtherConns, OfConn, NewConn
<1>1. CASE StartServing
      BY <1>0, <1>1, <1>a DEF StartServing, Rests, SameFiles, SamePeers, SameFresh
<1>2. ASSUME NEW f \in Fd, NEW c \in Conn, Accept(f, c) PROVE Starts("main")
      <2>1. worker'["main"].pc = "first" /\ worker'["main"].fd = f /\ worker'["main"].conn = c
            BY <1>0, <1>2 DEF Accept, IdleWorker
      <2>2. Open(f, c) /\ worker["main"].pc = "idle" /\ SamePeers /\ OthersWork("main") /\ SameConns
            BY <1>0, <1>2, <1>a DEF Accept, SamePeers, OthersWork
      <2>3. QED
            BY <2>1, <2>2 DEF Starts, Opens, Works, Before
<1>3. CASE FirstIsClient \/ MainSpawnFails \/ \E g \in GroupId : FirstIsHelo(g)
      <2>1. /\ \/ m.pc \in Before /\ worker'["main"].pc \in {"insert", "client"}
               \/ m.pc = "spawn" /\ worker'["main"].pc = "reject"
            /\ worker'["main"].fd = m.fd /\ worker'["main"].conn = m.conn
            BY <1>0, <1>3 DEF FirstIsClient, MainSpawnFails, FirstIsHelo, Moves, Before
      <2>2. OthersWork("main") /\ SameFiles /\ SameFresh /\ SamePeers /\ UNCHANGED servers
            BY <1>0, <1>3 DEF FirstIsClient, MainSpawnFails, FirstIsHelo, Moves,
               OthersWork, SameFiles, SameFresh, SamePeers
      <2>3. GoesOn("main") /\ m.pc # "erase" /\ m.fd \in Fd
            BY <1>0, <2>1, <2>2 DEF GoesOn, Works, Before
      <2>4. QED
            BY <1>a, <2>1, <2>2, <2>3 DEF Proceeds, SameConns, Before
<1>4. CASE MainInsert
      <2>1. m.pc = "insert" /\ worker'["main"].pc = "helo" /\ m.fd \in Fd /\ m.conn \in Conn
            /\ worker'["main"].fd = m.fd /\ worker'["main"].conn = m.conn
            BY <1>0, <1>4 DEF MainInsert
      <2>2. OthersWork("main") /\ SameFiles /\ SameFresh /\ SamePeers
            BY <1>0, <1>4 DEF MainInsert, OthersWork, SameFiles, SameFresh, SamePeers
      <2>3. /\ [NoEntry EXCEPT !.conn = m.conn] \in Entry
            /\ [NoEntry EXCEPT !.conn = m.conn].conn = m.conn
            BY <2>1 DEF NoEntry, Entry, GroupId
      <2>4. OtherConns(m.fd) /\ NewConn(m.fd) = m.conn
            BY <1>4, <2>1, <2>3, OneEntry DEF MainInsert
      <2>5. QED
            BY <2>1, <2>2, <2>4 DEF Proceeds, GoesOn, Works, Before
<1>5. CASE MainHelo \/ MainCheck
      <2>1. /\ m.pc \in {"helo", "check"} /\ worker'["main"].pc \in {"check", "spawn", "reject"}
            /\ worker'["main"].fd = m.fd /\ worker'["main"].conn = m.conn
            /\ m.fd \in Fd /\ m.gid \in GroupId
            BY <1>0, <1>5 DEF MainHelo, MainCheck
      <2>2. OthersWork("main") /\ SameFiles /\ SameFresh /\ SamePeers
            BY <1>0, <1>5 DEF MainHelo, MainCheck, OthersWork, SameFiles, SameFresh, SamePeers
      <2>3. SameConns
            BY <1>5, <1>a, <2>1, HeloConns DEF MainHelo, MainCheck
      <2>4. QED
            BY <2>1, <2>2, <2>3 DEF Proceeds, GoesOn, Works, Before, SameConns, OtherConns
<1>6. CASE MainReceiveFails
      <2>1. SameFresh
            BY <1>6, ForgetFresh DEF MainReceiveFails
      <2>2. Closes("main") /\ m.pc \in Before /\ m.pc # "erase" /\ worker'["main"].pc = "idle"
            BY <1>0, <1>6, <2>1 DEF MainReceiveFails, Close, Closes, Works, OthersWork,
               SamePeers, IdleWorker, Before
      <2>3. QED
            BY <1>6, <1>a, <2>2 DEF MainReceiveFails, Leaves
<1>7. CASE MainRejectClose
      <2>1. SameFresh
            BY <1>7, ForgetFresh DEF MainRejectClose
      <2>2. Closes("main") /\ m.pc # "erase" /\ worker'["main"].pc = "erase"
            BY <1>0, <1>7, <2>1 DEF MainRejectClose, Close, Closes, Works, OthersWork, SamePeers
      <2>3. QED
            BY <1>7, <1>a, <2>2 DEF MainRejectClose, Leaves
<1>8. CASE MainSpawn
      <2>1. HandsOver("main") /\ peer'[m.conn].pc # "close" /\ m.pc = "spawn"
            BY <1>0, <1>8 DEF MainSpawn, StartPeer, NoPeer, HandsOver, Works, OthersWork,
               SameFiles, SameFresh, IdleWorker
      <2>2. QED
            BY <1>8, <1>a, <2>1 DEF MainSpawn, Starting
<1>9. CASE MainRejectErase
      <2>1. Erases("main") /\ m.fd \in Fd
            BY <1>0, <1>9 DEF MainRejectErase, Erases, OthersWork, SameFiles, SameFresh,
               SamePeers, IdleWorker
      <2>2. OtherConns(m.fd) /\ NewConn(m.fd) = None
            BY <1>9, <2>1, Types, OneEntry DEF MainRejectErase, NoEntry
      <2>3. QED
            BY <2>1, <2>2 DEF Forgets
<1>10. QED
       BY <1>1, <1>2, <1>3, <1>4, <1>5, <1>6, <1>7, <1>8, <1>9 DEF MainNext

LEMMA OutUses ==
    ASSUME TypeOK, NEW w \in Worker, OutNext(w)
    PROVE  Starts(w) \/ Proceeds(w) \/ Leaves(w) \/ Starting(w)
<1> DEFINE s == worker[w]
<1>0. /\ worker[w] \in WorkerState
      /\ worker \in [Worker -> WorkerState] /\ file \in [Fd -> Conn \cup {None}]
      /\ peer \in [Conn -> PeerState]
      /\ s.pc # "idle" => s.fd \in Fd /\ s.conn \in Conn
      BY DEF TypeOK, ThreadShape
<1> USE DEF WorkerState
<1>a. ASSUME UNCHANGED servers PROVE SameConns /\ \A g \in Fd : OtherConns(g)
      BY <1>a DEF SameConns, OtherConns, OfConn, NewConn
<1>1. ASSUME NEW a \in Addr, NEW f \in Fd, NEW c \in Conn, OutConnect(w, a, f, c)
      PROVE  Starts(w)
      <2>1. worker'[w].pc = "hello" /\ worker'[w].fd = f /\ worker'[w].conn = c
            BY <1>0, <1>1 DEF OutConnect
      <2>2. Open(f, c) /\ worker[w].pc = "idle" /\ SamePeers /\ OthersWork(w) /\ SameConns
            BY <1>0, <1>1, <1>a DEF OutConnect, MayConnect, SamePeers, OthersWork
      <2>3. QED
            BY <2>1, <2>2 DEF Starts, Opens, Works, Before
<1>2. CASE \/ OutFails(w) \/ \E g \in Group : OutHelo(w, g)
           \/ \E g \in GroupId : OutServers(w, g)
           \/ OutRegister(w) /\ UNCHANGED servers
      <2>1. /\ s.pc \in Before /\ worker'[w].pc \notin {"idle", "erase"}
            /\ worker'[w].fd = s.fd /\ worker'[w].conn = s.conn
            BY <1>0, <1>2 DEF OutFails, OutHelo, OutServers, OutRegister, Moves, Before
      <2>2. OthersWork(w) /\ SameFiles /\ SameFresh /\ SamePeers /\ UNCHANGED servers
            BY <1>0, <1>2 DEF OutFails, OutHelo, OutServers, OutRegister, Moves,
               OthersWork, SameFiles, SameFresh, SamePeers
      <2>3. GoesOn(w) /\ s.pc # "erase" /\ s.fd \in Fd
            BY <1>0, <2>1, <2>2 DEF GoesOn, Works, Before
      <2>4. CASE worker'[w].pc # "outSpawn"
            BY <1>a, <2>1, <2>2, <2>3, <2>4 DEF Proceeds, SameConns
      <2>5. CASE worker'[w].pc = "outSpawn"
            <3>1. OutRegister(w) /\ s.gid # MyGroup /\ s.gid \notin groupIds
                  BY <1>0, <1>2, <2>5 DEF OutFails, OutHelo, OutServers, OutRegister, Moves
            <3>2. servers' = [servers EXCEPT ![s.fd] =
                                 [gid |-> s.gid, addr |-> s.addr, conn |-> s.conn]]
                  BY <3>1 DEF OutRegister
            <3>3. NewConn(s.fd) = s.conn
                  BY <2>3, <3>2 DEF NewConn, TypeOK
            <3>4. QED
                  BY <1>a, <2>2, <2>3, <2>5, <3>3 DEF Proceeds, Before
      <2>6. QED
            BY <2>4, <2>5
<1>3. CASE OutRegister(w) /\ ~UNCHANGED servers
      <2>1. /\ s.pc = "register" /\ worker'[w].pc = "outSpawn"
            /\ worker'[w].fd = s.fd /\ worker'[w].conn = s.conn
            /\ s.fd \in Fd /\ s.conn \in Conn
            BY <1>0, <1>3 DEF OutRegister
      <2>2. OthersWork(w) /\ SameFiles /\ SameFresh /\ SamePeers
            BY <1>0, <1>3 DEF OutRegister, Moves, OthersWork, SameFiles, SameFresh, SamePeers
      <2>3. /\ [gid |-> s.gid, addr |-> s.addr, conn |-> s.conn] \in Entry
            /\ [gid |-> s.gid, addr |-> s.addr, conn |-> s.conn].conn = s.conn
            BY <1>0, <2>1 DEF Entry
      <2>4. servers' = [servers EXCEPT ![s.fd] =
                           [gid |-> s.gid, addr |-> s.addr, conn |-> s.conn]]
            BY <1>3 DEF OutRegister
      <2>5. OtherConns(s.fd) /\ NewConn(s.fd) = s.conn
            BY <2>1, <2>3, <2>4, OneEntry
      <2>6. QED
            BY <2>1, <2>2, <2>5 DEF Proceeds, GoesOn, Works, Before
<1>4. CASE OutSpawn(w)
      <2>1. HandsOver(w) /\ peer'[s.conn].pc # "close" /\ s.pc = "outSpawn"
            BY <1>0, <1>4 DEF OutSpawn, StartPeer, NoPeer, HandsOver, Works, OthersWork,
               SameFiles, SameFresh, IdleWorker
      <2>2. QED
            BY <1>4, <1>a, <2>1 DEF OutSpawn, Starting
<1>5. CASE OutSpawnFails(w)
      <2>1. /\ s.pc = "outSpawn" /\ worker'[w].pc = "outClose"
            /\ worker'[w].fd = s.fd /\ worker'[w].conn = s.conn /\ s.fd \in Fd
            BY <1>0, <1>5 DEF OutSpawnFails, Moves
      <2>2. OthersWork(w) /\ SameFiles /\ SameFresh /\ SamePeers
            BY <1>0, <1>5 DEF OutSpawnFails, Moves, OthersWork, SameFiles, SameFresh, SamePeers
      <2>3. OtherConns(s.fd) /\ NewConn(s.fd) = None
            BY <1>5, <2>1, Types, OneEntry DEF OutSpawnFails, NoEntry
      <2>4. QED
            BY <2>1, <2>2, <2>3 DEF Proceeds, GoesOn, Works
<1>6. CASE OutClose(w)
      <2>1. SameFresh
            BY <1>6, ForgetFresh DEF OutClose
      <2>2. Closes(w) /\ s.pc \in Before /\ s.pc # "erase" /\ worker'[w].pc = "idle"
            BY <1>0, <1>6, <2>1 DEF OutClose, Close, Closes, Works, OthersWork, SamePeers,
               IdleWorker, Before
      <2>3. QED
            BY <1>6, <1>a, <2>2 DEF OutClose, Leaves
<1>7. QED
      BY <1>1, <1>2, <1>3, <1>4, <1>5, <1>6 DEF OutNext

LEMMA PeerUses ==
    ASSUME TypeOK, NEW t \in Conn, PeerNext(t) \/ RemoteClose(t)
    PROVE  PeerProceeds(t) \/ PeerLeaves(t) \/ Rests
<1>0. /\ peer \in [Conn -> PeerState] /\ file \in [Fd -> Conn \cup {None}]
      /\ remote \in [Conn -> {"fresh", "open", "shut"}]
      /\ peer[t].pc \notin {"none", "done"} => peer[t].fd \in Fd
      BY DEF TypeOK, ThreadShape
<1> USE DEF PeerState
<1>a. ASSUME UNCHANGED servers PROVE SameConns
      BY <1>a DEF SameConns, OfConn, NewConn
<1>1. CASE \/ PeerBlock(t) \/ PeerHandle(t) \/ PeerReceiveFails(t)
           \/ \E g \in GroupId : PeerReceive(t, g)
      <2>1. SameFresh
            BY <1>1, ForgetFresh DEF PeerBlock, PeerHandle, PeerReceiveFails, PeerReceive, SameFresh
      <2>2. SameConns
            <3>1. CASE PeerHandle(t)
                  <4>1. peer[t].fd \in Fd /\ peer[t].gid \in GroupId
                        BY <1>0, <3>1 DEF PeerHandle
                  <4>2. QED
                        BY <3>1, <4>1, HeloConns DEF PeerHandle
            <3>2. CASE ~PeerHandle(t)
                  BY <1>1, <1>a, <3>2 DEF PeerBlock, PeerReceiveFails, PeerReceive
            <3>3. QED
                  BY <3>1, <3>2
      <2>3. PeerGoesOn(t) /\ peer'[t].pc # "close" /\ peer[t].fd \in Fd
            BY <1>0, <1>1, <2>1 DEF PeerBlock, PeerHandle, PeerReceiveFails, PeerReceive, Goes,
               PeerGoesOn, Lives, SameFiles
      <2>4. QED
            BY <2>2, <2>3 DEF PeerProceeds, SameConns, OtherConns
<1>2. CASE PeerCleanup(t)
      <2>1. PeerGoesOn(t) /\ peer[t].fd \in Fd
            BY <1>0, <1>2 DEF PeerCleanup, Goes, PeerGoesOn, Lives, SameFiles, SameFresh
      <2>2. CASE Present(peer[t].fd)
            <3>1. OtherConns(peer[t].fd) /\ NewConn(peer[t].fd) = None
                  BY <1>2, <2>1, <2>2, Types, OneEntry DEF PeerCleanup, NoEntry
            <3>2. QED
                  BY <2>1, <3>1 DEF PeerProceeds
      <2>3. CASE ~Present(peer[t].fd)
            BY <1>2, <2>1, <2>3 DEF PeerCleanup, Present, OfConn, NewConn, OtherConns, PeerProceeds
      <2>4. QED
            BY <2>2, <2>3
<1>3. CASE PeerClose(t)
      <2>1. SameFresh
            BY <1>3, ForgetFresh DEF PeerClose
      <2>2. QED
            BY <1>0, <1>3, <1>a, <2>1
            DEF PeerClose, Close, PeerEnds, PeerLeaves, Lives, DonePeer, NoPeer
<1>4. CASE RemoteClose(t)
      BY <1>0, <1>4, <1>a DEF RemoteClose, Rests, SameFiles, SamePeers, SameFresh
<1>5. QED
      BY <1>1, <1>2, <1>3, <1>4 DEF PeerNext

(* Each kind of step keeps a descriptor to one user. *)
LEMMA StartsKeeps ==
    ASSUME HeldInv, UseInv, TypeOK', NEW w \in Worker, Starts(w) PROVE UseInv'
<1> DEFINE g == worker'[w].fd
           c == worker'[w].conn
<1>1. g \in Fd /\ c \in Conn
      BY DEF Starts, Opens, TypeOK, ThreadShape
<1>2. /\ file[g] = None /\ remote[c] = "fresh"
      /\ \A f \in Fd : file'[f] = IF f = g THEN c ELSE file[f]
      /\ \A d \in Conn : remote'[d] = "fresh" => remote[d] = "fresh"
      BY <1>1 DEF Starts, Opens, Open, LowestFree, HeldInv, TypeOK
<1>3. /\ worker[w].pc = "idle" /\ worker'[w].pc \in Before
      /\ \A v \in Worker \ {w} : worker'[v] = worker[v]
      /\ \A t \in Conn : peer'[t] = peer[t]
      /\ \A f \in Fd : NewConn(f) = OfConn(f)
      BY DEF Starts, Opens, OthersWork, SamePeers, SameConns, Works
<1>4. /\ \A v \in Worker : worker[v].pc # "idle" => worker[v].fd \in Fd /\ worker[v].conn \in Conn
      /\ \A f \in Fd : file[f] \in Conn \cup {None} /\ OfConn(f) \in Conn \cup {None}
      /\ \A t \in Conn : Lives(t) => peer[t].fd \in Fd
      <2>1. \A f \in Fd : OfConn(f) \in Conn \cup {None}
            BY DEF HeldInv, OfConn, TypeOK, Entry
      <2>2. QED
            BY <2>1, HeldTypes DEF HeldInv, Works
<1>5. OfConn(g) # c /\ worker'[w].pc \notin {"idle", "erase", "outSpawn"}
      BY <1>1, <1>2, <1>3, NoneAssumption DEF UseInv, EntriesUsed, Before, Starts, Opens
<1> HIDE DEF g, c
<1>6. WorkersUse'
      <2>1. ASSUME NEW v \in Worker
            PROVE  /\ worker'[v].pc \notin {"idle", "erase"} => file'[worker'[v].fd] = worker'[v].conn
                   /\ worker'[v].pc \in Before   => NewConn(worker'[v].fd) # worker'[v].conn
                   /\ worker'[v].pc = "outSpawn" => NewConn(worker'[v].fd) \in {worker'[v].conn, None}
            <3>1. CASE v = w
                  BY <1>1, <1>2, <1>3, <1>5, <3>1 DEF g, c
            <3>2. CASE v # w
                  <4>1. worker'[v] = worker[v]
                        BY <1>3, <3>2
                  <4>2. CASE worker[v].pc \in {"idle", "erase"}
                        BY <4>1, <4>2 DEF Before
                  <4>3. CASE worker[v].pc \notin {"idle", "erase"}
                        <5>1. file[worker[v].fd] = worker[v].conn /\ worker[v].fd \in Fd /\ worker[v].conn \in Conn
                              BY <1>4, <4>3 DEF UseInv, WorkersUse
                        <5>2. worker[v].fd # g
                              BY <1>2, <5>1, NoneAssumption
                        <5>3. QED
                              BY <1>2, <1>3, <4>1, <5>1, <5>2 DEF UseInv, WorkersUse
                  <4>4. QED
                        BY <4>2, <4>3
            <3>3. QED
                  BY <3>1, <3>2
      <2>2. QED
            BY <2>1 DEF WorkersUse, OfConn, NewConn
<1>7. PeersUse'
      <2>1. ASSUME NEW t \in Conn, Lives(t)'
            PROVE  /\ file'[peer'[t].fd] = t
                   /\ NewConn(peer'[t].fd) \in {t, None}
                   /\ peer'[t].pc = "close" => NewConn(peer'[t].fd) = None
            <3>1. peer'[t] = peer[t] /\ Lives(t) /\ peer[t].fd \in Fd
                  BY <1>3, <1>4, <2>1 DEF Lives
            <3>2. file[peer[t].fd] = t
                  BY <3>1 DEF UseInv, PeersUse
            <3>3. peer[t].fd # g
                  BY <1>2, <3>2, NoneAssumption
            <3>4. QED
                  BY <1>2, <1>3, <3>1, <3>2, <3>3 DEF UseInv, PeersUse
      <2>2. QED
            BY <2>1 DEF PeersUse, OfConn, NewConn
<1>8. EntriesUsed'
      <2>1. ASSUME NEW f \in Fd, NewConn(f) # None
            PROVE  (NewConn(f) = file'[f] \/ Stale(f)') /\ remote'[NewConn(f)] # "fresh"
            <3>1. NewConn(f) = OfConn(f) /\ OfConn(f) \in Conn /\ remote[OfConn(f)] # "fresh"
                  BY <1>3, <1>4, <2>1 DEF UseInv, EntriesUsed
            <3>2. Stale(f) => Stale(f)'
                  BY <1>3 DEF Stale, Worker
            <3>3. CASE f = g
                  BY <1>2, <2>1, <3>1, <3>2, <3>3 DEF UseInv, EntriesUsed
            <3>4. CASE f # g
                  BY <1>2, <2>1, <3>1, <3>2, <3>4 DEF UseInv, EntriesUsed
            <3>5. QED
                  BY <3>3, <3>4
      <2>2. QED
            BY <2>1 DEF EntriesUsed, OfConn, NewConn
<1>9. QED
      BY <1>6, <1>7, <1>8 DEF UseInv

(* The descriptors of two users differ. *)
LEMMA UsersApart ==
    ASSUME HeldInv, UseInv
    PROVE  /\ \A v, w \in Worker :
                 worker[v].pc \notin {"idle", "erase"} /\ worker[w].pc \notin {"idle", "erase"}
                    => v = w \/ worker[v].fd # worker[w].fd
           /\ \A w \in Worker, t \in Conn :
                 worker[w].pc \notin {"idle", "erase"} /\ Lives(t) => worker[w].fd # peer[t].fd
           /\ \A s, t \in Conn : Lives(s) /\ Lives(t) /\ s # t => peer[s].fd # peer[t].fd
<1>1. \A w \in Worker : worker[w].pc \notin {"idle", "erase"} =>
         file[worker[w].fd] = worker[w].conn /\ Works(w) /\ peer[worker[w].conn].pc = "none"
      BY DEF HeldInv, UseInv, WorkersUse, WorkersOwn, Works
<1>2. \A t \in Conn : Lives(t) => file[peer[t].fd] = t /\ peer[t].pc # "none"
      BY DEF UseInv, PeersUse, Lives
<1>3. ASSUME NEW v \in Worker, NEW w \in Worker, worker[v].pc \notin {"idle", "erase"},
             worker[w].pc \notin {"idle", "erase"}, v # w
      PROVE  worker[v].fd # worker[w].fd
      <2>1. worker[v].conn # worker[w].conn
            BY <1>1, <1>3 DEF HeldInv, WorkersApart
      <2>2. QED
            BY <1>1, <1>3, <2>1
<1>4. ASSUME NEW w \in Worker, NEW t \in Conn, worker[w].pc \notin {"idle", "erase"}, Lives(t)
      PROVE  worker[w].fd # peer[t].fd
      <2>1. worker[w].conn # t
            BY <1>1, <1>2, <1>4
      <2>2. QED
            BY <1>1, <1>2, <1>4, <2>1
<1>5. QED
      BY <1>2, <1>3, <1>4

LEMMA ProceedsKeeps ==
    ASSUME HeldInv, UseInv, TypeOK', NEW w \in Worker, Proceeds(w) PROVE UseInv'
<1> DEFINE g == worker[w].fd
           c == worker[w].conn
<1>1. /\ worker[w].pc \notin {"idle", "erase"} /\ worker'[w].pc \notin {"idle", "erase"}
      /\ worker'[w].fd = g /\ worker'[w].conn = c
      /\ \A v \in Worker \ {w} : worker'[v] = worker[v]
      /\ \A t \in Conn : peer'[t] = peer[t]
      /\ \A f \in Fd : file'[f] = file[f]
      /\ \A d \in Conn : remote'[d] = "fresh" <=> remote[d] = "fresh"
      /\ \A f \in Fd \ {g} : NewConn(f) = OfConn(f)
      BY DEF Proceeds, GoesOn, Works, OthersWork, SamePeers, SameFiles, SameFresh, OtherConns
<1>2. /\ \A v \in Worker : worker[v].pc # "idle" => worker[v].fd \in Fd /\ worker[v].conn \in Conn
      /\ \A f \in Fd : OfConn(f) \in Conn \cup {None}
      /\ \A t \in Conn : Lives(t) => peer[t].fd \in Fd
      BY HeldTypes DEF HeldInv, Works, OfConn, TypeOK, Entry
<1>3. g \in Fd /\ c \in Conn /\ file[g] = c /\ remote[c] # "fresh"
      BY <1>1, <1>2 DEF UseInv, WorkersUse, HeldInv, WorkersOwn, Works
<1>4. /\ NewConn(g) \in {OfConn(g), c, None}
      /\ worker'[w].pc \in Before   => NewConn(g) # c
      /\ worker'[w].pc = "outSpawn" => NewConn(g) \in {c, None}
      BY <1>1, <1>3, NoneAssumption DEF Proceeds, UseInv, WorkersUse
<1> HIDE DEF g, c
<1>5. WorkersUse'
      <2>1. ASSUME NEW v \in Worker
            PROVE  /\ worker'[v].pc \notin {"idle", "erase"} => file'[worker'[v].fd] = worker'[v].conn
                   /\ worker'[v].pc \in Before   => NewConn(worker'[v].fd) # worker'[v].conn
                   /\ worker'[v].pc = "outSpawn" => NewConn(worker'[v].fd) \in {worker'[v].conn, None}
            <3>1. CASE v = w
                  BY <1>1, <1>3, <1>4, <3>1
            <3>2. CASE v # w
                  <4>1. worker'[v] = worker[v]
                        BY <1>1, <3>2
                  <4>2. CASE worker[v].pc \in {"idle", "erase"}
                        BY <4>1, <4>2 DEF Before
                  <4>3. CASE worker[v].pc \notin {"idle", "erase"}
                        <5>1. worker[v].fd # g /\ worker[v].fd \in Fd
                              BY <1>1, <1>2, <3>2, <4>3, UsersApart DEF g
                        <5>2. QED
                              BY <1>1, <4>1, <5>1 DEF UseInv, WorkersUse
                  <4>4. QED
                        BY <4>2, <4>3
            <3>3. QED
                  BY <3>1, <3>2
      <2>2. QED
            BY <2>1 DEF WorkersUse, OfConn, NewConn
<1>6. PeersUse'
      <2>1. ASSUME NEW t \in Conn, Lives(t)'
            PROVE  /\ file'[peer'[t].fd] = t
                   /\ NewConn(peer'[t].fd) \in {t, None}
                   /\ peer'[t].pc = "close" => NewConn(peer'[t].fd) = None
            <3>1. peer'[t] = peer[t] /\ Lives(t) /\ peer[t].fd \in Fd
                  BY <1>1, <1>2, <2>1 DEF Lives
            <3>2. peer[t].fd # g
                  BY <1>1, <3>1, UsersApart DEF g
            <3>3. QED
                  BY <1>1, <3>1, <3>2 DEF UseInv, PeersUse
      <2>2. QED
            BY <2>1 DEF PeersUse, OfConn, NewConn
<1>7. EntriesUsed'
      <2>1. ASSUME NEW f \in Fd, NewConn(f) # None
            PROVE  (NewConn(f) = file'[f] \/ Stale(f)') /\ remote'[NewConn(f)] # "fresh"
            <3>1. Stale(f) => Stale(f)'
                  BY <1>1 DEF Stale, Worker
            <3>2. CASE NewConn(f) = OfConn(f)
                  BY <1>1, <1>2, <2>1, <3>1, <3>2 DEF UseInv, EntriesUsed
            <3>3. CASE f = g /\ NewConn(f) = c
                  BY <1>1, <1>3, <3>3
            <3>4. QED
                  BY <1>1, <1>4, <2>1, <3>2, <3>3
      <2>2. QED
            BY <2>1 DEF EntriesUsed, OfConn, NewConn
<1>8. QED
      BY <1>5, <1>6, <1>7 DEF UseInv

LEMMA LeavesKeeps ==
    ASSUME HeldInv, UseInv, TypeOK', NEW w \in Worker, Leaves(w) PROVE UseInv'
<1> DEFINE g == worker[w].fd
           c == worker[w].conn
<1>1. /\ worker[w].pc \notin {"idle", "erase"}
      /\ \/ worker'[w].pc = "idle" /\ worker[w].pc \in Before
         \/ worker'[w].pc = "erase" /\ w = "main" /\ worker'[w].fd = g
      /\ \A v \in Worker \ {w} : worker'[v] = worker[v]
      /\ \A t \in Conn : peer'[t] = peer[t]
      /\ \A f \in Fd : file'[f] = IF f = g THEN None ELSE file[f]
      /\ \A d \in Conn : remote'[d] = "fresh" <=> remote[d] = "fresh"
      /\ \A f \in Fd : NewConn(f) = OfConn(f)
      BY DEF Leaves, Closes, Works, OthersWork, SamePeers, SameFresh, SameConns
<1>2. /\ \A v \in Worker : worker[v].pc # "idle" => worker[v].fd \in Fd /\ worker[v].conn \in Conn
      /\ \A f \in Fd : OfConn(f) \in Conn \cup {None}
      /\ \A t \in Conn : Lives(t) => peer[t].fd \in Fd
      BY HeldTypes DEF HeldInv, Works, OfConn, TypeOK, Entry
<1>3. g \in Fd /\ c \in Conn /\ file[g] = c /\ (worker[w].pc \in Before => OfConn(g) # c)
      BY <1>1, <1>2 DEF UseInv, WorkersUse
<1> HIDE DEF g, c
<1>4. WorkersUse'
      <2>1. ASSUME NEW v \in Worker
            PROVE  /\ worker'[v].pc \notin {"idle", "erase"} => file'[worker'[v].fd] = worker'[v].conn
                   /\ worker'[v].pc \in Before   => NewConn(worker'[v].fd) # worker'[v].conn
                   /\ worker'[v].pc = "outSpawn" => NewConn(worker'[v].fd) \in {worker'[v].conn, None}
            <3>1. CASE worker'[v].pc \in {"idle", "erase"}
                  BY <3>1 DEF Before
            <3>2. CASE worker'[v].pc \notin {"idle", "erase"}
                  <4>1. v # w /\ worker'[v] = worker[v]
                        BY <1>1, <3>2
                  <4>2. worker[v].fd # g /\ worker[v].fd \in Fd
                        BY <1>1, <1>2, <3>2, <4>1, UsersApart DEF g
                  <4>3. QED
                        BY <1>1, <4>1, <4>2 DEF UseInv, WorkersUse
            <3>3. QED
                  BY <3>1, <3>2
      <2>2. QED
            BY <2>1 DEF WorkersUse, OfConn, NewConn
<1>5. PeersUse'
      <2>1. ASSUME NEW t \in Conn, Lives(t)'
            PROVE  /\ file'[peer'[t].fd] = t
                   /\ NewConn(peer'[t].fd) \in {t, None}
                   /\ peer'[t].pc = "close" => NewConn(peer'[t].fd) = None
            <3>1. peer'[t] = peer[t] /\ Lives(t) /\ peer[t].fd \in Fd
                  BY <1>1, <1>2, <2>1 DEF Lives
            <3>2. peer[t].fd # g
                  BY <1>1, <3>1, UsersApart DEF g
            <3>3. QED
                  BY <1>1, <3>1, <3>2 DEF UseInv, PeersUse
      <2>2. QED
            BY <2>1 DEF PeersUse, OfConn, NewConn
<1>6. EntriesUsed'
      <2>1. ASSUME NEW f \in Fd, NewConn(f) # None
            PROVE  (NewConn(f) = file'[f] \/ Stale(f)') /\ remote'[NewConn(f)] # "fresh"
            <3>1. NewConn(f) = OfConn(f) /\ remote'[NewConn(f)] # "fresh"
                  BY <1>1, <1>2, <2>1 DEF UseInv, EntriesUsed
            <3>2. Stale(f) => Stale(f)'
                  BY <1>1 DEF Stale, Worker
            <3>3. CASE f = g
                  <4>1. worker'[w].pc = "erase" => Stale(f)'
                        BY <1>1, <3>3 DEF Stale
                  <4>2. worker'[w].pc = "idle" => Stale(f)
                        BY <1>1, <1>3, <2>1, <3>1, <3>3 DEF UseInv, EntriesUsed
                  <4>3. QED
                        BY <1>1, <3>1, <3>2, <4>1, <4>2
            <3>4. CASE f # g
                  BY <1>1, <2>1, <3>1, <3>2, <3>4 DEF UseInv, EntriesUsed
            <3>5. QED
                  BY <3>3, <3>4
      <2>2. QED
            BY <2>1 DEF EntriesUsed, OfConn, NewConn
<1>7. QED
      BY <1>4, <1>5, <1>6 DEF UseInv

LEMMA ForgetsKeeps ==
    ASSUME HeldInv, UseInv, TypeOK', Forgets PROVE UseInv'
<1> DEFINE g == worker["main"].fd
<1>1. /\ worker["main"].pc = "erase" /\ worker'["main"].pc = "idle" /\ "main" \in Worker
      /\ \A v \in Worker \ {"main"} : worker'[v] = worker[v]
      /\ \A t \in Conn : peer'[t] = peer[t]
      /\ \A f \in Fd : file'[f] = file[f]
      /\ \A d \in Conn : remote'[d] = "fresh" <=> remote[d] = "fresh"
      /\ \A f \in Fd \ {g} : NewConn(f) = OfConn(f)
      /\ NewConn(g) = None
      BY DEF Forgets, Erases, OthersWork, SamePeers, SameFiles, SameFresh, OtherConns, Worker
<1>2. /\ \A v \in Worker : worker[v].pc # "idle" => worker[v].fd \in Fd /\ worker[v].conn \in Conn
      /\ \A f \in Fd : OfConn(f) \in Conn \cup {None}
      /\ \A t \in Conn : Lives(t) => peer[t].fd \in Fd
      <2>1. \A f \in Fd : OfConn(f) \in Conn \cup {None}
            BY DEF HeldInv, OfConn, TypeOK, Entry
      <2>2. QED
            BY <2>1, HeldTypes DEF HeldInv, Works
<1>3. \A f \in Fd : NewConn(f) \in {OfConn(f), None}
      BY <1>1
<1> HIDE DEF g
<1>4. WorkersUse'
      <2>1. ASSUME NEW v \in Worker
            PROVE  /\ worker'[v].pc \notin {"idle", "erase"} => file'[worker'[v].fd] = worker'[v].conn
                   /\ worker'[v].pc \in Before   => NewConn(worker'[v].fd) # worker'[v].conn
                   /\ worker'[v].pc = "outSpawn" => NewConn(worker'[v].fd) \in {worker'[v].conn, None}
            <3>1. CASE worker'[v].pc \in {"idle", "erase"}
                  BY <3>1 DEF Before
            <3>2. CASE worker'[v].pc \notin {"idle", "erase"}
                  <4>1. worker'[v] = worker[v] /\ worker[v].fd \in Fd /\ worker[v].conn \in Conn
                        BY <1>1, <1>2, <3>2
                  <4>2. QED
                        BY <1>1, <1>3, <4>1, NoneAssumption DEF UseInv, WorkersUse
            <3>3. QED
                  BY <3>1, <3>2
      <2>2. QED
            BY <2>1 DEF WorkersUse, OfConn, NewConn
<1>5. PeersUse'
      <2>1. ASSUME NEW t \in Conn, Lives(t)'
            PROVE  /\ file'[peer'[t].fd] = t
                   /\ NewConn(peer'[t].fd) \in {t, None}
                   /\ peer'[t].pc = "close" => NewConn(peer'[t].fd) = None
            <3>1. peer'[t] = peer[t] /\ Lives(t) /\ peer[t].fd \in Fd
                  BY <1>1, <1>2, <2>1 DEF Lives
            <3>2. QED
                  BY <1>1, <1>3, <3>1 DEF UseInv, PeersUse
      <2>2. QED
            BY <2>1 DEF PeersUse, OfConn, NewConn
<1>6. EntriesUsed'
      <2>1. ASSUME NEW f \in Fd, NewConn(f) # None
            PROVE  NewConn(f) = file'[f] /\ remote'[NewConn(f)] # "fresh"
            <3>1. f # g /\ NewConn(f) = OfConn(f)
                  BY <1>1, <2>1
            <3>2. ~Stale(f)
                  BY <3>1 DEF Stale, g
            <3>3. QED
                  BY <1>1, <1>2, <2>1, <3>1, <3>2 DEF UseInv, EntriesUsed
      <2>2. QED
            BY <2>1 DEF EntriesUsed, OfConn, NewConn
<1>7. QED
      BY <1>4, <1>5, <1>6 DEF UseInv

LEMMA StartingKeeps ==
    ASSUME HeldInv, UseInv, TypeOK', NEW w \in Worker, Starting(w) PROVE UseInv'
<1> DEFINE g == worker[w].fd
           c == worker[w].conn
<1>1. /\ worker[w].pc \notin {"idle", "erase"} /\ worker'[w].pc = "idle"
      /\ \A v \in Worker \ {w} : worker'[v] = worker[v]
      /\ peer'[c].fd = g /\ peer'[c].pc # "close"
      /\ \A t \in Conn \ {c} : peer'[t] = peer[t]
      /\ \A f \in Fd : file'[f] = file[f]
      /\ \A d \in Conn : remote'[d] = "fresh" <=> remote[d] = "fresh"
      /\ \A f \in Fd : NewConn(f) = OfConn(f)
      BY DEF Starting, HandsOver, OthersWork, SameFiles, SameFresh, SameConns
<1>2. /\ \A v \in Worker : worker[v].pc # "idle" => worker[v].fd \in Fd /\ worker[v].conn \in Conn
      /\ \A f \in Fd : OfConn(f) \in Conn \cup {None}
      /\ \A t \in Conn : Lives(t) => peer[t].fd \in Fd
      <2>1. \A f \in Fd : OfConn(f) \in Conn \cup {None}
            BY DEF HeldInv, OfConn, TypeOK, Entry
      <2>2. QED
            BY <2>1, HeldTypes DEF HeldInv, Works
<1>3. g \in Fd /\ c \in Conn /\ file[g] = c
      BY <1>1, <1>2 DEF UseInv, WorkersUse
<1>4. OfConn(g) \in {c, None}
      <2>1. CASE worker[w].pc = "outSpawn"
            BY <2>1 DEF UseInv, WorkersUse
      <2>2. CASE worker[w].pc = "spawn" /\ w = "main"
            BY <1>3, <2>2 DEF UseInv, EntriesUsed, Stale
      <2>3. QED
            BY <2>1, <2>2 DEF Starting
<1> HIDE DEF g, c
<1>5. WorkersUse'
      <2>1. ASSUME NEW v \in Worker
            PROVE  /\ worker'[v].pc \notin {"idle", "erase"} => file'[worker'[v].fd] = worker'[v].conn
                   /\ worker'[v].pc \in Before   => NewConn(worker'[v].fd) # worker'[v].conn
                   /\ worker'[v].pc = "outSpawn" => NewConn(worker'[v].fd) \in {worker'[v].conn, None}
            <3>1. CASE worker'[v].pc \in {"idle", "erase"}
                  BY <3>1 DEF Before
            <3>2. CASE worker'[v].pc \notin {"idle", "erase"}
                  <4>1. worker'[v] = worker[v] /\ worker[v].fd \in Fd
                        BY <1>1, <1>2, <3>2
                  <4>2. QED
                        BY <1>1, <4>1 DEF UseInv, WorkersUse
            <3>3. QED
                  BY <3>1, <3>2
      <2>2. QED
            BY <2>1 DEF WorkersUse, OfConn, NewConn
<1>6. PeersUse'
      <2>1. ASSUME NEW t \in Conn, Lives(t)'
            PROVE  /\ file'[peer'[t].fd] = t
                   /\ NewConn(peer'[t].fd) \in {t, None}
                   /\ peer'[t].pc = "close" => NewConn(peer'[t].fd) = None
            <3>1. CASE t = c
                  BY <1>1, <1>3, <1>4, <3>1
            <3>2. CASE t # c
                  <4>1. peer'[t] = peer[t] /\ Lives(t) /\ peer[t].fd \in Fd
                        BY <1>1, <1>2, <2>1, <3>2 DEF Lives
                  <4>2. QED
                        BY <1>1, <4>1 DEF UseInv, PeersUse
            <3>3. QED
                  BY <3>1, <3>2
      <2>2. QED
            BY <2>1 DEF PeersUse, OfConn, NewConn
<1>7. EntriesUsed'
      <2>1. ASSUME NEW f \in Fd, NewConn(f) # None
            PROVE  (NewConn(f) = file'[f] \/ Stale(f)') /\ remote'[NewConn(f)] # "fresh"
            <3>1. Stale(f) => Stale(f)'
                  BY <1>1 DEF Stale, Worker
            <3>2. QED
                  BY <1>1, <1>2, <2>1, <3>1 DEF UseInv, EntriesUsed
      <2>2. QED
            BY <2>1 DEF EntriesUsed, OfConn, NewConn
<1>8. QED
      BY <1>5, <1>6, <1>7 DEF UseInv

(* Steps of peer threads. *)
LEMMA PeerStepsKeep ==
    ASSUME HeldInv, UseInv, TypeOK', NEW s \in Conn, PeerProceeds(s) \/ PeerLeaves(s)
    PROVE  UseInv'
<1> DEFINE g == peer[s].fd
<1>1. /\ Lives(s) /\ \A t \in Conn \ {s} : peer'[t] = peer[t]
      /\ \A w \in Worker : worker'[w] = worker[w]
      /\ \A d \in Conn : remote'[d] = "fresh" <=> remote[d] = "fresh"
      BY DEF PeerProceeds, PeerLeaves, PeerGoesOn, PeerEnds, SameFresh
<1>2. /\ \A v \in Worker : worker[v].pc # "idle" => worker[v].fd \in Fd /\ worker[v].conn \in Conn
      /\ \A f \in Fd : OfConn(f) \in Conn \cup {None}
      /\ \A t \in Conn : Lives(t) => peer[t].fd \in Fd
      <2>1. \A f \in Fd : OfConn(f) \in Conn \cup {None}
            BY DEF HeldInv, OfConn, TypeOK, Entry
      <2>2. QED
            BY <2>1, HeldTypes DEF HeldInv, Works
<1>3. g \in Fd /\ file[g] = s
      BY <1>1, <1>2 DEF UseInv, PeersUse
<1>4. /\ \A f \in Fd \ {g} : file'[f] = file[f] /\ NewConn(f) = OfConn(f)
      /\ NewConn(g) \in {OfConn(g), None}
      BY <1>3 DEF PeerProceeds, PeerLeaves, PeerGoesOn, PeerEnds, SameFiles, OtherConns, SameConns
<1>5. \/ file'[g] = file[g] /\ Lives(s)' /\ peer'[s].fd = g
         /\ (peer'[s].pc = "close" => NewConn(g) = None)
      \/ NewConn(g) = None /\ ~Lives(s)'
      <2>1. CASE PeerProceeds(s)
            BY <1>3, <2>1 DEF PeerProceeds, PeerGoesOn, SameFiles, Lives
      <2>2. CASE PeerLeaves(s)
            <3>1. OfConn(g) = None /\ NewConn(g) = OfConn(g)
                  BY <1>1, <1>3, <2>2 DEF PeerLeaves, UseInv, PeersUse, SameConns
            <3>2. QED
                  BY <2>2, <3>1 DEF PeerLeaves, PeerEnds, Lives
      <2>3. QED
            BY <2>1, <2>2
<1> HIDE DEF g
<1>6. WorkersUse'
      <2>1. ASSUME NEW v \in Worker
            PROVE  /\ worker'[v].pc \notin {"idle", "erase"} => file'[worker'[v].fd] = worker'[v].conn
                   /\ worker'[v].pc \in Before   => NewConn(worker'[v].fd) # worker'[v].conn
                   /\ worker'[v].pc = "outSpawn" => NewConn(worker'[v].fd) \in {worker'[v].conn, None}
            <3>1. CASE worker'[v].pc \in {"idle", "erase"}
                  BY <3>1 DEF Before
            <3>2. CASE worker'[v].pc \notin {"idle", "erase"}
                  <4>1. worker'[v] = worker[v] /\ worker[v].fd \in Fd /\ worker[v].fd # g
                        BY <1>1, <1>2, <3>2, UsersApart DEF g
                  <4>2. QED
                        BY <1>4, <4>1 DEF UseInv, WorkersUse
            <3>3. QED
                  BY <3>1, <3>2
      <2>2. QED
            BY <2>1 DEF WorkersUse, OfConn, NewConn
<1>7. PeersUse'
      <2>1. ASSUME NEW t \in Conn, Lives(t)'
            PROVE  /\ file'[peer'[t].fd] = t
                   /\ NewConn(peer'[t].fd) \in {t, None}
                   /\ peer'[t].pc = "close" => NewConn(peer'[t].fd) = None
            <3>1. CASE t = s
                  <4>1. OfConn(g) \in {s, None}
                        BY <1>1 DEF UseInv, PeersUse, g
                  <4>2. QED
                        BY <1>3, <1>4, <1>5, <2>1, <3>1, <4>1
            <3>2. CASE t # s
                  <4>1. peer'[t] = peer[t] /\ Lives(t) /\ peer[t].fd \in Fd
                        BY <1>1, <1>2, <2>1, <3>2 DEF Lives
                  <4>2. peer[t].fd # g
                        BY <1>1, <3>2, <4>1, UsersApart DEF g
                  <4>3. QED
                        BY <1>4, <4>1, <4>2 DEF UseInv, PeersUse
            <3>3. QED
                  BY <3>1, <3>2
      <2>2. QED
            BY <2>1 DEF PeersUse, OfConn, NewConn
<1>8. EntriesUsed'
      <2>1. ASSUME NEW f \in Fd, NewConn(f) # None
            PROVE  (NewConn(f) = file'[f] \/ Stale(f)') /\ remote'[NewConn(f)] # "fresh"
            <3>1. Stale(f) => Stale(f)'
                  BY <1>1 DEF Stale, Worker
            <3>2. NewConn(f) = OfConn(f) /\ file'[f] = file[f]
                  BY <1>4, <1>5, <2>1
            <3>3. QED
                  BY <1>1, <1>2, <2>1, <3>1, <3>2 DEF UseInv, EntriesUsed
      <2>2. QED
            BY <2>1 DEF EntriesUsed, OfConn, NewConn
<1>9. QED
      BY <1>6, <1>7, <1>8 DEF UseInv

LEMMA RestsKeeps ==
    ASSUME HeldInv, UseInv, TypeOK', Rests PROVE UseInv'
<1>1. /\ \A t \in Conn : peer'[t] = peer[t]
      /\ \A w \in Worker : worker'[w] = worker[w]
      /\ \A d \in Conn : remote'[d] = "fresh" <=> remote[d] = "fresh"
      /\ \A f \in Fd : file'[f] = file[f] /\ NewConn(f) = OfConn(f)
      BY DEF Rests, SamePeers, SameFresh, SameFiles, SameConns
<1>2. /\ \A v \in Worker : worker[v].pc # "idle" => worker[v].fd \in Fd
      /\ \A f \in Fd : OfConn(f) \in Conn \cup {None}
      /\ \A t \in Conn : Lives(t) => peer[t].fd \in Fd
      <2>1. \A f \in Fd : OfConn(f) \in Conn \cup {None}
            BY DEF HeldInv, OfConn, TypeOK, Entry
      <2>2. QED
            BY <2>1, HeldTypes DEF HeldInv, Works
<1>3. \A v \in Worker :
         /\ worker'[v].pc \notin {"idle", "erase"} => file'[worker'[v].fd] = worker'[v].conn
         /\ worker'[v].pc \in Before   => NewConn(worker'[v].fd) # worker'[v].conn
         /\ worker'[v].pc = "outSpawn" => NewConn(worker'[v].fd) \in {worker'[v].conn, None}
      BY <1>1, <1>2 DEF UseInv, WorkersUse, Before
<1>4. \A t \in Conn : Lives(t)' =>
         /\ file'[peer'[t].fd] = t
         /\ NewConn(peer'[t].fd) \in {t, None}
         /\ peer'[t].pc = "close" => NewConn(peer'[t].fd) = None
      BY <1>1, <1>2 DEF UseInv, PeersUse, Lives
<1>5. \A f \in Fd : NewConn(f) # None =>
         (NewConn(f) = file'[f] \/ Stale(f)') /\ remote'[NewConn(f)] # "fresh"
      BY <1>1, <1>2 DEF UseInv, EntriesUsed, Stale, Worker
<1>6. QED
      BY <1>3, <1>4, <1>5 DEF UseInv, WorkersUse, PeersUse, EntriesUsed, OfConn, NewConn

LEMMA UseInit == Init => UseInv
<1> SUFFICES ASSUME Init PROVE UseInv
    OBVIOUS
<1>1. /\ \A w \in Worker : worker[w].pc = "idle"
      /\ \A t \in Conn : peer[t].pc = "none"
      /\ \A f \in Fd : OfConn(f) = None
      BY DEF Init, IdleWorker, NoPeer, OfConn, NoEntry
<1>2. QED
      BY <1>1 DEF UseInv, WorkersUse, PeersUse, EntriesUsed, Lives, Before

LEMMA UseStep ==
    ASSUME HeldInv, UseInv, [Next]_vars, [~HealthNext]_vars PROVE UseInv'
<1>1. TypeOK /\ TypeOK' /\ "main" \in Worker
      BY TypeStep DEF HeldInv, Worker
<1>2. CASE MainNext
      BY <1>1, <1>2, MainUses, StartsKeeps, ProceedsKeeps, LeavesKeeps, ForgetsKeeps,
         StartingKeeps, RestsKeeps
<1>3. ASSUME NEW w \in Worker, OutNext(w) PROVE UseInv'
      BY <1>1, <1>3, OutUses, StartsKeeps, ProceedsKeeps, LeavesKeeps, StartingKeeps
<1>4. ASSUME NEW t \in Conn, PeerNext(t) \/ RemoteClose(t) PROVE UseInv'
      BY <1>1, <1>4, PeerUses, PeerStepsKeep, RestsKeeps
<1>5. CASE UNCHANGED vars
      <2>1. Rests
            BY <1>5 DEF vars, Rests, SamePeers, SameFresh, SameFiles, SameConns, OfConn, NewConn
      <2>2. QED
            BY <1>1, <2>1, RestsKeeps
<1>6. QED
      BY <1>2, <1>3, <1>4, <1>5 DEF Next

(* A thread cleans up another connection's entry only because the health   *)
(* monitor closed a descriptor under it: as long as no sweep drops a       *)
(* connection, a clean-up finds its own entry or none, whatever else       *)
(* accepts, handshakes, rejects and closes at the same time.               *)
THEOREM OnlySweepsMixUp ==
    Spec /\ [][~HealthNext]_vars => []CleanupErasesOwn
<1>1. HeldInv /\ UseInv => CleanupErasesOwn
      <2> SUFFICES ASSUME HeldInv, UseInv, NEW t \in Conn,
                          peer[t].pc = "cleanup", Present(peer[t].fd)
                   PROVE  servers[peer[t].fd].conn = t
          BY DEF CleanupErasesOwn
      <2>1. Lives(t)
            BY DEF Lives
      <2>2. QED
            BY <2>1 DEF UseInv, PeersUse, OfConn, Present
<1>2. HeldInv /\ UseInv /\ [Next]_vars /\ [~HealthNext]_vars => HeldInv' /\ UseInv'
      BY HeldStep, UseStep
<1>3. QED
      BY <1>1, <1>2, HeldInit, UseInit, PTL DEF Spec
=============================================================================
