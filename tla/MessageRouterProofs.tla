------------------------- MODULE MessageRouterProofs -------------------------
(***************************************************************************)
(* Theorems about MessageRouter, for any number of peer threads,           *)
(* descriptors, groups and messages.                                       *)
(***************************************************************************)
EXTENDS MessageRouter, FiniteSetTheorems, TLAPS

-----------------------------------------------------------------------------
(* The invariant: types, and what a handler has found is what it looks     *)
(* for: the group it looks up is one, and the connection a forward will    *)
(* use is of the message's destination, unless its peer took another id.   *)
LooksUp(a) == doing[a].pc \in {"look", "pop"} => doing[a].for \in Dest
Aims(a)    == /\ doing[a].pc \in {"forward", "renamed"} => doing[a].target \in Fd
              /\ doing[a].pc = "forward" => entry[doing[a].target].group = doing[a].msg.to
Holds(a)   == doing[a].pc \in Sending \cup {"reply"}
                 => doing[a].msg \in Msg

HandlersInv == \A a \in Actor : LooksUp(a) /\ Aims(a) /\ Holds(a)

RouterInv == TypeOK /\ HandlersInv

LEMMA Parts ==
    /\ \A m \in Msg : m.to \in Dest /\ m.to # None
    /\ None \notin Dest \cup Fd \cup Thread \cup Msg
    /\ "main" \in Actor /\ Thread \subseteq Actor
BY RouterAssumption DEF Dest, Actor

LEMMA IdleIsDoing == Idle \in Doing /\ \A f \in Fd \cup {None} : [Idle EXCEPT !.fd = f] \in Doing
BY DEF Idle, Doing, Pc, Sending

LEMMA RouterInit == Init => RouterInv
<1> SUFFICES ASSUME Init PROVE RouterInv
    OBVIOUS
<1>1. doing \in [Actor -> Doing] /\ \A a \in Actor : doing[a].pc = "idle"
      BY IdleIsDoing DEF Init, Idle
<1>2. HandlersInv
      BY <1>1 DEF HandlersInv, LooksUp, Aims, Holds, Sending
<1>3. entry \in [Fd -> [group : Group \cup {None}, thread : Thread \cup {None}]]
      BY DEF Init, NoEntry
<1>4. queue \in [Dest -> Seq(Msg)] /\ stored \in Seq(Msg) /\ reads \in Seq(Msg)
      BY DEF Init
<1>5. /\ undefined \in BOOLEAN /\ spent \in [Msg -> Nat]
      /\ broken \in SUBSET Fd /\ accepted \in SUBSET Msg /\ crossed \in SUBSET Msg
      /\ delivered \in SUBSET Msg /\ reached \in SUBSET Msg
      BY DEF Init
<1>6. QED
      BY <1>1, <1>2, <1>3, <1>4, <1>5 DEF TypeOK, RouterInv, HandlersInv, Holds, Sending

-----------------------------------------------------------------------------
(* A step of one actor: the others do what they did. *)
LEMMA OneActor ==
    ASSUME RouterInv, NEW a \in Actor, NEW d \in Doing, Becomes(a, d),
           UNCHANGED entry,
           d.pc \in {"look", "pop"} => d.for \in Dest,
           d.pc \in {"forward", "renamed"} => d.target \in Fd,
           d.pc = "forward" => entry[d.target].group = d.msg.to,
           d.pc \in Sending \cup {"reply"} => d.msg \in Msg
    PROVE  doing' \in [Actor -> Doing] /\ HandlersInv'
<1>1. doing \in [Actor -> Doing]
      BY DEF RouterInv, TypeOK
<1>2. doing' = [doing EXCEPT ![a] = d]
      BY DEF Becomes
<1>3. doing'[a] = d /\ \A b \in Actor \ {a} : doing'[b] = doing[b]
      BY <1>1, <1>2
<1>4. ASSUME NEW b \in Actor \ {a} PROVE LooksUp(b)' /\ Aims(b)' /\ Holds(b)'
      BY <1>3, <1>4 DEF RouterInv, HandlersInv, LooksUp, Aims, Holds, Sending
<1>5. LooksUp(a)' /\ Aims(a)' /\ Holds(a)'
      BY <1>3 DEF LooksUp, Aims, Holds, Sending
<1>6. QED
      BY <1>1, <1>2, <1>4, <1>5 DEF HandlersInv

(* A handler that returns looks for nothing. *)
LEMMA ReturnStep ==
    ASSUME RouterInv, NEW a \in Actor, Returns(a), UNCHANGED entry
    PROVE  doing' \in [Actor -> Doing] /\ HandlersInv'
<1> DEFINE d == IF a # "main" /\ Owns(a) THEN [Idle EXCEPT !.fd = doing[a].fd] ELSE Idle
<1>1. doing[a].fd \in Fd \cup {None}
      BY DEF RouterInv, TypeOK, Doing
<1>2. d \in Doing /\ d.pc = "idle"
      BY <1>1, IdleIsDoing DEF Idle
<1>3. Becomes(a, d)
      BY DEF Returns
<1> HIDE DEF d
<1>4. QED
      BY <1>2, <1>3, OneActor DEF Sending

LEMMA GoStep ==
    ASSUME RouterInv, NEW a \in Actor, NEW pc \in {"pop", "store"}, Goes(a, pc), UNCHANGED entry,
           pc = "pop" => doing[a].pc = "look",
           pc = "store" => doing[a].pc \in Sending
    PROVE  doing' \in [Actor -> Doing] /\ HandlersInv'
<1> DEFINE d == [doing[a] EXCEPT !.pc = pc]
<1>1. d \in Doing /\ d.pc = pc /\ d.for = doing[a].for /\ d.msg = doing[a].msg
      BY DEF RouterInv, TypeOK, Doing, Pc, Sending
<1>2. Becomes(a, d)
      BY DEF Goes
<1>3. (pc = "pop" => doing[a].for \in Dest) /\ (pc = "store" => doing[a].msg \in Msg)
      BY DEF RouterInv, HandlersInv, LooksUp, Holds, Sending
<1> HIDE DEF d
<1>4. QED
      BY <1>1, <1>2, <1>3, OneActor DEF Sending

-----------------------------------------------------------------------------
LEMMA MissedOnes == RouterInv => \A g : Missed(g) \in SUBSET Msg
BY DEF RouterInv, HandlersInv, Holds, Sending, Missed

LEMMA ConnectStep ==
    ASSUME RouterInv, NEW t \in Thread, NEW f \in Fd, NEW g \in Group, Connect(t, f, g)
    PROVE  RouterInv'
<1> DEFINE d == [Idle EXCEPT !.fd = f]
<1>1. d \in Doing /\ d.pc = "idle" /\ t \in Actor
      BY IdleIsDoing, Parts DEF Idle
<1>2. doing' = [doing EXCEPT ![t] = d] /\ entry' = [entry EXCEPT ![f] = [group |-> g, thread |-> t]]
      BY DEF Connect, Becomes
<1>3. doing \in [Actor -> Doing] /\ entry[f].group = None
      BY DEF RouterInv, TypeOK, Connect, NoEntry
<1> HIDE DEF d
<1>4. doing' \in [Actor -> Doing]
      BY <1>1, <1>2, <1>3
<1>5. ASSUME NEW b \in Actor PROVE LooksUp(b)' /\ Aims(b)' /\ Holds(b)'
      <2>1. CASE b = t
            BY <1>1, <1>2, <1>3, <2>1 DEF LooksUp, Aims, Holds, Sending
      <2>2. CASE b # t
            <3>1. doing'[b] = doing[b] /\ LooksUp(b) /\ Aims(b) /\ Holds(b)
                  BY <1>2, <1>3, <2>2 DEF RouterInv, HandlersInv
            <3>2. ASSUME doing[b].pc = "forward" PROVE Aims(b)'
                  <4>1. doing[b].target # f /\ doing[b].target \in Fd
                        BY <1>3, <3>1, <3>2, Parts DEF Aims, Holds, Sending
                  <4>2. entry'[doing[b].target] = entry[doing[b].target]
                        BY <1>2, <3>1, <3>2, <4>1 DEF Aims, RouterInv, TypeOK
                  <4>3. QED
                        BY <3>1, <4>2 DEF Aims
            <3>3. Aims(b)'
                  BY <3>1, <3>2 DEF Aims
            <3>4. QED
                  BY <3>1, <3>3 DEF LooksUp, Holds, Sending
      <2>3. QED
            BY <2>1, <2>2
<1>6. entry' \in [Fd -> [group : Group \cup {None}, thread : Thread \cup {None}]]
      BY <1>2 DEF RouterInv, TypeOK
<1>7. /\ UNCHANGED <<broken, queue, undefined, accepted, spent, delivered, reached, stored, reads>>
      /\ crossed' \in SUBSET Msg
      BY MissedOnes DEF Connect, RouterInv, TypeOK
<1>8. QED
      BY <1>4, <1>5, <1>6, <1>7 DEF RouterInv, TypeOK, HandlersInv, Holds, Sending

LEMMA RenameStep ==
    ASSUME RouterInv, NEW t \in Thread, NEW g \in Group, Rename(t, g)
    PROVE  RouterInv'
<1> DEFINE f == doing[t].fd
<1>1. /\ entry' = [entry EXCEPT ![f] = [group |-> g, thread |-> t]]
      /\ doing' = [a \in Actor |-> IF Found(a, f) THEN [doing[a] EXCEPT !.pc = "renamed"]
                                   ELSE doing[a]]
      BY DEF Rename
<1>2. f \in Fd
      BY Parts DEF Rename, Owns, RouterInv, TypeOK, Doing
<1> HIDE DEF f
<1>3. entry' \in [Fd -> [group : Group \cup {None}, thread : Thread \cup {None}]]
      BY <1>1 DEF RouterInv, TypeOK
<1>4. ASSUME NEW a \in Actor PROVE doing'[a] \in Doing /\ LooksUp(a)' /\ Aims(a)' /\ Holds(a)'
      <2>0. doing[a] \in Doing /\ LooksUp(a) /\ Aims(a) /\ Holds(a)
            BY DEF RouterInv, TypeOK, HandlersInv
      <2>1. CASE Found(a, f)
            <3>1. doing'[a] = [doing[a] EXCEPT !.pc = "renamed"] /\ doing[a].pc \in {"forward", "renamed"}
                  BY <1>1, <2>1 DEF Found
            <3>2. /\ doing'[a] \in Doing /\ doing'[a].pc = "renamed"
                  /\ doing'[a].msg = doing[a].msg /\ doing'[a].target = doing[a].target
                  BY <2>0, <3>1 DEF Doing, Pc, Sending
            <3>3. QED
                  BY <2>0, <3>1, <3>2 DEF LooksUp, Aims, Holds, Sending
      <2>2. CASE ~Found(a, f)
            <3>1. doing'[a] = doing[a]
                  BY <1>1, <2>2
            <3>2. doing[a].pc = "forward" => entry'[doing[a].target] = entry[doing[a].target]
                  BY <1>1, <2>0, <2>2 DEF RouterInv, TypeOK, Aims, Found
            <3>3. QED
                  BY <2>0, <3>1, <3>2 DEF LooksUp, Aims, Holds, Sending
      <2>3. QED
            BY <2>1, <2>2
<1>5. doing' \in [Actor -> Doing]
      BY <1>1, <1>4
<1>6. /\ UNCHANGED <<broken, queue, undefined, accepted, spent, delivered, reached, stored, reads>>
      /\ crossed' \in SUBSET Msg
      BY MissedOnes DEF Rename, RouterInv, TypeOK
<1>7. QED
      BY <1>3, <1>4, <1>5, <1>6 DEF RouterInv, TypeOK, HandlersInv, Holds, Sending

LEMMA BreakStep ==
    ASSUME RouterInv, NEW f \in Fd, Break(f)
    PROVE  RouterInv'
BY DEF Break, RouterInv, TypeOK, HandlersInv, LooksUp, Aims, Holds, Sending, history

LEMMA DisconnectStep ==
    ASSUME RouterInv, NEW f \in Fd, Disconnect(f)
    PROVE  RouterInv'
<1>1. doing' = [a \in Actor |->
                  IF Found(a, f) THEN [doing[a] EXCEPT !.pc = "dangling"]
                  ELSE IF a = entry[f].thread /\ doing[a].pc = "idle" THEN Idle
                  ELSE doing[a]]
      BY DEF Disconnect
<1>2. entry' = [entry EXCEPT ![f] = NoEntry]
      BY DEF Disconnect
<1>3. entry' \in [Fd -> [group : Group \cup {None}, thread : Thread \cup {None}]]
      BY <1>2 DEF RouterInv, TypeOK, NoEntry
<1>4. ASSUME NEW a \in Actor PROVE doing'[a] \in Doing /\ LooksUp(a)' /\ Aims(a)' /\ Holds(a)'
      <2>0. doing[a] \in Doing /\ LooksUp(a) /\ Aims(a) /\ Holds(a)
            BY DEF RouterInv, TypeOK, HandlersInv
      <2>1. CASE Found(a, f)
            <3>1. doing'[a] = [doing[a] EXCEPT !.pc = "dangling"]
                  BY <1>1, <2>1
            <3>2. doing'[a] \in Doing /\ doing'[a].pc = "dangling" /\ doing'[a].msg = doing[a].msg
                  BY <2>0, <3>1 DEF Doing, Pc, Sending
            <3>3. QED
                  BY <2>0, <2>1, <3>2 DEF LooksUp, Aims, Holds, Sending, Found
      <2>2. CASE ~Found(a, f) /\ doing'[a] # doing[a]
            <3>1. doing'[a] = Idle
                  BY <1>1, <2>2
            <3>2. doing'[a].pc = "idle"
                  BY <3>1 DEF Idle
            <3>3. QED
                  BY <3>1, <3>2, IdleIsDoing DEF LooksUp, Aims, Holds, Sending
      <2>3. CASE ~Found(a, f) /\ doing'[a] = doing[a]
            <3>1. doing[a].pc = "forward" => entry'[doing[a].target] = entry[doing[a].target]
                  BY <1>2, <2>0, <2>3 DEF RouterInv, TypeOK, Aims, Found
            <3>2. QED
                  BY <2>0, <2>3, <3>1 DEF LooksUp, Aims, Holds, Sending
      <2>4. QED
            BY <2>1, <2>2, <2>3
<1>5. doing' \in [Actor -> Doing]
      BY <1>1, <1>4
<1>6. UNCHANGED <<queue, undefined, history>> /\ broken' \in SUBSET Fd
      BY DEF Disconnect, RouterInv, TypeOK
<1>7. QED
      BY <1>3, <1>4, <1>5, <1>6 DEF RouterInv, TypeOK, HandlersInv, Holds, Sending, history

LEMMA KeptLonger ==
    ASSUME RouterInv, NEW m \in Msg, Kept(m)
    PROVE  /\ queue' \in [Dest -> Seq(Msg)] /\ stored' \in Seq(Msg)
           /\ \A g \in Dest : queue'[g] = <<>> => queue[g] = <<>>
<1>0. queue \in [Dest -> Seq(Msg)] /\ stored \in Seq(Msg) /\ m.to \in Dest
      BY Parts DEF RouterInv, TypeOK
<1>1. queue' = [queue EXCEPT ![m.to] = Append(queue[m.to], m)]
      BY DEF Kept
<1>2. queue' \in [Dest -> Seq(Msg)]
      BY <1>0, <1>1
<1>3. stored' \in Seq(Msg)
      <2>1. stored' = stored \/ stored' = Append(stored, m)
            BY DEF Kept
      <2>2. CASE stored' = stored
            BY <1>0, <2>2
      <2>3. CASE stored' = Append(stored, m)
            BY <1>0, <2>3
      <2>4. QED
            BY <2>1, <2>2, <2>3
<1>4. ASSUME NEW g \in Dest, queue'[g] = <<>> PROVE queue[g] = <<>>
      <2>1. Append(queue[g], m) # <<>>
            BY <1>0
      <2>2. queue'[g] = queue[g] \/ queue'[g] = Append(queue[g], m)
            BY <1>0, <1>1
      <2>3. QED
            BY <1>4, <2>1, <2>2
<1>5. QED
      BY <1>2, <1>3, <1>4

LEMMA KeepStep ==
    ASSUME RouterInv, NEW t \in Thread, NEW m \in Msg, KeepSendmsg(t, m)
    PROVE  RouterInv'
<1>1. queue' \in [Dest -> Seq(Msg)] /\ stored' \in Seq(Msg)
      BY KeptLonger DEF KeepSendmsg
<1>2. /\ UNCHANGED <<entry, broken, doing, undefined, crossed, spent, delivered, reached, reads>>
      /\ accepted' = accepted \cup {m}
      BY DEF KeepSendmsg
<1>3. HandlersInv'
      BY <1>2 DEF RouterInv, HandlersInv, LooksUp, Aims, Holds, Sending
<1>4. QED
      BY <1>1, <1>2, <1>3 DEF RouterInv, TypeOK, HandlersInv, Holds, Sending

LEMMA ReceiveStep ==
    ASSUME RouterInv, NEW a \in Actor,
           \/ \E m \in Msg : ReceiveSendmsg(a, m)
           \/ \E g \in Dest : ReceiveGetmsgs(a, g)
    PROVE  RouterInv'
<1>0. doing[a] \in Doing
      BY DEF RouterInv, TypeOK
<1>1. ASSUME NEW m \in Msg, ReceiveSendmsg(a, m) PROVE RouterInv'
      <2> DEFINE d == [doing[a] EXCEPT !.pc = "route", !.msg = m]
      <2>1. d \in Doing /\ d.pc = "route" /\ d.msg = m
            BY <1>0 DEF Doing, Pc, Sending
      <2>2. Becomes(a, d)
            BY <1>1 DEF ReceiveSendmsg
      <2> HIDE DEF d
      <2>3. doing' \in [Actor -> Doing] /\ HandlersInv'
            BY <1>1, <2>1, <2>2, OneActor DEF ReceiveSendmsg
      <2>4. QED
            BY <1>1, <2>3 DEF ReceiveSendmsg, RouterInv, TypeOK, HandlersInv, Holds, Sending
<1>2. ASSUME NEW g \in Dest, ReceiveGetmsgs(a, g) PROVE RouterInv'
      <2> DEFINE d == [doing[a] EXCEPT !.pc = "look", !.for = g]
      <2>1. d \in Doing /\ d.pc = "look" /\ d.for = g
            BY <1>0 DEF Doing, Pc, Sending
      <2>2. Becomes(a, d)
            BY <1>2 DEF ReceiveGetmsgs
      <2> HIDE DEF d
      <2>3. doing' \in [Actor -> Doing] /\ HandlersInv'
            BY <1>2, <2>1, <2>2, OneActor DEF ReceiveGetmsgs, Sending
      <2>4. QED
            BY <1>2, <2>3 DEF ReceiveGetmsgs, RouterInv, TypeOK, HandlersInv, Holds, Sending, history
<1>3. QED
      BY <1>1, <1>2

LEMMA SendStep ==
    ASSUME RouterInv, NEW a \in Actor,
           Route(a) \/ Forward(a) \/ ForwardDangling(a) \/ ForwardFails(a) \/ Store(a)
    PROVE  RouterInv'
<1>0. doing[a] \in Doing
      BY DEF RouterInv, TypeOK
<1>1. CASE Route(a)
      <2>1. UNCHANGED <<entry, broken, queue, undefined, history>> /\ doing[a].msg \in Msg
            BY <1>1 DEF Route, At, RouterInv, HandlersInv, Holds, Sending
      <2>2. doing' \in [Actor -> Doing] /\ HandlersInv'
            <3>1. ASSUME NEW f \in Fd, entry[f].group = doing[a].msg.to,
                         Becomes(a, [doing[a] EXCEPT !.pc = "forward", !.target = f])
                  PROVE  doing' \in [Actor -> Doing] /\ HandlersInv'
                  <4> DEFINE d == [doing[a] EXCEPT !.pc = "forward", !.target = f]
                  <4>1. d \in Doing /\ d.pc = "forward" /\ d.target = f /\ d.msg = doing[a].msg
                        BY <1>0 DEF Doing, Pc, Sending
                  <4>2. Becomes(a, d)
                        BY <3>1
                  <4> HIDE DEF d
                  <4>3. QED
                        BY <2>1, <3>1, <4>1, <4>2, OneActor
            <3>2. CASE Goes(a, "store")
                  BY <1>1, <2>1, <3>2, GoStep DEF Route, At, Sending
            <3>3. QED
                  BY <1>1, <3>1, <3>2 DEF Route
      <2>3. QED
            BY <2>1, <2>2 DEF RouterInv, TypeOK, HandlersInv, Holds, Sending, history
<1>2. ASSUME NEW f \in Fd, SentTo(a, f), doing[a].pc \in {"forward", "renamed", "dangling"}
      PROVE  RouterInv'
      <2>1. doing[a].msg \in Msg
            BY <1>2 DEF RouterInv, HandlersInv, Holds, Sending
      <2>2. doing' \in [Actor -> Doing] /\ HandlersInv'
            BY <1>2, ReturnStep DEF SentTo
      <2>3. spent' \in [Msg -> Nat]
            BY <1>2, <2>1 DEF SentTo, RouterInv, TypeOK
      <2>4. reached' \in SUBSET Msg /\ delivered' \in SUBSET Msg
            BY <1>2, <2>1 DEF SentTo, RouterInv, TypeOK
      <2>5. QED
            BY <1>2, <2>2, <2>3, <2>4 DEF SentTo, RouterInv, TypeOK, HandlersInv, Holds, Sending
<1>3. CASE Forward(a)
      <2>1. /\ doing[a].pc \in {"forward", "renamed"} /\ doing[a].target \in Fd
            /\ SentTo(a, doing[a].target)
            BY <1>3 DEF Forward, At, RouterInv, HandlersInv, Aims
      <2>2. QED
            BY <1>2, <2>1
<1>4. CASE ForwardDangling(a)
      BY <1>2, <1>4 DEF ForwardDangling, At
<1>5. CASE ForwardFails(a)
      <2>1. doing' \in [Actor -> Doing] /\ HandlersInv'
            BY <1>5, GoStep DEF ForwardFails, Fails, Sending
      <2>2. QED
            BY <1>5, <2>1 DEF ForwardFails, RouterInv, TypeOK, HandlersInv, Holds, Sending, history
<1>6. CASE Store(a)
      <2> DEFINE m == doing[a].msg
      <2>1. m \in Msg /\ m.to \in Dest
            BY <1>6, Parts DEF Store, At, RouterInv, HandlersInv, Holds, Sending
      <2>2. doing' \in [Actor -> Doing] /\ HandlersInv'
            BY <1>6, ReturnStep DEF Store
      <2>3. Kept(m) /\ UNCHANGED <<entry, broken, undefined, accepted, crossed, delivered, reads>>
            BY <1>6 DEF Store
      <2>4. /\ spent' = [spent EXCEPT ![m] = @ + 1] \/ spent' = spent
            /\ reached' = reached \cup {m} \/ reached' = reached
            BY <1>6 DEF Store
      <2> HIDE DEF m
      <2>5. queue' \in [Dest -> Seq(Msg)] /\ stored' \in Seq(Msg)
            BY <2>1, <2>3, KeptLonger
      <2>6. spent' \in [Msg -> Nat] /\ reached' \in SUBSET Msg
            <3>1. spent \in [Msg -> Nat] /\ reached \in SUBSET Msg
                  BY DEF RouterInv, TypeOK
            <3>2. spent' \in [Msg -> Nat]
                  BY <2>1, <2>4, <3>1
            <3>3. reached' \in SUBSET Msg
                  BY <2>1, <2>4, <3>1
            <3>4. QED
                  BY <3>2, <3>3
      <2>7. QED
            BY <2>2, <2>3, <2>5, <2>6 DEF RouterInv, TypeOK, HandlersInv, Holds, Sending
<1>7. QED
      BY <1>1, <1>3, <1>4, <1>5, <1>6

LEMMA FetchStep ==
    ASSUME RouterInv, NEW a \in Actor, Look(a) \/ Pop(a) \/ Reply(a)
    PROVE  RouterInv'
<1>0. doing[a] \in Doing
      BY DEF RouterInv, TypeOK
<1>1. CASE Look(a)
      <2>1. doing' \in [Actor -> Doing] /\ HandlersInv'
            <3>1. CASE Returns(a)
                  BY <1>1, <3>1, ReturnStep DEF Look
            <3>2. CASE Goes(a, "pop")
                  BY <1>1, <3>2, GoStep DEF Look, At
            <3>3. QED
                  BY <1>1, <3>1, <3>2 DEF Look
      <2>2. QED
            BY <1>1, <2>1 DEF Look, RouterInv, TypeOK, HandlersInv, Holds, Sending, history
<1>2. CASE Pop(a)
      <2> DEFINE g == doing[a].for
                 q == queue[g]
      <2>1. g \in Dest /\ q \in Seq(Msg)
            BY <1>2 DEF Pop, At, RouterInv, HandlersInv, LooksUp, TypeOK
      <2>2. UNCHANGED <<entry, broken, history>>
            BY <1>2 DEF Pop
      <2>3. CASE q = <<>>
            <3>1. undefined' = TRUE /\ UNCHANGED <<doing, queue>>
                  BY <1>2, <2>3 DEF Pop
            <3>2. HandlersInv'
                  BY <2>2, <3>1 DEF RouterInv, HandlersInv, LooksUp, Aims, Holds, Sending
            <3>3. QED
                  BY <2>2, <3>1, <3>2 DEF RouterInv, TypeOK, HandlersInv, Holds, Sending, history
      <2>4. CASE q # <<>>
            <3> DEFINE d == [doing[a] EXCEPT !.pc = "reply", !.msg = Head(q)]
            <3>1. Head(q) \in Msg /\ Tail(q) \in Seq(Msg)
                  BY <2>1, <2>4
            <3>2. Becomes(a, d) /\ queue' = [queue EXCEPT ![g] = Tail(q)] /\ UNCHANGED undefined
                  BY <1>2, <2>4 DEF Pop
            <3>3. d \in Doing /\ d.pc = "reply" /\ d.msg = Head(q)
                  BY <1>0, <3>1 DEF Doing, Pc, Sending
            <3> HIDE DEF d
            <3>4. doing' \in [Actor -> Doing] /\ HandlersInv'
                  BY <2>2, <3>1, <3>2, <3>3, OneActor
            <3>5. queue' \in [Dest -> Seq(Msg)]
                  BY <2>1, <3>1, <3>2 DEF RouterInv, TypeOK
            <3>6. QED
                  BY <2>2, <3>2, <3>4, <3>5 DEF RouterInv, TypeOK, HandlersInv, Holds, Sending, history
      <2>5. QED
            BY <2>3, <2>4
<1>3. CASE Reply(a)
      <2>1. doing[a].msg \in Msg
            BY <1>3 DEF Reply, At, RouterInv, HandlersInv, Holds, Sending
      <2>2. doing' \in [Actor -> Doing] /\ HandlersInv'
            BY <1>3, ReturnStep DEF Reply
      <2>3. spent' \in [Msg -> Nat]
            BY <1>3, <2>1 DEF Reply, RouterInv, TypeOK
      <2>4. reads' = reads \/ reads' = Append(reads, doing[a].msg)
            BY <1>3 DEF Reply
      <2>5. reads' \in Seq(Msg)
            <3>1. reads \in Seq(Msg)
                  BY DEF RouterInv, TypeOK
            <3>2. CASE reads' = reads
                  BY <3>1, <3>2
            <3>3. CASE reads' = Append(reads, doing[a].msg)
                  BY <2>1, <3>1, <3>3
            <3>4. QED
                  BY <2>4, <3>2, <3>3
      <2>6. UNCHANGED <<entry, broken, queue, undefined, accepted, crossed, delivered, reached, stored>>
            BY <1>3 DEF Reply
      <2>7. QED
            BY <2>2, <2>3, <2>5, <2>6 DEF Reply, RouterInv, TypeOK, HandlersInv, Holds, Sending
<1>4. QED
      BY <1>1, <1>2, <1>3

LEMMA RouterKept == Spec => []RouterInv
<1>1. RouterInv /\ UNCHANGED vars => RouterInv'
      BY DEF RouterInv, TypeOK, HandlersInv, LooksUp, Aims, Holds, Sending, vars, history
<1>2. RouterInv /\ [Next]_vars => RouterInv'
      BY <1>1, ConnectStep, RenameStep, BreakStep, DisconnectStep, ReceiveStep, KeepStep,
         SendStep, FetchStep DEF Next, Handle
<1>3. QED
      BY <1>2, RouterInit, PTL DEF Spec

-----------------------------------------------------------------------------
(* Every variable has its type: what a handler read before it released the *)
(* mutex never leads it to a message or a queue that is none.              *)
THEOREM TypeCorrect == Spec => []TypeOK
<1>1. RouterInv => TypeOK
      BY DEF RouterInv
<1>2. QED
      BY <1>1, RouterKept, PTL

(* OK,Delivered is the truth unless the connection found by the search     *)
(* ended, or its peer took another id, before the send. *)
THEOREM DeliveredIsTrue == Spec => DeliveredUnlessLost
<1> DEFINE Told == \A m \in Msg : m \in delivered' \ (delivered \cup reached')
                      => doing["main"].pc \in {"dangling", "renamed"}
<1>1. RouterInv /\ Next => Told
      <2> SUFFICES ASSUME RouterInv, Next, NEW m \in Msg,
                          m \in delivered', m \notin delivered, m \notin reached'
                   PROVE  doing["main"].pc \in {"dangling", "renamed"}
          OBVIOUS
      <2>1. ASSUME NEW a \in Actor, NEW f \in Fd, SentTo(a, f)
            PROVE  a = "main" /\ m = doing[a].msg /\ entry[f].group # m.to
            <3>1. /\ delivered' = IF a = "main" THEN delivered \cup {doing[a].msg} ELSE delivered
                  /\ reached' = IF entry[f].group = doing[a].msg.to
                                THEN reached \cup {doing[a].msg} ELSE reached
                  BY <2>1 DEF SentTo
            <3>2. a = "main" /\ m = doing[a].msg
                  BY <3>1
            <3>3. QED
                  BY <3>1, <3>2
      <2>2. ASSUME NEW a \in Actor, Forward(a) PROVE doing["main"].pc \in {"dangling", "renamed"}
            <3>1. /\ doing[a].target \in Fd /\ SentTo(a, doing[a].target)
                  /\ doing[a].pc \in {"forward", "renamed"}
                  /\ doing[a].pc = "forward" => entry[doing[a].target].group = doing[a].msg.to
                  BY <2>2 DEF Forward, At, RouterInv, HandlersInv, Aims
            <3>2. QED
                  BY <2>1, <3>1
      <2>3. ASSUME NEW a \in Actor, ForwardDangling(a) PROVE doing["main"].pc \in {"dangling", "renamed"}
            <3>1. PICK f \in Fd : SentTo(a, f)
                  BY <2>3 DEF ForwardDangling
            <3>2. a = "main"
                  BY <2>1, <3>1
            <3>3. QED
                  BY <2>3, <3>2 DEF ForwardDangling, At
      <2>4. ASSUME NEW a \in Actor, Route(a) \/ ForwardFails(a) \/ Store(a) \/ Look(a) \/ Pop(a) \/ Reply(a)
            PROVE  delivered' = delivered
            BY <2>4 DEF Route, ForwardFails, Store, Look, Pop, Reply, history
      <2>5. ASSUME NEW a \in Actor,
                   \/ \E k \in Msg : ReceiveSendmsg(a, k)
                   \/ \E g \in Dest : ReceiveGetmsgs(a, g)
                   \/ \E t \in Thread, k \in Msg : KeepSendmsg(t, k)
            PROVE  delivered' = delivered
            BY <2>5 DEF ReceiveSendmsg, KeepSendmsg, ReceiveGetmsgs, history
      <2>6. ASSUME \/ \E t \in Thread, f \in Fd, g \in Group : Connect(t, f, g)
                   \/ \E t \in Thread, g \in Group : Rename(t, g)
                   \/ \E f \in Fd : Break(f) \/ Disconnect(f)
            PROVE  delivered' = delivered
            BY <2>6 DEF Connect, Rename, Break, Disconnect, history
      <2>8. Actor # {}
            BY Parts
      <2>7. QED
            BY <2>2, <2>3, <2>4, <2>5, <2>6, <2>8 DEF Next, Handle
<1>2. RouterInv /\ [Next]_vars => [Told]_vars
      BY <1>1
<1>3. QED
      BY <1>2, RouterKept, PTL DEF Spec, DeliveredUnlessLost

-----------------------------------------------------------------------------
(* Pops of an empty queue.  All steps but a look and a pop are calm: they  *)
(* bring no thread to its pop and take nothing from a queue. *)
Calm ==
    /\ \A a \in Actor : doing'[a].pc = "pop" => doing'[a] = doing[a]
    /\ \A g \in Dest : queue'[g] = <<>> => queue[g] = <<>>
    /\ undefined' = undefined

LEMMA OthersPops ==
    ASSUME RouterInv, NEW a \in Actor, NEW d, Becomes(a, d), d.pc # "pop"
    PROVE  \A b \in Actor : doing'[b].pc = "pop" => doing'[b] = doing[b]
<1>1. doing \in [Actor -> Doing] /\ doing' = [doing EXCEPT ![a] = d]
      BY DEF RouterInv, TypeOK, Becomes
<1>2. QED
      BY <1>1

LEMMA ReturnPops ==
    ASSUME RouterInv, NEW a \in Actor, Returns(a)
    PROVE  \A b \in Actor : doing'[b].pc = "pop" => doing'[b] = doing[b]
<1> DEFINE d == IF a # "main" /\ Owns(a) THEN [Idle EXCEPT !.fd = doing[a].fd] ELSE Idle
<1>1. Becomes(a, d) /\ d.pc # "pop"
      BY DEF Returns, Idle
<1> HIDE DEF d
<1>2. QED
      BY <1>1, OthersPops

LEMMA GoPops ==
    ASSUME RouterInv, NEW a \in Actor, Goes(a, "store")
    PROVE  \A b \in Actor : doing'[b].pc = "pop" => doing'[b] = doing[b]
<1> DEFINE d == [doing[a] EXCEPT !.pc = "store"]
<1>1. Becomes(a, d) /\ d.pc # "pop"
      BY DEF Goes, RouterInv, TypeOK, Doing
<1> HIDE DEF d
<1>2. QED
      BY <1>1, OthersPops

LEMMA ConnectionsCalm ==
    ASSUME RouterInv,
           \/ \E t \in Thread, f \in Fd, g \in Group : Connect(t, f, g)
           \/ \E t \in Thread, g \in Group : Rename(t, g)
           \/ \E f \in Fd : Break(f) \/ Disconnect(f)
    PROVE  Calm
<1>1. ASSUME NEW t \in Thread, NEW f \in Fd, NEW g \in Group, Connect(t, f, g) PROVE Calm
      <2> DEFINE d == [Idle EXCEPT !.fd = f]
      <2>1. Becomes(t, d) /\ d.pc # "pop" /\ t \in Actor
            BY <1>1, Parts DEF Connect, Idle
      <2> HIDE DEF d
      <2>2. \A b \in Actor : doing'[b].pc = "pop" => doing'[b] = doing[b]
            BY <2>1, OthersPops
      <2>3. QED
            BY <1>1, <2>2 DEF Connect, Calm
<1>2. ASSUME NEW f \in Fd, Disconnect(f) PROVE Calm
      <2>1. ASSUME NEW a \in Actor, doing'[a].pc = "pop" PROVE doing'[a] = doing[a]
            <3>1. doing[a] \in Doing
                  BY DEF RouterInv, TypeOK
            <3>2. [doing[a] EXCEPT !.pc = "dangling"].pc # "pop" /\ Idle.pc # "pop"
                  BY <3>1 DEF Doing, Idle
            <3>3. doing'[a] \in {[doing[a] EXCEPT !.pc = "dangling"], Idle, doing[a]}
                  BY <1>2 DEF Disconnect
            <3>4. QED
                  BY <2>1, <3>2, <3>3
      <2>2. QED
            BY <1>2, <2>1 DEF Disconnect, Calm
<1>3. ASSUME NEW t \in Thread, NEW g \in Group, Rename(t, g) PROVE Calm
      <2>1. ASSUME NEW a \in Actor, doing'[a].pc = "pop" PROVE doing'[a] = doing[a]
            <3>1. doing[a] \in Doing
                  BY DEF RouterInv, TypeOK
            <3>2. [doing[a] EXCEPT !.pc = "renamed"].pc # "pop"
                  BY <3>1 DEF Doing
            <3>3. doing'[a] \in {[doing[a] EXCEPT !.pc = "renamed"], doing[a]}
                  BY <1>3 DEF Rename
            <3>4. QED
                  BY <2>1, <3>2, <3>3
      <2>2. QED
            BY <1>3, <2>1 DEF Rename, Calm
<1>4. ASSUME NEW f \in Fd, Break(f) PROVE Calm
      BY <1>4 DEF Break, Calm
<1>5. QED
      BY <1>1, <1>2, <1>3, <1>4

LEMMA RequestsCalm ==
    ASSUME RouterInv, NEW a \in Actor,
           \/ \E m \in Msg : ReceiveSendmsg(a, m)
           \/ \E g \in Dest : ReceiveGetmsgs(a, g)
    PROVE  Calm
<1>0. doing[a] \in Doing
      BY DEF RouterInv, TypeOK
<1>1. ASSUME NEW m \in Msg, ReceiveSendmsg(a, m) PROVE Calm
      <2> DEFINE d == [doing[a] EXCEPT !.pc = "route", !.msg = m]
      <2>1. Becomes(a, d) /\ d.pc # "pop"
            BY <1>0, <1>1 DEF ReceiveSendmsg, Doing
      <2> HIDE DEF d
      <2>2. \A b \in Actor : doing'[b].pc = "pop" => doing'[b] = doing[b]
            BY <2>1, OthersPops
      <2>3. QED
            BY <1>1, <2>2 DEF ReceiveSendmsg, Calm
<1>2. ASSUME NEW g \in Dest, ReceiveGetmsgs(a, g) PROVE Calm
      <2> DEFINE d == [doing[a] EXCEPT !.pc = "look", !.for = g]
      <2>1. Becomes(a, d) /\ d.pc # "pop"
            BY <1>0, <1>2 DEF ReceiveGetmsgs, Doing
      <2> HIDE DEF d
      <2>2. \A b \in Actor : doing'[b].pc = "pop" => doing'[b] = doing[b]
            BY <2>1, OthersPops
      <2>3. QED
            BY <1>2, <2>2 DEF ReceiveGetmsgs, Calm
<1>3. QED
      BY <1>1, <1>2

LEMMA KeepsCalm ==
    ASSUME RouterInv, NEW t \in Thread, NEW m \in Msg, KeepSendmsg(t, m)
    PROVE  Calm
<1>1. Kept(m) /\ UNCHANGED <<doing, undefined>>
      BY DEF KeepSendmsg
<1>2. QED
      BY <1>1, KeptLonger DEF Calm

LEMMA SendsCalm ==
    ASSUME RouterInv, NEW a \in Actor,
           \/ Route(a) \/ Forward(a) \/ ForwardDangling(a) \/ ForwardFails(a)
           \/ Store(a) \/ Reply(a)
    PROVE  Calm
<1>0. doing[a] \in Doing
      BY DEF RouterInv, TypeOK
<1>1. CASE Route(a)
      <2>1. ASSUME NEW f \in Fd, Becomes(a, [doing[a] EXCEPT !.pc = "forward", !.target = f])
            PROVE  \A b \in Actor : doing'[b].pc = "pop" => doing'[b] = doing[b]
            <3> DEFINE d == [doing[a] EXCEPT !.pc = "forward", !.target = f]
            <3>1. Becomes(a, d) /\ d.pc # "pop"
                  BY <1>0, <2>1 DEF Doing
            <3> HIDE DEF d
            <3>2. QED
                  BY <3>1, OthersPops
      <2>2. \A b \in Actor : doing'[b].pc = "pop" => doing'[b] = doing[b]
            BY <1>1, <2>1, GoPops DEF Route
      <2>3. QED
            BY <1>1, <2>2 DEF Route, Calm
<1>2. CASE ForwardFails(a)
      <2>1. \A b \in Actor : doing'[b].pc = "pop" => doing'[b] = doing[b]
            BY <1>2, GoPops DEF ForwardFails
      <2>2. QED
            BY <1>2, <2>1 DEF ForwardFails, Calm
<1>3. ASSUME Returns(a) PROVE \A b \in Actor : doing'[b].pc = "pop" => doing'[b] = doing[b]
      BY <1>3, ReturnPops
<1>4. CASE Forward(a) \/ ForwardDangling(a) \/ Reply(a)
      BY <1>3, <1>4 DEF Forward, ForwardDangling, Reply, SentTo, Calm
<1>5. CASE Store(a)
      <2> DEFINE m == doing[a].msg
      <2>1. m \in Msg
            BY <1>5 DEF Store, At, RouterInv, HandlersInv, Holds, Sending
      <2>2. Kept(m) /\ Returns(a) /\ undefined' = undefined
            BY <1>5 DEF Store
      <2> HIDE DEF m
      <2>3. QED
            BY <1>3, <2>1, <2>2, KeptLonger DEF Calm
<1>6. QED
      BY <1>1, <1>2, <1>4, <1>5

(* A handler's pop finds its queue empty only when another handler of the  *)
(* same queue, that had looked too, popped in between; and undefined       *)
(* behaviour has no other cause. *)
THEOREM EmptyQueueIsRaced == Spec => EmptiedOnlyByAnother
<1> DEFINE Raced(a) == \E b \in Actor \ {a} : /\ doing[b].pc = "pop" /\ doing[a].pc = "pop"
                                              /\ doing[b].for = doing[a].for
                                              /\ doing'[b].pc = "reply"
           Caused   == /\ \A a \in Actor : Exposed(a)' /\ ~Exposed(a) => Raced(a)
                       /\ undefined' /\ ~undefined => \E a \in Actor : Exposed(a)
<1>1. ASSUME RouterInv, Calm PROVE Caused
      <2>1. ASSUME NEW a \in Actor, Exposed(a)' PROVE Exposed(a)
            <3>1. doing'[a] = doing[a]
                  BY <1>1, <2>1 DEF Calm, Exposed
            <3>2. doing[a].for \in Dest
                  BY <1>1, <2>1, <3>1 DEF Exposed, RouterInv, HandlersInv, LooksUp
            <3>3. QED
                  BY <1>1, <2>1, <3>1, <3>2 DEF Calm, Exposed
      <2>2. QED
            BY <1>1, <2>1 DEF Calm
<1>2. ASSUME RouterInv, NEW b \in Actor, Look(b) PROVE Caused
      <2>1. UNCHANGED <<queue, undefined>>
            BY <1>2 DEF Look
      <2>2. ASSUME NEW a \in Actor, Exposed(a)' PROVE Exposed(a)
            <3>1. CASE doing'[a] = doing[a]
                  BY <2>1, <2>2, <3>1 DEF Exposed
            <3>2. CASE doing'[a] # doing[a]
                  <4>1. ~Returns(b)
                        BY <1>2, <2>2, <3>2, ReturnPops DEF Exposed
                  <4>2. Goes(b, "pop") /\ queue[doing[b].for] # <<>>
                        BY <1>2, <4>1 DEF Look
                  <4>3. a = b /\ doing'[a].for = doing[a].for
                        BY <1>2, <3>2, <4>2 DEF Goes, Becomes, RouterInv, TypeOK, Doing
                  <4>4. QED
                        BY <2>1, <2>2, <4>2, <4>3 DEF Exposed
            <3>3. QED
                  BY <3>1, <3>2
      <2>3. QED
            BY <2>1, <2>2
<1>3. ASSUME RouterInv, NEW b \in Actor, Pop(b) PROVE Caused
      <2> DEFINE g == doing[b].for
      <2>1. g \in Dest /\ queue[g] \in Seq(Msg) /\ doing[b].pc = "pop"
            BY <1>3 DEF Pop, At, RouterInv, HandlersInv, LooksUp, TypeOK
      <2>2. CASE queue[g] = <<>>
            <3>1. UNCHANGED <<doing, queue>> /\ Exposed(b)
                  BY <1>3, <2>1, <2>2 DEF Pop, Exposed
            <3>2. QED
                  BY <3>1 DEF Exposed
      <2>3. CASE queue[g] # <<>>
            <3> DEFINE d == [doing[b] EXCEPT !.pc = "reply", !.msg = Head(queue[g])]
            <3>1. /\ Becomes(b, d) /\ undefined' = undefined
                  /\ queue' = [queue EXCEPT ![g] = Tail(queue[g])]
                  BY <1>3, <2>3 DEF Pop
            <3>2. d.pc = "reply"
                  BY <1>3 DEF RouterInv, TypeOK, Doing
            <3> HIDE DEF d
            <3>3. doing'[b].pc = "reply" /\ \A a \in Actor \ {b} : doing'[a] = doing[a]
                  BY <1>3, <3>1, <3>2 DEF Becomes, RouterInv, TypeOK
            <3>4. ASSUME NEW a \in Actor, Exposed(a)', ~Exposed(a) PROVE Raced(a)
                  <4>1. a # b /\ doing'[a] = doing[a] /\ doing[a].pc = "pop"
                        BY <3>3, <3>4 DEF Exposed
                  <4>2. doing[a].for \in Dest
                        BY <1>3, <4>1 DEF RouterInv, HandlersInv, LooksUp
                  <4>3. queue'[doing[a].for] # queue[doing[a].for]
                        BY <3>4, <4>1 DEF Exposed
                  <4>4. doing[a].for = g
                        BY <1>3, <3>1, <4>2, <4>3 DEF RouterInv, TypeOK
                  <4>5. QED
                        BY <2>1, <3>3, <4>1, <4>4
            <3>5. QED
                  BY <3>1, <3>4
      <2>4. QED
            BY <2>2, <2>3
<1>4. ASSUME RouterInv, Next PROVE Caused
      <2> HIDE DEF Caused
      <2>1. CASE \/ \E t \in Thread, f \in Fd, g \in Group : Connect(t, f, g)
                 \/ \E t \in Thread, g \in Group : Rename(t, g)
                 \/ \E f \in Fd : Break(f) \/ Disconnect(f)
            BY <1>1, <1>4, <2>1, ConnectionsCalm
      <2>2. ASSUME NEW a \in Actor,
                   \/ \E m \in Msg : ReceiveSendmsg(a, m)
                   \/ \E g \in Dest : ReceiveGetmsgs(a, g)
            PROVE  Caused
            BY <1>1, <1>4, <2>2, RequestsCalm
      <2>3. ASSUME NEW a \in Actor, Handle(a) PROVE Caused
            <3>1. CASE Look(a)
                  BY <1>2, <1>4, <3>1
            <3>2. CASE Pop(a)
                  BY <1>3, <1>4, <3>2
            <3>3. CASE \/ Route(a) \/ Forward(a) \/ ForwardDangling(a) \/ ForwardFails(a)
                       \/ Store(a) \/ Reply(a)
                  BY <1>1, <1>4, <3>3, SendsCalm
            <3>4. QED
                  BY <2>3, <3>1, <3>2, <3>3 DEF Handle
      <2>4. ASSUME NEW t \in Thread, NEW m \in Msg, KeepSendmsg(t, m) PROVE Caused
            BY <1>1, <1>4, <2>4, KeepsCalm
      <2>5. QED
            BY <1>4, <2>1, <2>2, <2>3, <2>4 DEF Next
<1>5. RouterInv /\ [Next]_vars => [Caused]_vars
      BY <1>4
<1>6. QED
      BY <1>5, RouterKept, PTL DEF Spec, EmptiedOnlyByAnother

(* So a server whose queues have one requester at a time would never pop   *)
(* an empty queue: the missing critical section is the only cause. *)
Alone == \A a, b \in Actor :
            /\ doing[a].pc = "pop" /\ doing[b].pc = "pop"
            /\ doing[a].for = doing[b].for
            => a = b

THEOREM OneRequesterIsSafe == Spec /\ []Alone => []NeverUndefined
<1> DEFINE Safe   == ~undefined /\ \A a \in Actor : ~Exposed(a)
           Caused == /\ \A a \in Actor : Exposed(a)' /\ ~Exposed(a) =>
                           \E b \in Actor \ {a} : /\ doing[b].pc = "pop" /\ doing[a].pc = "pop"
                                                  /\ doing[b].for = doing[a].for
                                                  /\ doing'[b].pc = "reply"
                     /\ undefined' /\ ~undefined => \E a \in Actor : Exposed(a)
<1>1. Init => Safe
      BY DEF Init, Idle, Exposed
<1>2. Safe /\ Alone /\ [Caused]_vars => Safe'
      <2>1. ASSUME Safe, Alone, Caused PROVE Safe'
            <3>1. ASSUME NEW a \in Actor, Exposed(a)' PROVE FALSE
                  <4>1. PICK b \in Actor \ {a} : /\ doing[b].pc = "pop" /\ doing[a].pc = "pop"
                                                 /\ doing[b].for = doing[a].for
                        BY <2>1, <3>1
                  <4>2. QED
                        BY <2>1, <4>1 DEF Alone
            <3>2. QED
                  BY <2>1, <3>1
      <2>2. UNCHANGED vars /\ Safe => Safe'
            BY DEF vars, Exposed
      <2>3. QED
            BY <2>1, <2>2
<1>3. Safe => NeverUndefined
      BY DEF NeverUndefined
<1>4. Spec => [][Caused]_vars
      BY EmptyQueueIsRaced DEF EmptiedOnlyByAnother
<1>5. QED
      BY <1>1, <1>2, <1>3, <1>4, PTL DEF Spec

-----------------------------------------------------------------------------
(* What a search missed.  Two connections never have one group, and while  *)
(* a handler that searches no more may keep a message, no live connection  *)
(* is of the message's group unless it came to be after the search.        *)
Late      == {"renamed", "dangling", "store"}
Single    == \A f, h \in Fd : entry[f].group = entry[h].group /\ entry[f].group # None => f = h
Misses(a) == doing[a].pc \in Late /\ doing[a].msg \notin crossed =>
                \A f \in Fd \ broken : entry[f].group # doing[a].msg.to

MissInv == Single /\ \A a \in Actor : Misses(a)

LEMMA MissInit == Init => MissInv
BY DEF Init, Idle, NoEntry, MissInv, Single, Misses, Late

(* Steps that touch no connection. *)
LEMMA MissSame ==
    ASSUME MissInv, UNCHANGED <<doing, entry, broken, crossed>>
    PROVE  MissInv'
BY DEF MissInv, Single, Misses, Late

LEMMA MissOne ==
    ASSUME RouterInv, MissInv, NEW a \in Actor, \A b \in Actor \ {a} : doing'[b] = doing[b],
           UNCHANGED <<entry, broken, crossed>>,
           \/ doing'[a].pc \notin Late
           \/ \A f \in Fd \ broken : entry[f].group # doing'[a].msg.to
    PROVE  MissInv'
<1>1. Misses(a)'
      BY DEF Misses
<1>2. ASSUME NEW b \in Actor \ {a} PROVE Misses(b)'
      BY <1>2 DEF MissInv, Misses
<1>3. QED
      BY <1>1, <1>2 DEF MissInv, Single

(* Group g comes in at f, where there was another or none. *)
LEMMA MissRegister ==
    ASSUME RouterInv, MissInv, NEW f \in Fd, NEW g \in Group, NEW t, Unknown(g),
           entry' = [entry EXCEPT ![f] = [group |-> g, thread |-> t]],
           crossed' = crossed \cup Missed(g), broken' = broken,
           NEW a \in Actor, doing'[a].msg = doing[a].msg,
           \/ doing[a].pc \in Late
           \/ doing'[a].pc \notin Late
           \/ doing[a].pc = "forward" /\ doing[a].target = f
    PROVE  Misses(a)'
<1> SUFFICES ASSUME doing'[a].pc \in Late, doing[a].msg \notin crossed', NEW h \in Fd \ broken
             PROVE  entry'[h].group # doing[a].msg.to
    BY DEF Misses
<1>1. entry \in [Fd -> [group : Group \cup {None}, thread : Thread \cup {None}]]
      BY DEF RouterInv, TypeOK
<1>2. CASE doing[a].pc \in Late
      <2>1. doing[a].msg.to # g
            BY <1>2 DEF Missed, Late
      <2>2. entry[h].group # doing[a].msg.to
            BY <1>2 DEF MissInv, Misses
      <2>3. QED
            BY <1>1, <2>1, <2>2
<1>3. CASE doing[a].pc = "forward" /\ doing[a].target = f
      <2>1. entry[f].group = doing[a].msg.to /\ doing[a].msg.to # None
            BY <1>3, Parts DEF RouterInv, HandlersInv, Aims, Holds, Sending
      <2>2. entry[f].group # g
            BY DEF Unknown
      <2>3. h # f => entry[h].group # doing[a].msg.to
            BY <2>1 DEF MissInv, Single
      <2>4. QED
            BY <1>1, <2>1, <2>2, <2>3
<1>4. QED
      BY <1>2, <1>3

LEMMA MissSingle ==
    ASSUME RouterInv, Single, NEW f \in Fd, NEW g \in Group, NEW t, Unknown(g),
           entry' = [entry EXCEPT ![f] = [group |-> g, thread |-> t]]
    PROVE  Single'
<1>1. entry \in [Fd -> [group : Group \cup {None}, thread : Thread \cup {None}]]
      BY DEF RouterInv, TypeOK
<1>2. \A h \in Fd : entry'[h].group = IF h = f THEN g ELSE entry[h].group
      BY <1>1
<1>3. QED
      BY <1>2 DEF Single, Unknown

LEMMA MissConnections ==
    ASSUME RouterInv, MissInv,
           \/ \E t \in Thread, f \in Fd, g \in Group : Connect(t, f, g)
           \/ \E t \in Thread, g \in Group : Rename(t, g)
           \/ \E f \in Fd : Break(f) \/ Disconnect(f)
    PROVE  MissInv'
<1>0. doing \in [Actor -> Doing] /\ Single
      BY DEF RouterInv, TypeOK, MissInv
<1>1. ASSUME NEW t \in Thread, NEW f \in Fd, NEW g \in Group, Connect(t, f, g)
      PROVE  MissInv'
      <2> DEFINE d == [Idle EXCEPT !.fd = f]
      <2>1. /\ Unknown(g) /\ entry' = [entry EXCEPT ![f] = [group |-> g, thread |-> t]]
            /\ crossed' = crossed \cup Missed(g) /\ broken' = broken
            /\ doing' = [doing EXCEPT ![t] = d]
            BY <1>1 DEF Connect, Becomes
      <2>2. d.pc = "idle"
            BY DEF Idle
      <2> HIDE DEF d
      <2>3. ASSUME NEW a \in Actor PROVE Misses(a)'
            <3>1. CASE a = t
                  <4>1. doing'[a].pc = "idle"
                        BY <1>0, <2>1, <2>2, <3>1
                  <4>2. QED
                        BY <4>1 DEF Misses, Late
            <3>2. CASE a # t
                  <4>1. doing'[a] = doing[a]
                        BY <1>0, <2>1, <3>2
                  <4>2. QED
                        BY <2>1, <4>1, MissRegister
            <3>3. QED
                  BY <3>1, <3>2
      <2>4. Single'
            BY <1>0, <2>1, MissSingle
      <2>5. QED
            BY <2>3, <2>4 DEF MissInv
<1>2. ASSUME NEW t \in Thread, NEW g \in Group, Rename(t, g) PROVE MissInv'
      <2> DEFINE f == doing[t].fd
      <2>1. /\ Unknown(g) /\ entry' = [entry EXCEPT ![f] = [group |-> g, thread |-> t]]
            /\ crossed' = crossed \cup Missed(g) /\ broken' = broken
            /\ doing' = [a \in Actor |-> IF Found(a, f) THEN [doing[a] EXCEPT !.pc = "renamed"]
                                         ELSE doing[a]]
            BY <1>2 DEF Rename
      <2>2. f \in Fd
            BY <1>0, <1>2, Parts DEF Rename, Owns, Doing
      <2> HIDE DEF f
      <2>3. ASSUME NEW a \in Actor PROVE Misses(a)'
            <3>1. doing[a] \in Doing
                  BY <1>0
            <3>2. CASE Found(a, f)
                  <4>1. doing'[a] = [doing[a] EXCEPT !.pc = "renamed"]
                        BY <2>1, <3>2
                  <4>2. doing'[a].msg = doing[a].msg
                        BY <3>1, <4>1 DEF Doing
                  <4>3. doing[a].pc \in Late \/ (doing[a].pc = "forward" /\ doing[a].target = f)
                        BY <3>2 DEF Found, Late
                  <4>4. QED
                        BY <2>1, <2>2, <4>2, <4>3, MissRegister
            <3>3. CASE ~Found(a, f)
                  <4>1. doing'[a] = doing[a]
                        BY <2>1, <3>3
                  <4>2. QED
                        BY <2>1, <2>2, <4>1, MissRegister
            <3>4. QED
                  BY <3>2, <3>3
      <2>4. Single'
            BY <1>0, <2>1, <2>2, MissSingle
      <2>5. QED
            BY <2>3, <2>4 DEF MissInv
<1>3. ASSUME NEW f \in Fd, Break(f) PROVE MissInv'
      BY <1>3 DEF Break, MissInv, Single, Misses, history
<1>4. ASSUME NEW f \in Fd, Disconnect(f) PROVE MissInv'
      <2>1. /\ entry' = [entry EXCEPT ![f] = NoEntry] /\ broken' = broken \ {f} /\ crossed' = crossed
            /\ doing' = [a \in Actor |->
                           IF Found(a, f) THEN [doing[a] EXCEPT !.pc = "dangling"]
                           ELSE IF a = entry[f].thread /\ doing[a].pc = "idle" THEN Idle
                           ELSE doing[a]]
            BY <1>4 DEF Disconnect, history
      <2>2. \A h \in Fd : entry'[h].group = IF h = f THEN None ELSE entry[h].group
            BY <2>1 DEF RouterInv, TypeOK, NoEntry
      <2>3. ASSUME NEW a \in Actor PROVE Misses(a)'
            <3>0. doing[a] \in Doing /\ Aims(a) /\ Holds(a) /\ Misses(a)
                  BY <1>0 DEF RouterInv, HandlersInv, MissInv
            <3>1. CASE Found(a, f)
                  <4>1. doing'[a] = [doing[a] EXCEPT !.pc = "dangling"]
                        BY <2>1, <3>1
                  <4>2. doing'[a].msg = doing[a].msg
                        BY <3>0, <4>1 DEF Doing
                  <4>3. doing[a].msg.to # None
                        BY <3>0, <3>1, Parts DEF Found, Holds, Sending
                  <4>4. CASE doing[a].pc = "renamed"
                        <5>1. doing[a].msg \notin crossed =>
                                 \A h \in Fd \ broken : entry[h].group # doing[a].msg.to
                              BY <3>0, <4>4 DEF Misses, Late
                        <5>2. QED
                              BY <2>1, <2>2, <4>2, <4>3, <5>1 DEF Misses
                  <4>5. CASE doing[a].pc = "forward"
                        <5>1. entry[f].group = doing[a].msg.to
                              BY <3>0, <3>1, <4>5 DEF Aims, Found
                        <5>2. \A h \in Fd \ {f} : entry[h].group # doing[a].msg.to
                              BY <1>0, <4>3, <5>1 DEF Single
                        <5>3. QED
                              BY <2>2, <4>2, <4>3, <5>2 DEF Misses
                  <4>6. QED
                        BY <3>1, <4>4, <4>5 DEF Found
            <3>2. CASE ~Found(a, f) /\ doing'[a] # doing[a]
                  <4>1. doing'[a].pc = "idle"
                        BY <2>1, <3>2 DEF Idle
                  <4>2. QED
                        BY <4>1 DEF Misses, Late
            <3>3. CASE ~Found(a, f) /\ doing'[a] = doing[a]
                  <4>1. doing[a].pc \in Late => doing[a].msg.to # None
                        BY <3>0, Parts DEF Holds, Sending, Late
                  <4>2. QED
                        BY <2>1, <2>2, <3>0, <3>3, <4>1 DEF Misses
            <3>4. QED
                  BY <3>1, <3>2, <3>3
      <2>4. Single'
            BY <1>0, <2>2 DEF Single
      <2>5. QED
            BY <2>3, <2>4 DEF MissInv
<1>5. QED
      BY <1>1, <1>2, <1>3, <1>4

LEMMA MissReceive ==
    ASSUME RouterInv, MissInv, NEW a \in Actor,
           \/ \E m \in Msg : ReceiveSendmsg(a, m)
           \/ \E g \in Dest : ReceiveGetmsgs(a, g)
    PROVE  MissInv'
<1>0. doing \in [Actor -> Doing] /\ doing[a] \in Doing
      BY DEF RouterInv, TypeOK
<1>1. ASSUME NEW d, Becomes(a, d), d.pc \notin Late, UNCHANGED <<entry, broken, crossed>>
      PROVE  MissInv'
      <2>1. doing'[a] = d /\ \A b \in Actor \ {a} : doing'[b] = doing[b]
            BY <1>0, <1>1 DEF Becomes
      <2>2. QED
            BY <1>1, <2>1, MissOne
<1>2. ASSUME NEW k \in Msg, ReceiveSendmsg(a, k) PROVE MissInv'
      <2> DEFINE d == [doing[a] EXCEPT !.pc = "route", !.msg = k]
      <2>1. Becomes(a, d) /\ UNCHANGED <<entry, broken, crossed>>
            BY <1>2 DEF ReceiveSendmsg
      <2>2. d.pc \notin Late
            BY <1>0 DEF Doing, Late
      <2> HIDE DEF d
      <2>3. QED
            BY <1>1, <2>1, <2>2
<1>3. ASSUME NEW g \in Dest, ReceiveGetmsgs(a, g) PROVE MissInv'
      <2> DEFINE d == [doing[a] EXCEPT !.pc = "look", !.for = g]
      <2>1. Becomes(a, d) /\ UNCHANGED <<entry, broken, crossed>>
            BY <1>3 DEF ReceiveGetmsgs, history
      <2>2. d.pc \notin Late
            BY <1>0 DEF Doing, Late
      <2> HIDE DEF d
      <2>3. QED
            BY <1>1, <2>1, <2>2
<1>4. QED
      BY <1>2, <1>3

(* One place.  The invariant says it without counting: at most one thread  *)
(* has the message, at most one slot of its queue, not both, and it has    *)
(* left the server once if it was accepted and is in neither; a crossed    *)
(* one may have left once more, but not before it was kept.  It needs that *)
(* a thread without a message in hand has None there, and that a queue     *)
(* holds what is for its group, or a pop could take a message from a queue *)
(* that is not its own. *)
Has(a, m)  == doing[a].msg = m
Slot(i, m) == i \in DOMAIN queue[m.to] /\ queue[m.to][i] = m
InHand(m)  == \E a \in Actor : Has(a, m)
InQueue(m) == \E i \in Nat : Slot(i, m)
Waits(m)   == \E a \in Actor : Has(a, m) /\ doing[a].pc \in Sending

OneHand(m) == \A a, b \in Actor : Has(a, m) /\ Has(b, m) => a = b
OneSlot(m) == \A i, j \in Nat : Slot(i, m) /\ Slot(j, m) => i = j
Gone(m)    == IF m \in accepted /\ ~InHand(m) /\ ~InQueue(m) THEN 1 ELSE 0
Placed(m) ==
    /\ OneHand(m) /\ OneSlot(m)
    /\ ~(InHand(m) /\ InQueue(m))
    /\ InHand(m) \/ InQueue(m) \/ m \in crossed => m \in accepted
    /\ spent[m] = Gone(m) \/ (m \in crossed /\ ~Waits(m) /\ spent[m] = Gone(m) + 1)

EmptyHands == \A a \in Actor : doing[a].pc \in {"idle", "look", "pop"} => doing[a].msg = None
Sorted     == \A g \in Dest : \A i \in DOMAIN queue[g] : queue[g][i].to = g

PlaceInv == RouterInv /\ EmptyHands /\ Sorted /\ \A m \in Msg : Placed(m)

LEMMA PlaceInit == Init => PlaceInv
<1> SUFFICES ASSUME Init PROVE PlaceInv
    OBVIOUS
<1>1. \A a \in Actor : doing[a].msg = None
      BY DEF Init, Idle
<1>2. EmptyHands /\ Sorted
      BY <1>1 DEF Init, EmptyHands, Sorted
<1>3. ASSUME NEW m \in Msg PROVE Placed(m)
      <2>1. \A a \in Actor : ~Has(a, m)
            BY <1>1, Parts DEF Has
      <2>2. \A i \in Nat : ~Slot(i, m)
            BY Parts DEF Init, Slot
      <2>3. m \notin accepted /\ m \notin crossed /\ spent[m] = 0
            BY DEF Init
      <2>4. QED
            BY <2>1, <2>2, <2>3 DEF Placed, OneHand, OneSlot, InHand, InQueue, Gone
<1>4. QED
      BY <1>2, <1>3, RouterInit DEF PlaceInv

(* What a handler does to its hand. *)
LEMMA HandReturns ==
    ASSUME RouterInv, NEW a \in Actor, Returns(a)
    PROVE  /\ doing'[a].msg = None /\ doing'[a].pc = "idle"
           /\ \A b \in Actor \ {a} : doing'[b] = doing[b]
<1> DEFINE d == IF a # "main" /\ Owns(a) THEN [Idle EXCEPT !.fd = doing[a].fd] ELSE Idle
<1>1. d.msg = None /\ d.pc = "idle"
      BY DEF Idle
<1>2. doing' = [doing EXCEPT ![a] = d]
      BY DEF Returns, Becomes
<1> HIDE DEF d
<1>3. QED
      BY <1>1, <1>2 DEF RouterInv, TypeOK

LEMMA HandGoes ==
    ASSUME RouterInv, NEW a \in Actor, NEW pc, Goes(a, pc)
    PROVE  /\ doing'[a].pc = pc /\ doing'[a].msg = doing[a].msg /\ doing'[a].for = doing[a].for
           /\ \A b \in Actor \ {a} : doing'[b] = doing[b]
<1>1. doing[a] \in Doing /\ doing \in [Actor -> Doing]
      BY DEF RouterInv, TypeOK
<1> DEFINE d == [doing[a] EXCEPT !.pc = pc]
<1>2. d.pc = pc /\ d.msg = doing[a].msg /\ d.for = doing[a].for
      BY <1>1 DEF Doing
<1>3. doing' = [doing EXCEPT ![a] = d]
      BY DEF Goes, Becomes
<1> HIDE DEF d
<1>4. QED
      BY <1>1, <1>2, <1>3

LEMMA MissHandle ==
    ASSUME RouterInv, MissInv, NEW a \in Actor, Handle(a)
    PROVE  MissInv'
<1>0. doing \in [Actor -> Doing] /\ doing[a] \in Doing
      BY DEF RouterInv, TypeOK
<1>1. ASSUME Returns(a), UNCHANGED <<entry, broken, crossed>> PROVE MissInv'
      BY <1>1, HandReturns, MissOne DEF Late
<1>2. ASSUME Goes(a, "store"), UNCHANGED <<entry, broken, crossed>>,
             \A f \in Fd \ broken : entry[f].group # doing[a].msg.to
      PROVE  MissInv'
      BY <1>2, HandGoes, MissOne
<1>3. ASSUME Goes(a, "pop"), UNCHANGED <<entry, broken, crossed>> PROVE MissInv'
      BY <1>3, HandGoes, MissOne DEF Late
<1>4. CASE Route(a)
      <2>1. UNCHANGED <<entry, broken, crossed>>
            BY <1>4 DEF Route, history
      <2>2. ASSUME NEW f \in Fd, Becomes(a, [doing[a] EXCEPT !.pc = "forward", !.target = f])
            PROVE  MissInv'
            <3> DEFINE d == [doing[a] EXCEPT !.pc = "forward", !.target = f]
            <3>1. d.pc \notin Late
                  BY <1>0 DEF Doing, Late
            <3>2. doing' = [doing EXCEPT ![a] = d]
                  BY <2>2 DEF Becomes
            <3> HIDE DEF d
            <3>3. doing'[a] = d /\ \A b \in Actor \ {a} : doing'[b] = doing[b]
                  BY <1>0, <3>2
            <3>4. QED
                  BY <2>1, <3>1, <3>3, MissOne
      <2>3. QED
            BY <1>2, <1>4, <2>1, <2>2 DEF Route, Unknown
<1>5. CASE Forward(a) \/ ForwardDangling(a)
      <2>1. PICK f : SentTo(a, f)
            BY <1>5 DEF Forward, ForwardDangling
      <2>2. QED
            BY <1>1, <2>1 DEF SentTo
<1>6. CASE ForwardFails(a)
      <2>1. Goes(a, "store") /\ Fails(a) /\ UNCHANGED <<entry, broken, crossed>>
            BY <1>6 DEF ForwardFails, history
      <2>2. Aims(a) /\ Holds(a) /\ Misses(a) /\ Single
            BY DEF RouterInv, HandlersInv, MissInv
      <2>3. CASE doing[a].pc = "forward"
            <3>1. /\ doing[a].target \in Fd \cap broken /\ doing[a].msg.to # None
                  /\ entry[doing[a].target].group = doing[a].msg.to
                  BY <2>1, <2>2, <2>3, Parts DEF Fails, Aims, Holds, Sending
            <3>2. \A f \in Fd \ broken : entry[f].group # doing[a].msg.to
                  BY <2>2, <3>1 DEF Single
            <3>3. QED
                  BY <1>2, <2>1, <3>2
      <2>4. CASE doing[a].pc # "forward"
            <3>1. doing[a].pc \in Late
                  BY <2>1, <2>4 DEF Fails, Late
            <3>2. /\ doing'[a].msg = doing[a].msg /\ doing'[a].pc = "store"
                  /\ \A b \in Actor \ {a} : doing'[b] = doing[b]
                  BY <2>1, HandGoes
            <3>3. Misses(a)'
                  BY <2>1, <2>2, <3>1, <3>2 DEF Misses
            <3>4. ASSUME NEW b \in Actor \ {a} PROVE Misses(b)'
                  BY <2>1, <3>2, <3>4 DEF MissInv, Misses
            <3>5. QED
                  BY <2>1, <2>2, <3>3, <3>4 DEF MissInv, Single
      <2>5. QED
            BY <2>3, <2>4
<1>7. CASE Store(a) \/ Reply(a)
      BY <1>1, <1>7 DEF Store, Reply
<1>8. CASE Look(a)
      BY <1>1, <1>3, <1>8 DEF Look, history
<1>9. CASE Pop(a)
      <2>1. UNCHANGED <<entry, broken, crossed>>
            BY <1>9 DEF Pop, history
      <2>2. CASE UNCHANGED doing
            BY <2>1, <2>2, MissSame
      <2>3. CASE Becomes(a, [doing[a] EXCEPT !.pc = "reply", !.msg = Head(queue[doing[a].for])])
            <3> DEFINE d == [doing[a] EXCEPT !.pc = "reply", !.msg = Head(queue[doing[a].for])]
            <3>1. d.pc \notin Late
                  BY <1>0 DEF Doing, Late
            <3>2. doing' = [doing EXCEPT ![a] = d]
                  BY <2>3 DEF Becomes
            <3> HIDE DEF d
            <3>3. doing'[a] = d /\ \A b \in Actor \ {a} : doing'[b] = doing[b]
                  BY <1>0, <3>2
            <3>4. QED
                  BY <2>1, <3>1, <3>3, MissOne
      <2>4. QED
            BY <1>9, <2>2, <2>3 DEF Pop
<1>10. QED
       BY <1>4, <1>5, <1>6, <1>7, <1>8, <1>9 DEF Handle

LEMMA MissKept == Spec => []MissInv
<1>1. MissInv /\ UNCHANGED vars => MissInv'
      BY MissSame DEF vars, history
<1>2. ASSUME RouterInv, MissInv, Next PROVE MissInv'
      <2>1. ASSUME NEW t \in Thread, NEW m \in Msg, KeepSendmsg(t, m) PROVE MissInv'
            BY <1>2, <2>1, MissSame DEF KeepSendmsg
      <2>2. QED
            BY <1>2, <2>1, MissConnections, MissReceive, MissHandle DEF Next
<1>3. RouterInv /\ MissInv /\ [Next]_vars => MissInv'
      BY <1>1, <1>2
<1>4. QED
      BY <1>3, MissInit, RouterKept, PTL DEF Spec

(* The things that happen to messages: nothing, one is received, sent,     *)
(* kept, or taken out of its queue. *)
LEMMA NothingMoves ==
    ASSUME PlaceInv, \A b \in Actor : /\ doing'[b].msg = doing[b].msg
                                      /\ doing'[b].pc \in Sending /\ doing[b].msg \in Msg
                                            => doing[b].pc \in Sending,
           crossed \subseteq crossed', \A m \in crossed' \ crossed : m \in accepted,
           UNCHANGED <<queue, spent, accepted>>
    PROVE  Sorted' /\ \A m \in Msg : Placed(m)'
<1>1. \A m \in Msg : Placed(m)
      BY DEF PlaceInv
<1>2. \A m \in Msg : \A b \in Actor : Has(b, m)' <=> Has(b, m)
      BY DEF Has
<1>3. \A m \in Msg : \A i \in Nat : Slot(i, m)' <=> Slot(i, m)
      BY DEF Slot
<1>4. \A m \in Msg : Waits(m)' => Waits(m)
      BY DEF Waits, Has
<1>5. \A m \in Msg : (InHand(m)' <=> InHand(m)) /\ (InQueue(m)' <=> InQueue(m))
      BY <1>2, <1>3 DEF InHand, InQueue
<1>6. \A m \in Msg : Gone(m)' = Gone(m)
      BY <1>5 DEF Gone
<1>7. \A m \in Msg : Placed(m)'
      BY <1>1, <1>2, <1>3, <1>4, <1>5, <1>6 DEF Placed, OneHand, OneSlot
<1>8. QED
      BY <1>7 DEF PlaceInv, Sorted

(* A message that no step of this kind touches. *)
LEMMA Untouched ==
    ASSUME NEW m \in Msg, Placed(m),
           \A b \in Actor : Has(b, m)' <=> Has(b, m),
           InQueue(m)' <=> InQueue(m), OneSlot(m)',
           \A b \in Actor : doing'[b] = doing[b] \/ ~Has(b, m)',
           spent'[m] = spent[m], m \in accepted' <=> m \in accepted, crossed' = crossed
    PROVE  Placed(m)'
<1>1. Waits(m)' => Waits(m)
      BY DEF Waits, Has
<1>2. InHand(m)' <=> InHand(m)
      BY DEF InHand
<1>3. Gone(m)' = Gone(m)
      BY <1>2 DEF Gone
<1>4. QED
      BY <1>1, <1>2, <1>3 DEF Placed, OneHand

LEMMA Received ==
    ASSUME PlaceInv, NEW a \in Actor, NEW k \in Msg, k \notin accepted,
           doing[a].msg = None, doing'[a].msg = k,
           \A b \in Actor \ {a} : doing'[b] = doing[b],
           accepted' = accepted \cup {k}, UNCHANGED <<queue, spent, crossed>>
    PROVE  Sorted' /\ \A m \in Msg : Placed(m)'
<1>1. ASSUME NEW m \in Msg PROVE Placed(m)'
      <2>0. Placed(m)
            BY DEF PlaceInv
      <2>1. \A i \in Nat : Slot(i, m)' <=> Slot(i, m)
            BY DEF Slot
      <2>2. CASE m = k
            <3>1. ~InHand(m) /\ ~InQueue(m) /\ spent[m] = 0
                  BY <2>0, <2>2 DEF Placed, Gone
            <3>2. \A b \in Actor : Has(b, m)' <=> b = a
                  BY <2>2, <3>1 DEF Has, InHand
            <3>3. QED
                  BY <2>1, <2>2, <3>1, <3>2 DEF Placed, OneHand, OneSlot, InHand, InQueue, Gone
      <2>3. CASE m # k
            <3>1. \A b \in Actor : Has(b, m)' <=> Has(b, m)
                  BY <2>3, Parts DEF Has
            <3>2. (InQueue(m)' <=> InQueue(m)) /\ OneSlot(m)'
                  BY <2>0, <2>1 DEF Placed, OneSlot, InQueue
            <3>3. \A b \in Actor : doing'[b] = doing[b] \/ ~Has(b, m)'
                  BY <2>3 DEF Has
            <3>4. QED
                  BY <2>0, <2>3, <3>1, <3>2, <3>3, Untouched
      <2>4. QED
            BY <2>2, <2>3
<1>2. QED
      BY <1>1 DEF PlaceInv, Sorted

LEMMA Sent ==
    ASSUME PlaceInv, NEW a \in Actor, NEW k \in Msg, doing[a].msg = k, doing'[a].msg = None,
           \A b \in Actor \ {a} : doing'[b] = doing[b],
           spent' = [spent EXCEPT ![k] = @ + 1], UNCHANGED <<queue, accepted, crossed>>
    PROVE  Sorted' /\ \A m \in Msg : Placed(m)'
<1>1. ASSUME NEW m \in Msg PROVE Placed(m)'
      <2>0. Placed(m) /\ spent \in [Msg -> Nat]
            BY DEF PlaceInv, RouterInv, TypeOK
      <2>1. \A i \in Nat : Slot(i, m)' <=> Slot(i, m)
            BY DEF Slot
      <2>2. CASE m = k
            <3>1. Has(a, m) /\ InHand(m)
                  BY <2>2 DEF Has, InHand
            <3>2. /\ ~InQueue(m) /\ m \in accepted /\ Gone(m) = 0
                  /\ spent[m] = 0 \/ (m \in crossed /\ spent[m] = 1)
                  BY <2>0, <2>2, <3>1 DEF Placed, Gone
            <3>3. \A b \in Actor : ~Has(b, m)'
                  BY <2>0, <2>2, <3>1, Parts DEF Has, Placed, OneHand
            <3>4. spent'[m] = 1 \/ (m \in crossed /\ spent'[m] = 2)
                  BY <2>0, <2>2, <3>2
            <3>5. ~InHand(m)' /\ ~InQueue(m)' /\ ~Waits(m)'
                  BY <2>1, <3>2, <3>3 DEF InHand, InQueue, Waits
            <3>6. Gone(m)' = 1
                  BY <3>2, <3>5 DEF Gone
            <3>7. QED
                  BY <2>0, <2>1, <3>2, <3>3, <3>4, <3>5, <3>6 DEF Placed, OneHand, OneSlot
      <2>3. CASE m # k
            <3>1. \A b \in Actor : Has(b, m)' <=> Has(b, m)
                  BY <2>3, Parts DEF Has
            <3>2. spent'[m] = spent[m]
                  BY <2>0, <2>3
            <3>3. (InQueue(m)' <=> InQueue(m)) /\ OneSlot(m)'
                  BY <2>0, <2>1 DEF Placed, OneSlot, InQueue
            <3>4. \A b \in Actor : doing'[b] = doing[b] \/ ~Has(b, m)'
                  BY Parts DEF Has
            <3>5. QED
                  BY <2>0, <3>1, <3>2, <3>3, <3>4, Untouched
      <2>4. QED
            BY <2>2, <2>3
<1>2. QED
      BY <1>1 DEF PlaceInv, Sorted

(* The queue of k gains k, which it does not hold. *)
LEMMA Appended ==
    ASSUME PlaceInv, NEW k \in Msg, ~InQueue(k), Kept(k)
    PROVE  /\ \A m \in Msg \ {k} : \A i \in Nat : Slot(i, m)' <=> Slot(i, m)
           /\ InQueue(k)' /\ OneSlot(k)'
           /\ Sorted'
<1> DEFINE q == queue[k.to]
<1>0. q \in Seq(Msg) /\ k.to \in Dest /\ queue \in [Dest -> Seq(Msg)]
      BY Parts DEF PlaceInv, RouterInv, TypeOK
<1>1. queue'[k.to] = Append(q, k) /\ \A g \in Dest \ {k.to} : queue'[g] = queue[g]
      BY <1>0 DEF Kept
<1>2. /\ DOMAIN queue'[k.to] = 1..(Len(q) + 1) /\ DOMAIN q = 1..Len(q) /\ Len(q) \in Nat
      /\ queue'[k.to][Len(q) + 1] = k /\ \A i \in 1..Len(q) : queue'[k.to][i] = q[i]
      BY <1>0, <1>1
<1> HIDE DEF q
<1>3. InQueue(k)' /\ OneSlot(k)'
      <2>1. \A i \in Nat : i \in 1..Len(q) => q[i] # k
            BY <1>2 DEF InQueue, Slot, q
      <2>2. \A i \in Nat : Slot(i, k)' <=> i = Len(q) + 1
            BY <1>2, <2>1 DEF Slot
      <2>3. QED
            BY <1>2, <2>2 DEF InQueue, OneSlot
<1>4. ASSUME NEW m \in Msg \ {k} PROVE \A i \in Nat : Slot(i, m)' <=> Slot(i, m)
      <2>0. m.to \in Dest
            BY Parts
      <2>1. CASE m.to = k.to
            <3>1. ASSUME NEW i \in Nat, i \in 1..Len(q) PROVE Slot(i, m)' <=> Slot(i, m)
                  <4>1. i \in DOMAIN queue'[m.to] /\ i \in DOMAIN queue[m.to]
                        BY <1>2, <2>1, <3>1 DEF q
                  <4>2. queue'[m.to][i] = queue[m.to][i]
                        BY <1>2, <2>1, <3>1 DEF q
                  <4>3. QED
                        BY <4>1, <4>2 DEF Slot
            <3>2. ASSUME NEW i \in Nat, i \notin 1..Len(q) PROVE ~Slot(i, m)' /\ ~Slot(i, m)
                  <4>1. i \notin DOMAIN queue[m.to]
                        BY <1>2, <2>1, <3>2 DEF q
                  <4>2. i \in DOMAIN queue'[m.to] => queue'[m.to][i] = k
                        BY <1>2, <2>1, <3>2
                  <4>3. QED
                        BY <1>4, <4>1, <4>2 DEF Slot
            <3>3. QED
                  BY <3>1, <3>2
      <2>2. CASE m.to # k.to
            BY <1>1, <2>0, <2>2 DEF Slot
      <2>3. QED
            BY <2>1, <2>2
<1>5. ASSUME NEW g \in Dest, NEW i \in DOMAIN queue'[g] PROVE queue'[g][i].to = g
      <2>1. CASE g = k.to /\ i = Len(q) + 1
            BY <1>2, <2>1
      <2>2. CASE g = k.to /\ i # Len(q) + 1
            <3>1. i \in DOMAIN q /\ queue'[g][i] = q[i]
                  BY <1>2, <2>2
            <3>2. \A j \in DOMAIN q : q[j].to = k.to
                  BY <1>0 DEF PlaceInv, Sorted, q
            <3>3. QED
                  BY <2>2, <3>1, <3>2
      <2>3. CASE g # k.to
            BY <1>1, <2>3 DEF PlaceInv, Sorted
      <2>4. QED
            BY <2>1, <2>2, <2>3
<1>6. QED
      BY <1>3, <1>4, <1>5 DEF Sorted

LEMMA Stored ==
    ASSUME PlaceInv, NEW a \in Actor, NEW k \in Msg, doing[a].msg = k, doing[a].pc \in Sending,
           doing'[a].msg = None, \A b \in Actor \ {a} : doing'[b] = doing[b],
           Kept(k), UNCHANGED <<accepted, crossed>>,
           \/ spent' = spent
           \/ spent' = [spent EXCEPT ![k] = @ + 1] /\ k \in crossed
    PROVE  Sorted' /\ \A m \in Msg : Placed(m)'
<1>0. Placed(k) /\ spent \in [Msg -> Nat]
      BY DEF PlaceInv, RouterInv, TypeOK
<1>1. Has(a, k) /\ InHand(k) /\ Waits(k)
      BY DEF Has, InHand, Waits
<1>2. ~InQueue(k) /\ k \in accepted /\ spent[k] = 0
      BY <1>0, <1>1 DEF Placed, Gone
<1>3. /\ \A m \in Msg \ {k} : \A i \in Nat : Slot(i, m)' <=> Slot(i, m)
      /\ InQueue(k)' /\ OneSlot(k)' /\ Sorted'
      BY <1>2, Appended
<1>4. Placed(k)'
      <2>1. \A b \in Actor : ~Has(b, k)'
            BY <1>0, <1>1, Parts DEF Has, Placed, OneHand
      <2>2. spent'[k] = 0 \/ (k \in crossed /\ spent'[k] = 1)
            BY <1>0, <1>2
      <2>3. Gone(k)' = 0
            BY <1>3 DEF Gone
      <2>4. QED
            BY <1>2, <1>3, <2>1, <2>2, <2>3 DEF Placed, OneHand, InHand, Waits
<1>5. ASSUME NEW m \in Msg \ {k} PROVE Placed(m)'
      <2>1. Placed(m)
            BY DEF PlaceInv
      <2>2. \A b \in Actor : Has(b, m)' <=> Has(b, m)
            BY <1>5, Parts DEF Has
      <2>3. spent'[m] = spent[m]
            BY <1>0, <1>5
      <2>4. (InQueue(m)' <=> InQueue(m)) /\ OneSlot(m)'
            BY <1>3, <2>1 DEF Placed, OneSlot, InQueue
      <2>5. \A b \in Actor : doing'[b] = doing[b] \/ ~Has(b, m)'
            BY Parts DEF Has
      <2>6. QED
            BY <2>1, <2>2, <2>3, <2>4, <2>5, Untouched
<1>6. QED
      BY <1>3, <1>4, <1>5

LEMMA StoredAtOnce ==
    ASSUME PlaceInv, NEW k \in Msg, k \notin accepted, accepted' = accepted \cup {k},
           Kept(k), UNCHANGED <<doing, spent, crossed>>
    PROVE  Sorted' /\ \A m \in Msg : Placed(m)'
<1>1. Placed(k)
      BY DEF PlaceInv
<1>2. ~InHand(k) /\ ~InQueue(k) /\ spent[k] = 0
      BY <1>1 DEF Placed, Gone
<1>3. /\ \A m \in Msg \ {k} : \A i \in Nat : Slot(i, m)' <=> Slot(i, m)
      /\ InQueue(k)' /\ OneSlot(k)' /\ Sorted'
      BY <1>2, Appended
<1>4. \A m \in Msg, b \in Actor : Has(b, m)' <=> Has(b, m)
      BY DEF Has
<1>5. Placed(k)'
      <2>1. Gone(k)' = 0
            BY <1>3 DEF Gone
      <2>2. QED
            BY <1>1, <1>2, <1>3, <1>4, <2>1 DEF Placed, OneHand, InHand
<1>6. ASSUME NEW m \in Msg \ {k} PROVE Placed(m)'
      <2>1. Placed(m)
            BY DEF PlaceInv
      <2>2. (InQueue(m)' <=> InQueue(m)) /\ OneSlot(m)'
            BY <1>3, <2>1 DEF Placed, OneSlot, InQueue
      <2>3. QED
            BY <1>4, <1>6, <2>1, <2>2, Untouched
<1>7. QED
      BY <1>3, <1>5, <1>6

LEMMA TakenOut ==
    ASSUME PlaceInv, NEW a \in Actor, NEW g \in Dest, queue[g] # <<>>,
           doing[a].msg = None, doing'[a].msg = Head(queue[g]), doing'[a].pc = "reply",
           \A b \in Actor \ {a} : doing'[b] = doing[b],
           queue' = [queue EXCEPT ![g] = Tail(@)], UNCHANGED <<spent, accepted, crossed>>
    PROVE  Sorted' /\ \A m \in Msg : Placed(m)'
<1> DEFINE q == queue[g]
           k == Head(q)
<1>0. q \in Seq(Msg) /\ queue \in [Dest -> Seq(Msg)]
      BY DEF PlaceInv, RouterInv, TypeOK
<1>1. queue'[g] = Tail(q) /\ \A h \in Dest \ {g} : queue'[h] = queue[h]
      BY <1>0
<1>2. /\ DOMAIN queue'[g] = 1..(Len(q) - 1) /\ DOMAIN q = 1..Len(q) /\ Len(q) \in Nat \ {0}
      /\ k = q[1] /\ k \in Msg /\ \A i \in 1..(Len(q) - 1) : queue'[g][i] = q[i + 1]
      BY <1>0, <1>1
<1>3. k.to = g
      BY <1>2 DEF PlaceInv, Sorted
<1> HIDE DEF q, k
<1>4. ASSUME NEW m \in Msg PROVE Placed(m)'
      <2>0. Placed(m) /\ m.to \in Dest
            BY Parts DEF PlaceInv
      <2>1. CASE m = k
            <3>1. Slot(1, m)
                  BY <1>2, <1>3, <2>1 DEF Slot, q
            <3>2. /\ ~InHand(m) /\ m \in accepted
                  /\ spent[m] = 0 \/ (m \in crossed /\ spent[m] = 1)
                  BY <2>0, <3>1 DEF Placed, InQueue, Gone
            <3>3. \A i \in Nat : ~Slot(i, m)'
                  <4>1. ASSUME NEW i \in 1..(Len(q) - 1) PROVE q[i + 1] # m
                        BY <1>2, <1>3, <2>0, <2>1, <3>1 DEF Placed, OneSlot, Slot, q
                  <4>2. ASSUME NEW i \in Nat, Slot(i, m)' PROVE FALSE
                        <5>1. i \in 1..(Len(q) - 1) /\ queue'[g][i] = m
                              BY <1>2, <1>3, <2>1, <4>2 DEF Slot
                        <5>2. QED
                              BY <1>2, <4>1, <5>1
                  <4>3. QED
                        BY <4>2
            <3>4. \A b \in Actor : Has(b, m)' <=> b = a
                  BY <2>1, <3>2 DEF Has, InHand, k, q
            <3>5. InHand(m)' /\ ~InQueue(m)' /\ ~Waits(m)'
                  BY <3>3, <3>4 DEF InHand, InQueue, Waits, Sending
            <3>6. Gone(m)' = 0
                  BY <3>5 DEF Gone
            <3>7. QED
                  BY <3>2, <3>3, <3>4, <3>5, <3>6 DEF Placed, OneHand, OneSlot
      <2>2. CASE m # k
            <3>1. \A b \in Actor : Has(b, m)' <=> Has(b, m)
                  BY <2>2, Parts DEF Has, k, q
            <3>5. \A b \in Actor : doing'[b] = doing[b] \/ ~Has(b, m)'
                  BY <2>2 DEF Has, k, q
            <3>2. CASE m.to = g
                  <4>1. \A i \in Nat : Slot(i, m)' <=> Slot(i + 1, m)
                        BY <1>2, <2>2, <3>2 DEF Slot, q
                  <4>2. ~Slot(1, m)
                        BY <1>2, <2>2, <3>2 DEF Slot, q
                  <4>3. ~Slot(0, m)
                        BY <1>2, <3>2 DEF Slot, q
                  <4>4. ~Slot(0, m)'
                        BY <1>2, <3>2 DEF Slot
                  <4>5. InQueue(m)' <=> InQueue(m)
                        <5>1. InQueue(m)' => InQueue(m)
                              BY <4>1 DEF InQueue
                        <5>2. ASSUME NEW i \in Nat, Slot(i, m) PROVE InQueue(m)'
                              <6>1. i - 1 \in Nat /\ (i - 1) + 1 = i
                                    BY <4>3, <5>2
                              <6>2. Slot(i - 1, m)'
                                    BY <4>1, <5>2, <6>1
                              <6>3. QED
                                    BY <6>1, <6>2 DEF InQueue
                        <5>3. QED
                              BY <5>1, <5>2 DEF InQueue
                  <4>6. OneSlot(m)'
                        BY <2>0, <4>1 DEF Placed, OneSlot
                  <4>7. QED
                        BY <2>0, <3>1, <3>5, <4>5, <4>6, Untouched
            <3>3. CASE m.to # g
                  <4>1. \A i \in Nat : Slot(i, m)' <=> Slot(i, m)
                        BY <1>1, <2>0, <3>3 DEF Slot
                  <4>2. (InQueue(m)' <=> InQueue(m)) /\ OneSlot(m)'
                        BY <2>0, <4>1 DEF Placed, OneSlot, InQueue
                  <4>3. QED
                        BY <2>0, <3>1, <3>5, <4>2, Untouched
            <3>4. QED
                  BY <3>2, <3>3
      <2>3. QED
            BY <2>1, <2>2
<1>5. ASSUME NEW h \in Dest, NEW i \in DOMAIN queue'[h] PROVE queue'[h][i].to = h
      <2>1. CASE h = g
            <3>1. i + 1 \in DOMAIN q /\ queue'[h][i] = q[i + 1]
                  BY <1>2, <2>1
            <3>2. QED
                  BY <2>1, <3>1 DEF PlaceInv, Sorted, q
      <2>2. CASE h # g
            BY <1>1, <2>2 DEF PlaceInv, Sorted
      <2>3. QED
            BY <2>1, <2>2
<1>6. QED
      BY <1>4, <1>5 DEF Sorted

(* The others' hands do not change: what is left is the thread's own. *)
LEMMA OwnHand ==
    ASSUME PlaceInv, NEW a \in Actor, \A b \in Actor \ {a} : doing'[b] = doing[b],
           doing'[a].pc \in {"idle", "look", "pop"} => doing'[a].msg = None
    PROVE  EmptyHands'
BY DEF PlaceInv, EmptyHands

LEMMA OwnMessage ==
    ASSUME PlaceInv, NEW a \in Actor, \A b \in Actor \ {a} : doing'[b] = doing[b],
           doing'[a].msg = doing[a].msg,
           doing[a].msg = None \/ doing[a].pc \in Sending,
           UNCHANGED <<queue, spent, accepted, crossed>>
    PROVE  Sorted' /\ \A m \in Msg : Placed(m)'
<1>1. \A b \in Actor : /\ doing'[b].msg = doing[b].msg
                       /\ doing'[b].pc \in Sending /\ doing[b].msg \in Msg => doing[b].pc \in Sending
      BY Parts
<1>2. QED
      BY <1>1, NothingMoves

(* Messages that are missed by a search were accepted. *)
LEMMA MissedAccepted ==
    ASSUME PlaceInv, NEW g, crossed' = crossed \cup Missed(g)
    PROVE  \A m \in crossed' \ crossed : m \in accepted
<1> SUFFICES ASSUME NEW a \in Actor, doing[a].pc \in {"renamed", "dangling", "store"}
             PROVE  doing[a].msg \in accepted
    BY DEF Missed
<1>1. doing[a].msg \in Msg
      BY DEF PlaceInv, RouterInv, HandlersInv, Holds, Sending
<1>2. QED
      BY <1>1 DEF PlaceInv, Placed, InHand, Has

LEMMA PlaceConnections ==
    ASSUME PlaceInv,
           \/ \E t \in Thread, f \in Fd, g \in Group : Connect(t, f, g)
           \/ \E t \in Thread, g \in Group : Rename(t, g)
           \/ \E f \in Fd : Break(f) \/ Disconnect(f)
    PROVE  EmptyHands' /\ Sorted' /\ \A m \in Msg : Placed(m)'
<1>0. doing \in [Actor -> Doing] /\ EmptyHands
      BY DEF PlaceInv, RouterInv, TypeOK
<1> DEFINE Keeps(a) == /\ doing'[a].msg = doing[a].msg
                       /\ doing'[a].pc \in {"idle", "look", "pop"} => doing'[a].msg = None
                       /\ doing'[a].pc \in Sending /\ doing[a].msg \in Msg => doing[a].pc \in Sending
<1>1. ASSUME \A a \in Actor : Keeps(a), UNCHANGED <<queue, spent, accepted>>,
             crossed \subseteq crossed', \A m \in crossed' \ crossed : m \in accepted
      PROVE  EmptyHands' /\ Sorted' /\ \A m \in Msg : Placed(m)'
      BY <1>1, NothingMoves DEF EmptyHands
<1>2. ASSUME NEW a \in Actor, doing'[a] = doing[a] PROVE Keeps(a)
      BY <1>0, <1>2 DEF EmptyHands
<1>3. ASSUME NEW a \in Actor, NEW f, Found(a, f), NEW pc \in {"renamed", "dangling"},
             doing'[a] = [doing[a] EXCEPT !.pc = pc]
      PROVE  Keeps(a)
      <2>1. doing[a] \in Doing /\ doing[a].pc \in {"forward", "renamed"}
            BY <1>0, <1>3 DEF Found
      <2>2. doing'[a].msg = doing[a].msg /\ doing'[a].pc = pc
            BY <1>3, <2>1 DEF Doing
      <2>3. QED
            BY <2>1, <2>2 DEF Sending
<1>4. ASSUME NEW a \in Actor, doing[a].pc = "idle", doing'[a].pc = "idle", doing'[a].msg = None
      PROVE  Keeps(a)
      BY <1>0, <1>4 DEF EmptyHands, Sending
<1> HIDE DEF Keeps
<1>5. ASSUME NEW t \in Thread, NEW f \in Fd, NEW g \in Group, Connect(t, f, g)
      PROVE  EmptyHands' /\ Sorted' /\ \A m \in Msg : Placed(m)'
      <2> DEFINE d == [Idle EXCEPT !.fd = f]
      <2>1. d.msg = None /\ d.pc = "idle" /\ t \in Actor
            BY Parts DEF Idle
      <2>2. /\ doing' = [doing EXCEPT ![t] = d] /\ UNCHANGED <<queue, spent, accepted>>
            /\ doing[t].pc = "idle" /\ crossed' = crossed \cup Missed(g)
            BY <1>5 DEF Connect, Becomes, At
      <2> HIDE DEF d
      <2>3. doing'[t] = d /\ \A b \in Actor \ {t} : doing'[b] = doing[b]
            BY <1>0, <2>1, <2>2
      <2>4. ASSUME NEW a \in Actor PROVE Keeps(a)
            BY <1>2, <1>4, <2>1, <2>2, <2>3
      <2>5. QED
            BY <1>1, <2>2, <2>4, MissedAccepted
<1>6. ASSUME NEW t \in Thread, NEW g \in Group, Rename(t, g)
      PROVE  EmptyHands' /\ Sorted' /\ \A m \in Msg : Placed(m)'
      <2>1. /\ doing' = [a \in Actor |-> IF Found(a, doing[t].fd) THEN [doing[a] EXCEPT !.pc = "renamed"]
                                         ELSE doing[a]]
            /\ UNCHANGED <<queue, spent, accepted>> /\ crossed' = crossed \cup Missed(g)
            BY <1>6 DEF Rename
      <2>2. ASSUME NEW a \in Actor PROVE Keeps(a)
            <3>1. CASE Found(a, doing[t].fd)
                  BY <1>3, <2>1, <3>1
            <3>2. CASE ~Found(a, doing[t].fd)
                  BY <1>2, <2>1, <3>2
            <3>3. QED
                  BY <3>1, <3>2
      <2>3. QED
            BY <1>1, <2>1, <2>2, MissedAccepted
<1>7. ASSUME NEW f \in Fd, Break(f)
      PROVE  EmptyHands' /\ Sorted' /\ \A m \in Msg : Placed(m)'
      <2>1. UNCHANGED <<doing, queue, spent, accepted, crossed>>
            BY <1>7 DEF Break, history
      <2>2. QED
            BY <1>1, <1>2, <2>1
<1>8. ASSUME NEW f \in Fd, Disconnect(f)
      PROVE  EmptyHands' /\ Sorted' /\ \A m \in Msg : Placed(m)'
      <2>1. /\ doing' = [a \in Actor |->
                           IF Found(a, f) THEN [doing[a] EXCEPT !.pc = "dangling"]
                           ELSE IF a = entry[f].thread /\ doing[a].pc = "idle" THEN Idle
                           ELSE doing[a]]
            /\ UNCHANGED <<queue, spent, accepted, crossed>>
            BY <1>8 DEF Disconnect, history
      <2>2. ASSUME NEW a \in Actor PROVE Keeps(a)
            <3>1. CASE Found(a, f)
                  BY <1>3, <2>1, <3>1
            <3>2. CASE ~Found(a, f) /\ a = entry[f].thread /\ doing[a].pc = "idle"
                  <4>1. doing'[a] = Idle
                        BY <2>1, <3>2
                  <4>2. doing'[a].pc = "idle" /\ doing'[a].msg = None
                        BY <4>1 DEF Idle
                  <4>3. QED
                        BY <1>4, <3>2, <4>2
            <3>3. CASE ~Found(a, f) /\ ~(a = entry[f].thread /\ doing[a].pc = "idle")
                  BY <1>2, <2>1, <3>3
            <3>4. QED
                  BY <3>1, <3>2, <3>3
      <2>3. QED
            BY <1>1, <2>1, <2>2
<1>9. QED
      BY <1>5, <1>6, <1>7, <1>8

LEMMA PlaceReceive ==
    ASSUME PlaceInv, NEW a \in Actor,
           \/ \E m \in Msg : ReceiveSendmsg(a, m)
           \/ \E g \in Dest : ReceiveGetmsgs(a, g)
    PROVE  EmptyHands' /\ Sorted' /\ \A m \in Msg : Placed(m)'
<1>0. doing \in [Actor -> Doing] /\ doing[a] \in Doing /\ RouterInv
      BY DEF PlaceInv, RouterInv, TypeOK
<1>1. doing[a].msg = None
      BY DEF PlaceInv, EmptyHands, ReceiveSendmsg, ReceiveGetmsgs, At
<1>2. ASSUME NEW k \in Msg, ReceiveSendmsg(a, k)
      PROVE  EmptyHands' /\ Sorted' /\ \A m \in Msg : Placed(m)'
      <2> DEFINE d == [doing[a] EXCEPT !.pc = "route", !.msg = k]
      <2>1. d.pc = "route" /\ d.msg = k
            BY <1>0 DEF Doing
      <2>2. /\ doing' = [doing EXCEPT ![a] = d] /\ k \notin accepted
            /\ accepted' = accepted \cup {k} /\ UNCHANGED <<queue, spent, crossed>>
            BY <1>2 DEF ReceiveSendmsg, Becomes
      <2> HIDE DEF d
      <2>3. /\ doing'[a].msg = k /\ doing'[a].pc = "route"
            /\ \A b \in Actor \ {a} : doing'[b] = doing[b]
            BY <1>0, <2>1, <2>2
      <2>4. EmptyHands'
            BY <2>3, OwnHand
      <2>5. QED
            BY <1>1, <2>2, <2>3, <2>4, Received
<1>3. ASSUME NEW g \in Dest, ReceiveGetmsgs(a, g)
      PROVE  EmptyHands' /\ Sorted' /\ \A m \in Msg : Placed(m)'
      <2> DEFINE d == [doing[a] EXCEPT !.pc = "look", !.for = g]
      <2>1. d.msg = None
            BY <1>0, <1>1 DEF Doing
      <2>2. doing' = [doing EXCEPT ![a] = d] /\ UNCHANGED <<queue, spent, accepted, crossed>>
            BY <1>3 DEF ReceiveGetmsgs, Becomes, history
      <2> HIDE DEF d
      <2>3. doing'[a].msg = None /\ \A b \in Actor \ {a} : doing'[b] = doing[b]
            BY <1>0, <2>1, <2>2
      <2>4. QED
            BY <1>1, <2>2, <2>3, OwnHand, OwnMessage
<1>4. QED
      BY <1>2, <1>3

LEMMA PlaceKeep ==
    ASSUME PlaceInv, NEW t \in Thread, NEW m \in Msg, KeepSendmsg(t, m)
    PROVE  EmptyHands' /\ Sorted' /\ \A k \in Msg : Placed(k)'
<1>1. /\ m \notin accepted /\ accepted' = accepted \cup {m} /\ Kept(m)
      /\ UNCHANGED <<doing, spent, crossed>>
      BY DEF KeepSendmsg
<1>2. EmptyHands'
      BY <1>1 DEF PlaceInv, EmptyHands
<1>3. QED
      BY <1>1, <1>2, StoredAtOnce

LEMMA PlaceHandle ==
    ASSUME PlaceInv, MissInv, NEW a \in Actor, Handle(a)
    PROVE  EmptyHands' /\ Sorted' /\ \A m \in Msg : Placed(m)'
<1>0. RouterInv /\ doing \in [Actor -> Doing] /\ doing[a] \in Doing
      BY DEF PlaceInv, RouterInv, TypeOK
<1>1. ASSUME Goes(a, "store"), doing[a].pc \in Sending, UNCHANGED <<queue, spent, accepted, crossed>>
      PROVE  EmptyHands' /\ Sorted' /\ \A m \in Msg : Placed(m)'
      BY <1>0, <1>1, HandGoes, OwnHand, OwnMessage
<1>2. CASE Route(a)
      <2>1. UNCHANGED <<queue, spent, accepted, crossed>> /\ doing[a].pc \in Sending
            BY <1>2 DEF Route, At, Sending, history
      <2>2. ASSUME NEW f \in Fd, Becomes(a, [doing[a] EXCEPT !.pc = "forward", !.target = f])
            PROVE  EmptyHands' /\ Sorted' /\ \A m \in Msg : Placed(m)'
            <3> DEFINE d == [doing[a] EXCEPT !.pc = "forward", !.target = f]
            <3>1. d.pc = "forward" /\ d.msg = doing[a].msg
                  BY <1>0 DEF Doing
            <3>2. doing' = [doing EXCEPT ![a] = d]
                  BY <2>2 DEF Becomes
            <3> HIDE DEF d
            <3>3. /\ doing'[a].pc = "forward" /\ doing'[a].msg = doing[a].msg
                  /\ \A b \in Actor \ {a} : doing'[b] = doing[b]
                  BY <1>0, <3>1, <3>2
            <3>4. QED
                  BY <2>1, <3>3, OwnHand, OwnMessage
      <2>3. QED
            BY <1>1, <1>2, <2>1, <2>2 DEF Route
<1>3. ASSUME Forward(a) \/ ForwardDangling(a)
      PROVE  EmptyHands' /\ Sorted' /\ \A m \in Msg : Placed(m)'
      <2>1. PICK f : SentTo(a, f)
            BY <1>3 DEF Forward, ForwardDangling
      <2>2. doing[a].msg \in Msg
            BY <1>0, <1>3 DEF Forward, ForwardDangling, At, RouterInv, HandlersInv, Holds, Sending
      <2>3. /\ spent' = [spent EXCEPT ![doing[a].msg] = @ + 1] /\ Returns(a)
            /\ UNCHANGED <<queue, accepted, crossed>>
            BY <2>1 DEF SentTo
      <2>4. doing'[a].msg = None /\ \A b \in Actor \ {a} : doing'[b] = doing[b]
            BY <1>0, <2>3, HandReturns
      <2>5. QED
            BY <2>2, <2>3, <2>4, OwnHand, Sent
<1>4. CASE ForwardFails(a)
      BY <1>1, <1>4 DEF ForwardFails, Fails, Sending, history
<1>5. ASSUME Store(a)
      PROVE  EmptyHands' /\ Sorted' /\ \A m \in Msg : Placed(m)'
      <2> DEFINE k == doing[a].msg
                 R == {f \in Fd \ broken : entry[f].group = k.to}
      <2>1. k \in Msg /\ doing[a].pc = "store"
            BY <1>0, <1>5 DEF Store, At, RouterInv, HandlersInv, Holds, Sending
      <2>2. /\ Kept(k) /\ Returns(a) /\ UNCHANGED <<accepted, crossed>>
            /\ spent' = spent \/ (R # {} /\ spent' = [spent EXCEPT ![k] = @ + 1])
            BY <1>5 DEF Store
      <2>3. R # {} => k \in crossed
            BY <2>1 DEF MissInv, Misses, Late
      <2>4. doing'[a].msg = None /\ \A b \in Actor \ {a} : doing'[b] = doing[b]
            BY <1>0, <2>2, HandReturns
      <2> DEFINE again == spent' = [spent EXCEPT ![k] = @ + 1] /\ k \in crossed
      <2>5. spent' = spent \/ again
            BY <2>2, <2>3
      <2>6. doing[a].pc \in Sending
            BY <2>1 DEF Sending
      <2> HIDE DEF R
      <2>7. QED
            BY <2>1, <2>2, <2>4, <2>5, <2>6, OwnHand, Stored
<1>6. ASSUME Look(a)
      PROVE  EmptyHands' /\ Sorted' /\ \A m \in Msg : Placed(m)'
      <2>1. doing[a].msg = None /\ UNCHANGED <<queue, spent, accepted, crossed>>
            BY <1>6 DEF Look, At, PlaceInv, EmptyHands, history
      <2>2. doing'[a].msg = None /\ \A b \in Actor \ {a} : doing'[b] = doing[b]
            BY <1>0, <1>6, <2>1, HandReturns, HandGoes DEF Look
      <2>3. QED
            BY <2>1, <2>2, OwnHand, OwnMessage
<1>7. ASSUME Pop(a)
      PROVE  EmptyHands' /\ Sorted' /\ \A m \in Msg : Placed(m)'
      <2> DEFINE g == doing[a].for
      <2>1. g \in Dest /\ doing[a].msg = None /\ UNCHANGED <<spent, accepted, crossed>>
            BY <1>7 DEF Pop, At, PlaceInv, EmptyHands, RouterInv, HandlersInv, LooksUp, history
      <2>2. CASE queue[g] = <<>>
            <3>1. UNCHANGED <<doing, queue>>
                  BY <1>7, <2>2 DEF Pop
            <3>2. EmptyHands'
                  BY <3>1 DEF PlaceInv, EmptyHands
            <3>3. QED
                  BY <2>1, <3>1, <3>2, NothingMoves
      <2>3. CASE queue[g] # <<>>
            <3> DEFINE k == Head(queue[g])
                       d == [doing[a] EXCEPT !.pc = "reply", !.msg = k]
            <3>1. d.pc = "reply" /\ d.msg = k
                  BY <1>0 DEF Doing
            <3>2. doing' = [doing EXCEPT ![a] = d] /\ queue' = [queue EXCEPT ![g] = Tail(@)]
                  BY <1>7, <2>3 DEF Pop, Becomes
            <3> HIDE DEF d
            <3>3. /\ doing'[a].pc = "reply" /\ doing'[a].msg = k
                  /\ \A b \in Actor \ {a} : doing'[b] = doing[b]
                  BY <1>0, <3>1, <3>2
            <3>4. EmptyHands'
                  BY <3>3, OwnHand
            <3> HIDE DEF g
            <3>5. QED
                  BY <2>1, <2>3, <3>2, <3>3, <3>4, TakenOut
      <2>4. QED
            BY <2>2, <2>3
<1>8. ASSUME Reply(a)
      PROVE  EmptyHands' /\ Sorted' /\ \A m \in Msg : Placed(m)'
      <2>1. doing[a].msg \in Msg
            BY <1>0, <1>8 DEF Reply, At, RouterInv, HandlersInv, Holds, Sending
      <2>2. /\ spent' = [spent EXCEPT ![doing[a].msg] = @ + 1] /\ Returns(a)
            /\ UNCHANGED <<queue, accepted, crossed>>
            BY <1>8 DEF Reply
      <2>3. doing'[a].msg = None /\ \A b \in Actor \ {a} : doing'[b] = doing[b]
            BY <1>0, <2>2, HandReturns
      <2>4. QED
            BY <2>1, <2>2, <2>3, OwnHand, Sent
<1>9. QED
      BY <1>2, <1>3, <1>4, <1>5, <1>6, <1>7, <1>8 DEF Handle

(* An accepted message is in one thread's hands, or in its queue once, or  *)
(* has left the server once: whatever the threads interleave, none is      *)
(* handed out twice or dropped without a send.  One whose destination came *)
(* in between the search and the flood may have left once more, and none   *)
(* more often than that.                                                   *)
THEOREM MessagesInOnePlace == Spec => []OnePlace
<1>1. PlaceInv /\ UNCHANGED vars => (EmptyHands /\ Sorted /\ \A m \in Msg : Placed(m))'
      BY DEF PlaceInv, EmptyHands, Sorted, Placed, OneHand, OneSlot, InHand, InQueue, Has, Slot,
             Gone, Waits, vars, history
<1>2. PlaceInv /\ MissInv /\ Next => (EmptyHands /\ Sorted /\ \A m \in Msg : Placed(m))'
      BY PlaceConnections, PlaceReceive, PlaceKeep, PlaceHandle DEF Next
<1>3. PlaceInv <=> RouterInv /\ EmptyHands /\ Sorted /\ \A m \in Msg : Placed(m)
      BY DEF PlaceInv
<1>4. Spec => []PlaceInv
      <2>1. PlaceInv /\ MissInv /\ RouterInv' /\ [Next]_vars => PlaceInv'
            BY <1>1, <1>2 DEF PlaceInv
      <2>2. QED
            BY <2>1, PlaceInit, RouterKept, MissKept, PTL DEF Spec
<1>5. PlaceInv => OnePlace
      <2> SUFFICES ASSUME PlaceInv, NEW m \in accepted
                   PROVE  Places(m) = 1 \/ (m \in crossed /\ Places(m) = 2)
          BY DEF OnePlace
      <2> DEFINE H == {a \in Actor : doing[a].msg = m}
                 Q == {i \in DOMAIN queue[m.to] : queue[m.to][i] = m}
      <2>1. m \in Msg /\ Placed(m) /\ m.to \in Dest /\ queue \in [Dest -> Seq(Msg)]
            BY Parts DEF PlaceInv, RouterInv, TypeOK
      <2>2. \A i \in DOMAIN queue[m.to] : i \in Nat
            BY <2>1
      <2>3. (InHand(m) <=> H # {}) /\ (InQueue(m) <=> Q # {})
            BY <2>2 DEF InHand, InQueue, Has, Slot
      <2>4. InHand(m) => \E x : H = {x}
            BY <2>1 DEF Placed, OneHand, InHand, Has
      <2>5. InQueue(m) => \E x : Q = {x}
            <3>1. SUFFICES ASSUME InQueue(m) PROVE \E x : Q = {x}
                  OBVIOUS
            <3>2. PICK i \in Nat : Slot(i, m)
                  BY <3>1 DEF InQueue
            <3>3. \A j \in Q : j = i
                  BY <2>1, <2>2, <3>2 DEF Placed, OneSlot, Slot
            <3>4. i \in Q
                  BY <3>2 DEF Slot
            <3>5. Q = {i}
                  BY <3>3, <3>4
            <3>6. QED
                  BY <3>5
      <2> DEFINE h == Cardinality(H)
                 n == Cardinality(Q)
      <2>6. h = IF InHand(m) THEN 1 ELSE 0
            BY <2>3, <2>4, FS_EmptySet, FS_Singleton
      <2>7. n = IF InQueue(m) THEN 1 ELSE 0
            BY <2>3, <2>5, FS_EmptySet, FS_Singleton
      <2>8. Places(m) = h + n + spent[m]
            BY DEF Places
      <2> HIDE DEF h, n
      <2>9. QED
            BY <2>1, <2>6, <2>7, <2>8 DEF Placed, Gone
<1>6. QED
      BY <1>4, <1>5, PTL

-----------------------------------------------------------------------------
(* In order.  What the client has read, what main holds for it and what is *)
(* queued for it is, in that order, a part of what was stored for it.      *)
Known(s, x)     == \E k \in DOMAIN s : s[k] = x
Before(s, x, y) == \E k, l \in DOMAIN s : k < l /\ s[k] = x /\ s[l] = y

Replying == doing["main"].pc = "reply"
InMain   == doing["main"].msg
Mine     == queue[Me]

AllKnown ==
    /\ \A i \in DOMAIN reads : Known(stored, reads[i])
    /\ \A i \in DOMAIN Mine : Known(stored, Mine[i])
    /\ Replying => Known(stored, InMain)
InLine ==
    /\ \A i, j \in DOMAIN reads : i < j => Before(stored, reads[i], reads[j])
    /\ \A i, j \in DOMAIN Mine : i < j => Before(stored, Mine[i], Mine[j])
    /\ \A i \in DOMAIN reads, j \in DOMAIN Mine : Before(stored, reads[i], Mine[j])
    /\ Replying => /\ \A i \in DOMAIN reads : Before(stored, reads[i], InMain)
                   /\ \A i \in DOMAIN Mine : Before(stored, InMain, Mine[i])

(* main takes messages from the client's queue only. *)
MainAsks == doing["main"].pc \in {"look", "pop"} => doing["main"].for = Me

OrderInv == AllKnown /\ InLine /\ MainAsks

LEMMA OrderInit == Init => OrderInv
<1> SUFFICES ASSUME Init PROVE OrderInv
    OBVIOUS
<1>1. doing["main"].pc = "idle"
      BY Parts DEF Init, Idle
<1>2. reads = <<>> /\ Mine = <<>>
      BY DEF Init, Mine, Dest
<1>3. QED
      BY <1>1, <1>2 DEF OrderInv, AllKnown, InLine, MainAsks, Replying

(* The four things that happen to the line: nothing, a message is stored   *)
(* at its end, its next one is taken by a peer or by main, main replies.   *)
LEMMA LineStays ==
    ASSUME OrderInv, UNCHANGED <<reads, stored, Mine>>,
           Replying' => Replying /\ InMain' = InMain
    PROVE  (AllKnown /\ InLine)'
BY DEF OrderInv, AllKnown, InLine

LEMMA LineGrows ==
    ASSUME OrderInv, RouterInv, NEW m \in Msg, stored' = Append(stored, m), Mine' = Append(Mine, m),
           UNCHANGED reads, Replying' => Replying /\ InMain' = InMain
    PROVE  (AllKnown /\ InLine)'
<1> DEFINE q == Mine
           r == Mine'
<1>0. q \in Seq(Msg) /\ stored \in Seq(Msg)
      BY DEF RouterInv, TypeOK, Mine, Dest
<1>1. /\ DOMAIN stored = 1..Len(stored) /\ DOMAIN stored' = 1..(Len(stored) + 1)
      /\ Len(stored) \in Nat /\ stored'[Len(stored) + 1] = m
      /\ \A k \in DOMAIN stored : k \in DOMAIN stored' /\ stored'[k] = stored[k]
      BY <1>0
<1>2. /\ DOMAIN q = 1..Len(q) /\ DOMAIN r = 1..(Len(q) + 1) /\ Len(q) \in Nat
      /\ r[Len(q) + 1] = m /\ \A k \in DOMAIN q : r[k] = q[k]
      BY <1>0
<1>3. Known(stored', m) /\ \A x : Known(stored, x) => Known(stored', x) /\ Before(stored', x, m)
      BY <1>1 DEF Known, Before
<1>4. \A x, y : Before(stored, x, y) => Before(stored', x, y)
      BY <1>1 DEF Before
<1>5. \A i \in DOMAIN r : i \in DOMAIN q \/ i = Len(q) + 1
      BY <1>2
<1>6. \A i \in DOMAIN reads : Known(stored', reads[i]) /\ Before(stored', reads[i], m)
      BY <1>3 DEF OrderInv, AllKnown
<1>7. \A i \in DOMAIN q : Known(stored', q[i]) /\ Before(stored', q[i], m)
      BY <1>3 DEF OrderInv, AllKnown
<1>8. Replying' => Known(stored', InMain') /\ Before(stored', InMain', m)
      <2>1. Replying' => Known(stored, InMain')
            BY DEF OrderInv, AllKnown
      <2>2. QED
            BY <2>1, <1>3
<1>9. \A i, j \in DOMAIN q : i < j => Before(stored', q[i], q[j])
      BY <1>4 DEF OrderInv, InLine
<1>10. \A i \in DOMAIN reads, j \in DOMAIN q : Before(stored', reads[i], q[j])
      BY <1>4 DEF OrderInv, InLine
<1>11. \A i, j \in DOMAIN reads : i < j => Before(stored', reads[i], reads[j])
      BY <1>4 DEF OrderInv, InLine
<1>12. Replying' => /\ \A i \in DOMAIN reads : Before(stored', reads[i], InMain')
                    /\ \A i \in DOMAIN q : Before(stored', InMain', q[i])
      BY <1>4 DEF OrderInv, InLine
<1> HIDE DEF q, r
<1>13. \A i \in DOMAIN r : Known(stored', r[i])
      BY <1>2, <1>3, <1>5, <1>7
<1>14. \A i, j \in DOMAIN r : i < j => Before(stored', r[i], r[j])
      BY <1>2, <1>5, <1>7, <1>9
<1>15. \A i \in DOMAIN reads, j \in DOMAIN r : Before(stored', reads[i], r[j])
      BY <1>2, <1>5, <1>6, <1>10
<1>16. Replying' => \A i \in DOMAIN r : Before(stored', InMain', r[i])
      BY <1>2, <1>5, <1>8, <1>12
<1>17. AllKnown'
      BY <1>6, <1>8, <1>13 DEF AllKnown, r
<1>18. InLine'
      BY <1>11, <1>12, <1>14, <1>15, <1>16 DEF InLine, r
<1>19. QED
      BY <1>17, <1>18

LEMMA LineShrinks ==
    ASSUME OrderInv, RouterInv, Mine # <<>>, Mine' = Tail(Mine), UNCHANGED <<reads, stored>>,
           Replying' => \/ Replying /\ InMain' = InMain
                        \/ InMain' = Head(Mine)
    PROVE  (AllKnown /\ InLine)'
<1> DEFINE q == Mine
           r == Mine'
<1>0. q \in Seq(Msg)
      BY DEF RouterInv, TypeOK, Mine, Dest
<1>1. /\ DOMAIN q = 1..Len(q) /\ DOMAIN r = 1..(Len(q) - 1) /\ Len(q) \in Nat \ {0}
      /\ Head(q) = q[1] /\ \A i \in 1..(Len(q) - 1) : r[i] = q[i + 1]
      BY <1>0
<1>2. stored' = stored
      OBVIOUS
<1>3. /\ \A i, j \in DOMAIN q : i < j => Before(stored, q[i], q[j])
      /\ \A i \in DOMAIN reads, j \in DOMAIN q : Before(stored, reads[i], q[j])
      /\ \A i \in DOMAIN q : Known(stored, q[i])
      BY DEF OrderInv, AllKnown, InLine
<1>4. Replying' => /\ Known(stored, InMain')
                   /\ \A i \in DOMAIN reads : Before(stored, reads[i], InMain')
                   /\ \A i \in 2..Len(q) : Before(stored, InMain', q[i])
      <2> SUFFICES ASSUME Replying'
                   PROVE  /\ Known(stored, InMain')
                          /\ \A i \in DOMAIN reads : Before(stored, reads[i], InMain')
                          /\ \A i \in 2..Len(q) : Before(stored, InMain', q[i])
          OBVIOUS
      <2>1. CASE Replying /\ InMain' = InMain
            BY <1>1, <2>1 DEF OrderInv, AllKnown, InLine
      <2>2. CASE InMain' = Head(Mine)
            BY <1>1, <1>3, <2>2
      <2>3. QED
            BY <2>1, <2>2
<1>5. /\ \A i \in DOMAIN reads : Known(stored, reads[i])
      /\ \A i, j \in DOMAIN reads : i < j => Before(stored, reads[i], reads[j])
      BY DEF OrderInv, AllKnown, InLine
<1> HIDE DEF q, r
<1>6. \A i \in DOMAIN r : i + 1 \in DOMAIN q /\ i + 1 \in 2..Len(q) /\ r[i] = q[i + 1]
      BY <1>1
<1>7. AllKnown'
      BY <1>2, <1>3, <1>4, <1>5, <1>6 DEF AllKnown, r
<1>8. \A i, j \in DOMAIN r : i < j => Before(stored, r[i], r[j])
      <2> SUFFICES ASSUME NEW i \in DOMAIN r, NEW j \in DOMAIN r, i < j PROVE Before(stored, r[i], r[j])
          OBVIOUS
      <2>1. i + 1 < j + 1
            BY <1>1
      <2>2. QED
            BY <1>3, <1>6, <2>1
<1>9. InLine'
      BY <1>2, <1>3, <1>4, <1>5, <1>6, <1>8 DEF InLine, r
<1>10. QED
      BY <1>7, <1>9

LEMMA LineRead ==
    ASSUME OrderInv, RouterInv, Replying, reads' = Append(reads, InMain), ~Replying',
           UNCHANGED <<Mine, stored>>
    PROVE  (AllKnown /\ InLine)'
<1> DEFINE q == reads
           r == reads'
<1>0. q \in Seq(Msg)
      BY DEF RouterInv, TypeOK
<1>1. /\ DOMAIN q = 1..Len(q) /\ DOMAIN r = 1..(Len(q) + 1) /\ Len(q) \in Nat
      /\ r[Len(q) + 1] = InMain /\ \A i \in DOMAIN q : r[i] = q[i]
      BY <1>0
<1>2. stored' = stored
      OBVIOUS
<1>3. /\ \A i, j \in DOMAIN q : i < j => Before(stored, q[i], q[j])
      /\ \A i \in DOMAIN q, j \in DOMAIN Mine : Before(stored, q[i], Mine[j])
      /\ \A i \in DOMAIN q : Known(stored, q[i]) /\ Before(stored, q[i], InMain)
      /\ \A i, j \in DOMAIN Mine : i < j => Before(stored, Mine[i], Mine[j])
      /\ \A i \in DOMAIN Mine : Known(stored, Mine[i]) /\ Before(stored, InMain, Mine[i])
      /\ Known(stored, InMain)
      BY DEF OrderInv, AllKnown, InLine
<1> HIDE DEF q, r
<1>4. \A i \in DOMAIN r : i \in DOMAIN q \/ i = Len(q) + 1
      BY <1>1
<1>5. \A i \in DOMAIN r : Known(stored, r[i])
      BY <1>1, <1>3, <1>4
<1>6. \A i, j \in DOMAIN r : i < j => Before(stored, r[i], r[j])
      BY <1>1, <1>3, <1>4
<1>7. \A i \in DOMAIN r, j \in DOMAIN Mine : Before(stored, r[i], Mine[j])
      BY <1>1, <1>3, <1>4
<1>8. AllKnown'
      BY <1>2, <1>3, <1>5 DEF AllKnown, r
<1>9. InLine'
      BY <1>2, <1>3, <1>6, <1>7 DEF InLine, r
<1>10. QED
      BY <1>8, <1>9

(* Steps in which main does not come to a new reply. *)
MainCalm == (Replying' => Replying /\ InMain' = InMain) /\ MainAsks'

LEMMA OthersCalm ==
    ASSUME OrderInv, NEW a \in Actor, \A b \in Actor \ {a} : doing'[b] = doing[b],
           a = "main" => /\ doing'[a].pc # "reply"
                         /\ doing'[a].pc \in {"look", "pop"} => doing'[a].for = Me
    PROVE  MainCalm
<1>1. CASE a = "main"
      BY <1>1 DEF MainCalm, Replying, MainAsks
<1>2. CASE a # "main"
      <2>1. doing'["main"] = doing["main"]
            BY <1>2, Parts
      <2>2. QED
            BY <2>1 DEF MainCalm, Replying, InMain, MainAsks, OrderInv
<1>3. QED
      BY <1>1, <1>2

LEMMA CalmStep ==
    ASSUME OrderInv, MainCalm, UNCHANGED <<reads, stored, Mine>>
    PROVE  OrderInv'
BY LineStays DEF MainCalm, OrderInv

LEMMA OrderConnections ==
    ASSUME OrderInv, RouterInv,
           \/ \E t \in Thread, f \in Fd, g \in Group : Connect(t, f, g)
           \/ \E t \in Thread, g \in Group : Rename(t, g)
           \/ \E f \in Fd : Break(f) \/ Disconnect(f)
    PROVE  OrderInv'
<1>0. doing \in [Actor -> Doing]
      BY DEF RouterInv, TypeOK
<1>1. ASSUME NEW t \in Thread, NEW f \in Fd, NEW g \in Group, Connect(t, f, g)
      PROVE  OrderInv'
      <2>1. \A b \in Actor \ {t} : doing'[b] = doing[b]
            BY <1>0, <1>1 DEF Connect, Becomes
      <2>2. t # "main" /\ t \in Actor
            BY RouterAssumption, Parts
      <2>3. MainCalm
            BY <2>1, <2>2, OthersCalm
      <2>4. QED
            BY <1>1, <2>3, CalmStep DEF Connect, history, Mine
<1>2. ASSUME NEW f \in Fd, Disconnect(f) PROVE OrderInv'
      <2>1. doing' = [a \in Actor |->
                        IF Found(a, f) THEN [doing[a] EXCEPT !.pc = "dangling"]
                        ELSE IF a = entry[f].thread /\ doing[a].pc = "idle" THEN Idle
                        ELSE doing[a]]
            BY <1>2 DEF Disconnect
      <2>2. ASSUME Found("main", f) PROVE MainCalm
            <3>1. doing'["main"] = [doing["main"] EXCEPT !.pc = "dangling"] /\ doing["main"] \in Doing
                  BY <1>0, <2>1, <2>2, Parts
            <3>2. doing'["main"].pc = "dangling"
                  BY <3>1 DEF Doing
            <3>3. QED
                  BY <3>2 DEF MainCalm, Replying, MainAsks
      <2>3. ASSUME doing'["main"] = Idle PROVE MainCalm
            <3>1. doing'["main"].pc = "idle"
                  BY <2>3 DEF Idle
            <3>2. QED
                  BY <3>1 DEF MainCalm, Replying, MainAsks
      <2>4. ASSUME doing'["main"] = doing["main"] PROVE MainCalm
            BY <2>4 DEF MainCalm, Replying, InMain, MainAsks, OrderInv
      <2>5. MainCalm
            BY <2>1, <2>2, <2>3, <2>4, Parts
      <2>6. QED
            BY <1>2, <2>5, CalmStep DEF Disconnect, history, Mine
<1>3. ASSUME NEW t \in Thread, NEW g \in Group, Rename(t, g) PROVE OrderInv'
      <2>1. doing' = [a \in Actor |-> IF Found(a, doing[t].fd) THEN [doing[a] EXCEPT !.pc = "renamed"]
                                      ELSE doing[a]]
            BY <1>3 DEF Rename
      <2>2. ASSUME Found("main", doing[t].fd) PROVE MainCalm
            <3>1. doing'["main"] = [doing["main"] EXCEPT !.pc = "renamed"] /\ doing["main"] \in Doing
                  BY <1>0, <2>1, <2>2, Parts
            <3>2. doing'["main"].pc = "renamed"
                  BY <3>1 DEF Doing
            <3>3. QED
                  BY <3>2 DEF MainCalm, Replying, MainAsks
      <2>3. ASSUME doing'["main"] = doing["main"] PROVE MainCalm
            BY <2>3 DEF MainCalm, Replying, InMain, MainAsks, OrderInv
      <2>4. MainCalm
            BY <2>1, <2>2, <2>3, Parts
      <2>5. QED
            BY <1>3, <2>4, CalmStep DEF Rename, Mine
<1>4. ASSUME NEW f \in Fd, Break(f) PROVE OrderInv'
      <2>1. UNCHANGED <<doing, queue, reads, stored>>
            BY <1>4 DEF Break, history
      <2>2. MainCalm
            BY <2>1 DEF MainCalm, Replying, InMain, MainAsks, OrderInv
      <2>3. QED
            BY <2>1, <2>2, CalmStep DEF Mine
<1>5. QED
      BY <1>1, <1>2, <1>3, <1>4

(* A message kept in a queue lengthens the line or leaves it alone. *)
LEMMA OrderKept ==
    ASSUME OrderInv, RouterInv, MainCalm, NEW m \in Msg, Kept(m), UNCHANGED reads
    PROVE  OrderInv'
<1>0. queue \in [Dest -> Seq(Msg)] /\ Me \in Dest /\ m.to \in Dest
      BY Parts DEF RouterInv, TypeOK, Dest
<1>1. /\ queue' = [queue EXCEPT ![m.to] = Append(@, m)]
      /\ stored' = IF m.to = Me THEN Append(stored, m) ELSE stored
      BY DEF Kept
<1>2. CASE m.to = Me
      <2>1. stored' = Append(stored, m) /\ Mine' = Append(Mine, m)
            BY <1>0, <1>1, <1>2 DEF Mine
      <2>2. QED
            BY <2>1, LineGrows DEF MainCalm, OrderInv
<1>3. CASE m.to # Me
      <2>1. stored' = stored /\ Mine' = Mine
            BY <1>0, <1>1, <1>3 DEF Mine
      <2>2. QED
            BY <2>1, CalmStep
<1>4. QED
      BY <1>2, <1>3

LEMMA OrderKeep ==
    ASSUME OrderInv, RouterInv, NEW t \in Thread, NEW m \in Msg, KeepSendmsg(t, m)
    PROVE  OrderInv'
<1>1. Kept(m) /\ UNCHANGED <<doing, reads>>
      BY DEF KeepSendmsg
<1>2. MainCalm
      BY <1>1 DEF MainCalm, Replying, InMain, MainAsks, OrderInv
<1>3. QED
      BY <1>1, <1>2, OrderKept

LEMMA OrderReceive ==
    ASSUME OrderInv, RouterInv, NEW a \in Actor,
           \/ \E m \in Msg : ReceiveSendmsg(a, m)
           \/ \E g \in Dest : ReceiveGetmsgs(a, g)
    PROVE  OrderInv'
<1>0. doing \in [Actor -> Doing] /\ doing[a] \in Doing
      BY DEF RouterInv, TypeOK
<1>1. ASSUME NEW k \in Msg, ReceiveSendmsg(a, k) PROVE OrderInv'
      <2> DEFINE d == [doing[a] EXCEPT !.pc = "route", !.msg = k]
      <2>1. d.pc = "route"
            BY <1>0 DEF Doing
      <2>2. doing' = [doing EXCEPT ![a] = d]
            BY <1>1 DEF ReceiveSendmsg, Becomes
      <2> HIDE DEF d
      <2>3. doing'[a].pc = "route" /\ \A b \in Actor \ {a} : doing'[b] = doing[b]
            BY <1>0, <2>1, <2>2
      <2>4. MainCalm
            BY <2>3, OthersCalm
      <2>5. QED
            BY <1>1, <2>4, CalmStep DEF ReceiveSendmsg, Mine
<1>2. ASSUME NEW g \in Dest, ReceiveGetmsgs(a, g) PROVE OrderInv'
      <2> DEFINE d == [doing[a] EXCEPT !.pc = "look", !.for = g]
      <2>1. d.pc = "look" /\ d.for = g
            BY <1>0 DEF Doing
      <2>2. doing' = [doing EXCEPT ![a] = d] /\ (a = "main" => g = Me)
            BY <1>2 DEF ReceiveGetmsgs, Becomes
      <2> HIDE DEF d
      <2>3. /\ doing'[a].pc = "look" /\ doing'[a].for = g
            /\ \A b \in Actor \ {a} : doing'[b] = doing[b]
            BY <1>0, <2>1, <2>2
      <2>4. MainCalm
            BY <2>2, <2>3, OthersCalm
      <2>5. QED
            BY <1>2, <2>4, CalmStep DEF ReceiveGetmsgs, Mine, history
<1>3. QED
      BY <1>1, <1>2

LEMMA OrderHandle ==
    ASSUME OrderInv, RouterInv, NEW a \in Actor, Handle(a)
    PROVE  OrderInv'
<1>0. /\ doing \in [Actor -> Doing] /\ doing[a] \in Doing
      /\ queue \in [Dest -> Seq(Msg)] /\ Me \in Dest
      BY DEF RouterInv, TypeOK, Dest
<1>1. ASSUME Goes(a, "store") PROVE MainCalm
      BY <1>1, HandGoes, OthersCalm
<1>2. ASSUME Returns(a) PROVE MainCalm
      BY <1>2, HandReturns, OthersCalm
<1>3. CASE Route(a)
      <2>1. ASSUME NEW f \in Fd, Becomes(a, [doing[a] EXCEPT !.pc = "forward", !.target = f])
            PROVE  MainCalm
            <3> DEFINE d == [doing[a] EXCEPT !.pc = "forward", !.target = f]
            <3>1. d.pc = "forward"
                  BY <1>0 DEF Doing
            <3>2. doing' = [doing EXCEPT ![a] = d]
                  BY <2>1 DEF Becomes
            <3> HIDE DEF d
            <3>3. doing'[a].pc = "forward" /\ \A b \in Actor \ {a} : doing'[b] = doing[b]
                  BY <1>0, <3>1, <3>2
            <3>4. QED
                  BY <3>3, OthersCalm
      <2>2. MainCalm
            BY <1>1, <1>3, <2>1 DEF Route
      <2>3. QED
            BY <1>3, <2>2, CalmStep DEF Route, Mine, history
<1>4. CASE Forward(a) \/ ForwardDangling(a)
      <2>1. PICK f : SentTo(a, f)
            BY <1>4 DEF Forward, ForwardDangling
      <2>2. QED
            BY <1>2, <2>1, CalmStep DEF SentTo, Mine
<1>5. CASE ForwardFails(a)
      BY <1>1, <1>5, CalmStep DEF ForwardFails, Mine, history
<1>6. CASE Store(a)
      <2> DEFINE m == doing[a].msg
      <2>1. m \in Msg /\ m.to \in Dest
            BY <1>6, Parts DEF Store, At, RouterInv, HandlersInv, Holds, Sending
      <2>2. MainCalm
            BY <1>2, <1>6 DEF Store
      <2>3. Kept(m) /\ UNCHANGED reads
            BY <1>6 DEF Store
      <2> HIDE DEF m
      <2>4. QED
            BY <2>1, <2>2, <2>3, OrderKept
<1>7. CASE Look(a)
      <2>1. doing[a].pc = "look" /\ UNCHANGED <<queue, history>>
            BY <1>7 DEF Look, At
      <2>2. ASSUME Goes(a, "pop") PROVE MainCalm
            <3>1. /\ doing'[a].pc = "pop" /\ doing'[a].for = doing[a].for
                  /\ \A b \in Actor \ {a} : doing'[b] = doing[b]
                  BY <2>2, HandGoes
            <3>2. a = "main" => doing[a].for = Me
                  BY <2>1 DEF OrderInv, MainAsks
            <3>3. QED
                  BY <3>1, <3>2, OthersCalm
      <2>3. MainCalm
            BY <1>2, <1>7, <2>2 DEF Look
      <2>4. QED
            BY <2>1, <2>3, CalmStep DEF Mine, history
<1>8. CASE Pop(a)
      <2> DEFINE g == doing[a].for
      <2>1. g \in Dest /\ (a = "main" => g = Me) /\ UNCHANGED <<reads, stored>>
            BY <1>8 DEF Pop, At, RouterInv, HandlersInv, LooksUp, OrderInv, MainAsks, history
      <2>2. CASE queue[g] = <<>>
            <3>1. UNCHANGED <<doing, queue>>
                  BY <1>8, <2>2 DEF Pop
            <3>2. MainCalm
                  BY <3>1 DEF MainCalm, Replying, InMain, OrderInv, MainAsks
            <3>3. QED
                  BY <2>1, <3>1, <3>2, CalmStep DEF Mine
      <2>3. CASE queue[g] # <<>>
            <3> DEFINE k == Head(queue[g])
                       d == [doing[a] EXCEPT !.pc = "reply", !.msg = k]
            <3>1. d.pc = "reply" /\ d.msg = k
                  BY <1>0 DEF Doing
            <3>2. doing' = [doing EXCEPT ![a] = d] /\ queue' = [queue EXCEPT ![g] = Tail(@)]
                  BY <1>8, <2>3 DEF Pop, Becomes
            <3> HIDE DEF d
            <3>3. /\ doing'[a].pc = "reply" /\ doing'[a].msg = k
                  /\ \A b \in Actor \ {a} : doing'[b] = doing[b]
                  BY <1>0, <3>1, <3>2
            <3>4. MainAsks' /\ (a # "main" => (Replying' => Replying /\ InMain' = InMain))
                  <4>1. CASE a = "main"
                        BY <3>3, <4>1 DEF MainAsks
                  <4>2. CASE a # "main"
                        <5>1. doing'["main"] = doing["main"]
                              BY <3>3, <4>2, Parts
                        <5>2. QED
                              BY <4>2, <5>1 DEF MainAsks, OrderInv, Replying, InMain
                  <4>3. QED
                        BY <4>1, <4>2
            <3>5. CASE g = Me
                  <4>1. Mine # <<>> /\ Mine' = Tail(Mine) /\ k = Head(Mine)
                        BY <1>0, <2>3, <3>2, <3>5 DEF Mine
                  <4>2. a = "main" => InMain' = Head(Mine)
                        BY <3>3, <4>1 DEF InMain
                  <4>3. QED
                        BY <2>1, <3>4, <4>1, <4>2, LineShrinks DEF OrderInv
            <3>6. CASE g # Me
                  <4>1. Mine' = Mine /\ a # "main"
                        BY <1>0, <2>1, <3>2, <3>6 DEF Mine
                  <4>2. QED
                        BY <2>1, <3>4, <4>1, LineStays DEF OrderInv
            <3>7. QED
                  BY <3>5, <3>6
      <2>4. QED
            BY <2>2, <2>3
<1>9. CASE Reply(a)
      <2>1. /\ doing[a].pc = "reply" /\ Returns(a) /\ UNCHANGED <<queue, stored>>
            /\ reads' = IF a = "main" THEN Append(reads, doing[a].msg) ELSE reads
            BY <1>9 DEF Reply, At
      <2>2. MainCalm
            BY <1>2, <2>1
      <2>3. CASE a = "main"
            <3>1. Replying /\ ~Replying' /\ reads' = Append(reads, InMain)
                  BY <2>1, <2>3, HandReturns DEF Replying, InMain
            <3>2. QED
                  BY <2>1, <2>2, <3>1, LineRead DEF MainCalm, OrderInv, Mine
      <2>4. CASE a # "main"
            BY <2>1, <2>2, <2>4, CalmStep DEF Mine
      <2>5. QED
            BY <2>3, <2>4
<1>10. QED
      BY <1>3, <1>4, <1>5, <1>6, <1>7, <1>8, <1>9 DEF Handle

(* The client reads its messages in the order in which they were stored,   *)
(* whoever else takes messages from its queue in between.                  *)
THEOREM ReadInOrderOfStorage == Spec => []ReadsInOrder
<1>1. OrderInv /\ UNCHANGED vars => OrderInv'
      BY DEF OrderInv, AllKnown, InLine, MainAsks, Replying, InMain, Mine, vars, history
<1>2. OrderInv /\ RouterInv /\ Next => OrderInv'
      BY OrderConnections, OrderReceive, OrderKeep, OrderHandle DEF Next
<1>3. OrderInv /\ RouterInv /\ [Next]_vars => OrderInv'
      BY <1>1, <1>2
<1>4. OrderInv => ReadsInOrder
      BY DEF OrderInv, InLine, Before, ReadsInOrder
<1>5. QED
      BY <1>3, <1>4, OrderInit, RouterKept, PTL DEF Spec

=============================================================================
