---------------------------- MODULE MessageRouter ----------------------------
(***************************************************************************)
(* The message queue of one server and the threads that use it             *)
(* (src/Botnet/botnet/server.cpp, handleServerCommand and                  *)
(* handleClientCommand).  A handler is cut where it releases serverMutex:  *)
(* GETMSGS and GETMSG look at a queue in one critical section and pop in   *)
(* the next; SENDMSG finds the destination in one, sends outside the       *)
(* mutex, and keeps and floods in another.                                 *)
(*                                                                         *)
(* Peer threads serve one connection each; main serves the client.  The    *)
(* health monitor may drop a connection between any two steps, another     *)
(* group may then connect on the same descriptor, and a peer may take      *)
(* another id by a second HELO; a handler that is under way goes on        *)
(* regardless.                                                             *)
(*                                                                         *)
(* Abstracted: hops and what a flood does to other servers (FloodNetwork), *)
(* which ids the table refuses (ConnectionTable; here those that a peer    *)
(* has), messages too long for a frame, several clients (main serves one   *)
(* at a time).                                                             *)
(***************************************************************************)
EXTENDS Naturals, Sequences, FiniteSets, SequencesExt

CONSTANTS
    Thread,   \* peer threads
    Fd,       \* descriptors of peer connections
    Group,    \* groups that connect
    Me,       \* MY_GROUP_ID
    Msg,      \* messages: [to, no]
    None      \* no descriptor, group, message or connection

ASSUME RouterAssumption ==
    /\ None \notin Group \cup {Me} \cup Fd \cup Thread \cup Msg
    /\ "main" \notin Thread
    /\ Msg \subseteq [to : Group \cup {Me}, no : Nat]

VARIABLES
    entry,      \* connectedServers: descriptor -> group and thread
    broken,     \* descriptors of peers that are gone: a send fails
    doing,      \* what each thread is at
    queue,      \* messageQueue
    undefined,  \* front() or pop() was called on an empty queue
    accepted,   \* messages received in a SENDMSG
    crossed,    \* those whose destination connected to this server, or took
                \* its id, after the search for it and before they were kept
    spent,      \* how often each left for its destination or requester
    delivered,  \* messages of which the client was told OK,Delivered
    reached,    \* messages sent to a connection of their destination
    stored,     \* messages stored for the client, in that order
    reads       \* messages the client got, in that order

history == <<accepted, crossed, spent, delivered, reached, stored, reads>>
vars    == <<entry, broken, doing, queue, undefined, history>>

-----------------------------------------------------------------------------
Dest    == Group \cup {Me}
Actor   == Thread \cup {"main"}
NoEntry == [group |-> None, thread |-> None]
Idle    == [pc |-> "idle", fd |-> None, msg |-> None, for |-> None, target |-> None]

(* Where a thread can be cut: before a look at a queue, its pop and its    *)
(* reply; before the search for a destination, the forward and the store.  *)
(* A forward uses a reference to the entry that was found: renamed when    *)
(* its peer has taken another id since, dangling when it is erased.        *)
Sending == {"route", "forward", "renamed", "dangling", "store"}
Pc      == {"idle", "look", "pop", "reply"} \cup Sending
Doing   == [pc : Pc, fd : Fd \cup {None}, msg : Msg \cup {None}, for : Dest \cup {None},
            target : Fd \cup {None}]

Init ==
    /\ entry     = [f \in Fd |-> NoEntry]
    /\ broken    = {}
    /\ doing     = [a \in Actor |-> Idle]
    /\ queue     = [g \in Dest |-> <<>>]
    /\ undefined = FALSE
    /\ accepted  = {}
    /\ crossed   = {}
    /\ spent     = [m \in Msg |-> 0]
    /\ delivered = {}
    /\ reached   = {}
    /\ stored    = <<>>
    /\ reads     = <<>>

At(a, pc)     == ~undefined /\ doing[a].pc = pc
Becomes(a, d) == doing' = [doing EXCEPT ![a] = d]
Goes(a, pc)   == Becomes(a, [doing[a] EXCEPT !.pc = pc])

(* The handler returns; a thread that lost its connection ends. *)
Owns(t)    == doing[t].fd # None /\ entry[doing[t].fd].thread = t
Returns(a) == Becomes(a, IF a # "main" /\ Owns(a) THEN [Idle EXCEPT !.fd = doing[a].fd] ELSE Idle)

-----------------------------------------------------------------------------
(* Connections.                                                            *)

Unknown(g) == \A f \in Fd : entry[f].group # g

(* Handlers that search no more and may keep a message for group g.        *)
Missed(g) == {doing[a].msg : a \in {b \in Actor : /\ doing[b].pc \in {"renamed", "dangling", "store"}
                                                  /\ doing[b].msg.to = g}}

Connect(t, f, g) ==
    /\ At(t, "idle") /\ doing[t].fd = None
    /\ entry[f] = NoEntry /\ Unknown(g)
    /\ entry'   = [entry EXCEPT ![f] = [group |-> g, thread |-> t]]
    /\ crossed' = crossed \cup Missed(g)
    /\ Becomes(t, [Idle EXCEPT !.fd = f])
    /\ UNCHANGED <<broken, queue, undefined, accepted, spent, delivered, reached, stored, reads>>

Found(a, f) == doing[a].pc \in {"forward", "renamed"} /\ doing[a].target = f

(* A HELO on a connection that has a group already. *)
Rename(t, g) ==
    /\ At(t, "idle") /\ Owns(t) /\ Unknown(g)
    /\ entry'   = [entry EXCEPT ![doing[t].fd] = [group |-> g, thread |-> t]]
    /\ doing'   = [a \in Actor |-> IF Found(a, doing[t].fd)
                                   THEN [doing[a] EXCEPT !.pc = "renamed"] ELSE doing[a]]
    /\ crossed' = crossed \cup Missed(g)
    /\ UNCHANGED <<broken, queue, undefined, accepted, spent, delivered, reached, stored, reads>>

(* The peer is gone, and the server does not know yet.                     *)
Break(f) ==
    /\ ~undefined
    /\ entry[f] # NoEntry /\ f \notin broken
    /\ broken' = broken \cup {f}
    /\ UNCHANGED <<entry, doing, queue, undefined, history>>

DisconnectCopied(f) ==         \* mutant: forwards go on with a copy of the descriptor
    /\ ~undefined
    /\ entry[f] # NoEntry
    /\ entry'  = [entry EXCEPT ![f] = NoEntry]
    /\ broken' = broken \ {f}
    /\ doing'  = [a \in Actor |->
                    IF a = entry[f].thread /\ doing[a].pc = "idle" THEN Idle ELSE doing[a]]
    /\ UNCHANGED <<queue, undefined, history>>

(* The entry is erased: references to it dangle. *)
Disconnect(f) ==
    /\ ~undefined
    /\ entry[f] # NoEntry
    /\ entry'  = [entry EXCEPT ![f] = NoEntry]
    /\ broken' = broken \ {f}
    /\ doing'  = [a \in Actor |->
                    IF Found(a, f) THEN [doing[a] EXCEPT !.pc = "dangling"]
                    ELSE IF a = entry[f].thread /\ doing[a].pc = "idle" THEN Idle
                    ELSE doing[a]]
    /\ UNCHANGED <<queue, undefined, history>>

-----------------------------------------------------------------------------
(* SENDMSG, from a peer or from the client.                                *)

(* A message that is to be passed on.  A peer's message whose hops name    *)
(* this server is dropped (it changes nothing here). *)
ReceiveSendmsg(a, m) ==
    /\ At(a, "idle")
    /\ a = "main" \/ (Owns(a) /\ m.to # Me)
    /\ m \notin accepted
    /\ accepted' = accepted \cup {m}
    /\ Becomes(a, [doing[a] EXCEPT !.pc = "route", !.msg = m])
    /\ UNCHANGED <<entry, broken, queue, undefined, crossed, spent, delivered, reached, stored, reads>>

Kept(m) ==
    /\ queue'  = [queue EXCEPT ![m.to] = Append(@, m)]
    /\ stored' = IF m.to = Me THEN Append(stored, m) ELSE stored

(* A peer's message for this group, or one with MAX_HOPS hops whoever it   *)
(* is for: kept at once, without a search or a flood. *)
KeepSendmsg(t, m) ==
    /\ At(t, "idle") /\ Owns(t)
    /\ m \notin accepted
    /\ accepted' = accepted \cup {m}
    /\ Kept(m)
    /\ UNCHANGED <<entry, broken, doing, undefined, crossed, spent, delivered, reached, reads>>

(* The search stops with a reference to the entry; the mutex is released. *)
Route(a) ==
    /\ At(a, "route")
    /\ \/ \E f \in Fd :
            /\ entry[f].group = doing[a].msg.to
            /\ Becomes(a, [doing[a] EXCEPT !.pc = "forward", !.target = f])
       \/ Unknown(doing[a].msg.to) /\ Goes(a, "store")
    /\ UNCHANGED <<entry, broken, queue, undefined, history>>

(* sendCommand succeeded on descriptor f. *)
SentTo(a, f) ==
    LET m == doing[a].msg IN
    /\ f \notin broken
    /\ spent'     = [spent EXCEPT ![m] = @ + 1]
    /\ reached'   = IF entry[f].group = m.to THEN reached \cup {m} ELSE reached
    /\ delivered' = IF a = "main" THEN delivered \cup {m} ELSE delivered
    /\ Returns(a)
    /\ UNCHANGED <<entry, broken, queue, undefined, accepted, crossed, stored, reads>>

Forward(a) ==
    /\ ~undefined /\ doing[a].pc \in {"forward", "renamed"}
    /\ SentTo(a, doing[a].target)

(* The descriptor is read through a dangling reference: it may be any.     *)
ForwardDangling(a) ==
    /\ At(a, "dangling")
    /\ \E f \in Fd : entry[f] # NoEntry /\ SentTo(a, f)

Fails(a) == \/ doing[a].pc \in {"forward", "renamed"} /\ doing[a].target \in broken
            \/ doing[a].pc = "dangling"

ForwardFailsForgotten(a) ==    \* mutant: a failed forward ends the handler
    /\ ~undefined /\ Fails(a)
    /\ Returns(a)
    /\ UNCHANGED <<entry, broken, queue, undefined, history>>

ForwardFails(a) ==
    /\ ~undefined /\ Fails(a)
    /\ Goes(a, "store")
    /\ UNCHANGED <<entry, broken, queue, undefined, history>>

(* What was not sent is kept, and flooded to the peers of now: to its      *)
(* destination too when that is one, unless a peer's hops name it.         *)
Store(a) ==
    LET m == doing[a].msg
        R == {f \in Fd \ broken : entry[f].group = m.to} IN
    /\ At(a, "store")
    /\ Kept(m)
    /\ \/ /\ R # {}
          /\ spent'   = [spent EXCEPT ![m] = @ + 1]
          /\ reached' = reached \cup {m}
       \/ (R = {} \/ a # "main") /\ UNCHANGED <<spent, reached>>
    /\ Returns(a)
    /\ UNCHANGED <<entry, broken, undefined, accepted, crossed, delivered, reads>>

-----------------------------------------------------------------------------
(* GETMSGS from a peer, for any group, and GETMSG from the client.         *)

ReceiveGetmsgs(a, g) ==
    /\ At(a, "idle")
    /\ IF a = "main" THEN g = Me ELSE Owns(a)
    /\ Becomes(a, [doing[a] EXCEPT !.pc = "look", !.for = g])
    /\ UNCHANGED <<entry, broken, queue, undefined, history>>

LookUntested(a) ==             \* mutant: the queue is not tested
    /\ At(a, "look")
    /\ Goes(a, "pop")
    /\ UNCHANGED <<entry, broken, queue, undefined, history>>

Look(a) ==
    /\ At(a, "look")
    /\ IF queue[doing[a].for] = <<>> THEN Returns(a) ELSE Goes(a, "pop")
    /\ UNCHANGED <<entry, broken, queue, undefined, history>>

PopThenFront(a) ==             \* mutant: front() is read after pop()
    LET q == queue[doing[a].for] IN
    /\ At(a, "pop")
    /\ IF q = <<>>
       THEN undefined' = TRUE /\ UNCHANGED <<doing, queue>>
       ELSE /\ Becomes(a, [doing[a] EXCEPT !.pc  = "reply",
                                           !.msg = IF Tail(q) = <<>> THEN None ELSE Head(Tail(q))])
            /\ queue' = [queue EXCEPT ![doing[a].for] = Tail(q)]
            /\ UNCHANGED undefined
    /\ UNCHANGED <<entry, broken, history>>

PopLast(a) ==                  \* mutant: the newest message is taken
    LET q == queue[doing[a].for] IN
    /\ At(a, "pop")
    /\ IF q = <<>>
       THEN undefined' = TRUE /\ UNCHANGED <<doing, queue>>
       ELSE /\ Becomes(a, [doing[a] EXCEPT !.pc = "reply", !.msg = Last(q)])
            /\ queue' = [queue EXCEPT ![doing[a].for] = Front(q)]
            /\ UNCHANGED undefined
    /\ UNCHANGED <<entry, broken, history>>

Pop(a) ==
    LET q == queue[doing[a].for] IN
    /\ At(a, "pop")
    /\ IF q = <<>>
       THEN undefined' = TRUE /\ UNCHANGED <<doing, queue>>
       ELSE /\ Becomes(a, [doing[a] EXCEPT !.pc = "reply", !.msg = Head(q)])
            /\ queue' = [queue EXCEPT ![doing[a].for] = Tail(q)]
            /\ UNCHANGED undefined
    /\ UNCHANGED <<entry, broken, history>>

(* Sent once, to whoever has the descriptor now; the message is gone even  *)
(* when that fails. *)
Reply(a) ==
    /\ At(a, "reply")
    /\ spent' = [spent EXCEPT ![doing[a].msg] = @ + 1]
    /\ reads' = IF a = "main" THEN Append(reads, doing[a].msg) ELSE reads
    /\ Returns(a)
    /\ UNCHANGED <<entry, broken, queue, undefined, accepted, crossed, delivered, reached, stored>>

-----------------------------------------------------------------------------
Handle(a) == \/ Route(a) \/ Forward(a) \/ ForwardDangling(a) \/ ForwardFails(a) \/ Store(a)
             \/ Look(a) \/ Pop(a) \/ Reply(a)

Next ==
    \/ \E t \in Thread, f \in Fd, g \in Group : Connect(t, f, g)
    \/ \E t \in Thread, g \in Group : Rename(t, g)
    \/ \E f \in Fd : Break(f) \/ Disconnect(f)
    \/ \E a \in Actor, m \in Msg : ReceiveSendmsg(a, m)
    \/ \E t \in Thread, m \in Msg : KeepSendmsg(t, m)
    \/ \E a \in Actor, g \in Dest : ReceiveGetmsgs(a, g)
    \/ \E a \in Actor : Handle(a)

Spec == Init /\ [][Next]_vars

-----------------------------------------------------------------------------
(* Properties.                                                             *)

(* Every variable has its type, and a thread that stores, forwards or      *)
(* replies has a message in hand. *)
TypeOK ==
    /\ entry \in [Fd -> [group : Group \cup {None}, thread : Thread \cup {None}]]
    /\ broken \in SUBSET Fd
    /\ doing \in [Actor -> Doing]
    /\ queue \in [Dest -> Seq(Msg)]
    /\ undefined \in BOOLEAN
    /\ accepted \in SUBSET Msg /\ crossed \in SUBSET Msg
    /\ delivered \in SUBSET Msg /\ reached \in SUBSET Msg
    /\ spent \in [Msg -> Nat]
    /\ stored \in Seq(Msg) /\ reads \in Seq(Msg)
    /\ \A a \in Actor : doing[a].pc \in Sending \cup {"reply"} => doing[a].msg \in Msg

(* Where message m is: in the hands of threads, in the queue, or gone.     *)
Places(m) ==
    Cardinality({a \in Actor : doing[a].msg = m})
    + Cardinality({i \in DOMAIN queue[m.to] : queue[m.to][i] = m})
    + spent[m]

(* An accepted message is in one place: no interleaving hands the stored   *)
(* copy to two requesters, or drops it without having sent it.  It is kept *)
(* and sent to its destination too only when that connected, or took its   *)
(* id, between the search and the critical section that keeps the message  *)
(* and floods it; then it is in two. *)
OnePlace == \A m \in accepted : Places(m) = 1 \/ (m \in crossed /\ Places(m) = 2)

(* The client gets its messages in the order in which they were stored,    *)
(* also when peers take some of them.                                      *)
ReadsInOrder ==
    \A i, j \in DOMAIN reads : i < j =>
        \E k, l \in DOMAIN stored : k < l /\ stored[k] = reads[i] /\ stored[l] = reads[j]

(* The client is told OK,Delivered for a message that was not sent to its  *)
(* group only if, between the search and the send, the connection found    *)
(* for it ended, also when another group has connected on the same         *)
(* descriptor since, or its peer took another id.                          *)
DeliveredUnlessLost ==
    [][\A m \in Msg : m \in delivered' \ (delivered \cup reached')
          => doing["main"].pc \in {"dangling", "renamed"}]_vars

(* A handler about to pop finds its queue empty only because another one,  *)
(* that also looked before this one popped, has popped the last message,   *)
(* and nothing else leads to undefined behaviour: one requester of a queue *)
(* at a time would be safe.                                                *)
Exposed(a) == doing[a].pc = "pop" /\ queue[doing[a].for] = <<>>

EmptiedOnlyByAnother ==
    [][/\ \A a \in Actor : Exposed(a)' /\ ~Exposed(a) =>
             \E b \in Actor \ {a} : /\ doing[b].pc = "pop" /\ doing[a].pc = "pop"
                                    /\ doing[b].for = doing[a].for
                                    /\ doing'[b].pc = "reply"
       /\ undefined' /\ ~undefined => \E a \in Actor : Exposed(a)]_vars

-----------------------------------------------------------------------------
(* What the README says, and the code does not do.                         *)

(* "The server will ... respond to client commands": no command sequence   *)
(* brings it to undefined behaviour.                                       *)
NeverUndefined == ~undefined
=============================================================================
