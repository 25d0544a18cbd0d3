# TLA+ models of the programs of a networking course

The repository holds the programs of a networking course. The one with a life
of its own is the store-and-forward server of `src/Botnet/botnet`: it keeps
connections to the servers of other groups, passes messages on between them and
serves a command-line client. These modules model that server: its connection
table, its message queue, the clocks of its health monitor, its blocking sends
and the network of several servers; the select loop of `src/onlyConnect`; and
the solver of `src/UdpScan`, a client that works over UDP without retries. Line
numbers refer to `src/Botnet/botnet/server.cpp` unless another file is named.

## 1. Inventory

### Components

| component | state | operations | modelled in |
|---|---|---|---|
| peer connection table | `connectedServers`, `connectedGroupIds`, descriptors (48-50) | accept and HELO (684-727), `connectToServer` (100-235), drops by the health monitor (309-398), peer threads (618-641) | `ConnectionTable`, `PeerRegistry` |
| message queue of one server | `messageQueue` (51) | SENDMSG (475-538), GETMSGS (461-474), client SENDMSG and GETMSG (561-605) | `MessageRouter` |
| messages between servers | copies in queues and on connections, hops | the same handlers, KEEPALIVE (453-460), the monitor's rounds (309-359), `buildSENDMSG` (protocol.cpp 205-221) | `FloodNetwork`, `AtMostOnce` |
| keep-alive timing | `lastSeen`, `lastKA`, `lastGM`, `lastSR`, `lastCC` | `healthMonitorThread` (301-416), `lastSeen` in the handlers (424-427, 624-627) | `HealthMonitor` |
| blocking sends | `serverMutex`, the room on each connection | the monitor's rounds (315, 341, 367), floods (531-534, 587-589), forwards, answers | `LockedSend` |
| scan control | `isScanning`, `knownServers` | `triggerScan`, `tryKnownServers` (237-299), `scanner.cpp` | as callers in `ConnectionTable`, as time in `HealthMonitor` |
| command-line client (`client.cpp`) | one connection; prompting or waiting | one command and its answer at a time, QUIT | `LockedSend` |
| framing (`protocol.cpp`) | bytes on a socket | `sendCommand`, `receiveCommand` (11-105), `buildSENDMSG` (205-221) | hops only, in `FloodNetwork` |
| neighbour selection | none | `selectNeighbors` (scanner.cpp 84-152), never called | no |
| `src/Botnet/botnet_deploy` | the same `server.cpp`, `protocol.cpp`, `scanner.cpp` | | by the same models |
| select server (`src/onlyConnect/server.cpp`) | `clients`, `openSockets`, `maxfds`, `buffer` | accept, `clientCommand`, `closeClient`, the select loop | `SelectServer` |
| its clients (`client.cpp`, `myclient.cpp`) | one connection | connect, ask, read an answer, leave | `SelectServer` |
| puzzle solver (`src/UdpScan/puzzlesolver.cpp`) | secrets found, signature, target address | four challenges, forged checksum, knocks | `PuzzleSolver` |
| port scanner (`src/UdpScan/scanner.cpp`) | open ports | probes | no |

### How they interact

One process runs three kinds of thread. *main* connects to the servers given on
the command line, then accepts connections one at a time; a connection whose
first command is HELO becomes a peer, any other is a client that main serves to
its end. The *health monitor* wakes up every 30 seconds, sends KEEPALIVE,
GETMSGS and STATUSREQ in rounds of 60, 90 and 180 seconds, drops connections it
cannot send on and those silent for 300 seconds, and connects to more servers
when there are fewer than three. Each peer has a *peer thread* that reads
commands and handles them. All share the globals of 48-59 under one mutex,
`serverMutex`, which every handler takes and releases several times. A server
talks to others by frames over TCP; nothing is acknowledged.

The server of `src/onlyConnect` is one thread: a round of its loop is a select,
at most one accept, a `recv` for each ready client, and the clean-up of closed
clients. Its clients send a line and wait for what comes back.

### What is hard, and what correct means

* Handshakes: a group may connect to us while we connect to it. The table must
  hold one connection per group, in both structures, and free an id only with
  its connection. The duplicate test and the registration are far apart.
* Descriptors are numbers that the kernel reuses. Threads remember numbers,
  others close them. A clean-up must not reach another connection, and every
  descriptor must be released.
* Handlers that unlock in the middle: queues looked at and popped in two
  sections, references used after an unlock, a destination searched for in one section and
  the message kept and flooded in another. A message must be in one place, be
  read in order, and be reported delivered only when it was.
* Floods: no circles, an end, arrival where there is a way, one copy where
  there is one way; copies stored for a group go to it when it turns up; links
  fall with what they carry, and come up in the middle of a handler.
* Limits: 8 peers, `MAX_HOPS`, room for hops in a frame.
* Also in the code, and in the model: the clean-up of a rejected HELO closes before
  it erases (723-726), so that the erase can reach a new owner of the descriptor
  (`LeftByRenameOrMixUp` bounds what that does to the table); an inbound HELO with our
  own group id is accepted (433), against the comment at 185. Inbound connections are
  not counted against the limit of 8 (698), so no property says that a limit holds.
* The puzzle solver takes whatever datagram comes next for the answer to its last
  request, and reads a port or a phrase out of any text; answers may be late or lost, and a raw packet that may not be sent is
  waited for like any other.
* Blocking: sends have no timeout, and rounds and floods send with the mutex
  held. A peer thread needs the mutex to read on. Who can stop whom, and is
  main, which serves one client to its end, among them?
* Time: the thread that keeps connections alive is the one that sweeps silent
  ones, and the one that searches for servers for minutes.
* The select loop updates the map, the set and `maxfds` in three places, closes
  and reuses descriptors in between, starts with a set that was never cleared,
  and reads all clients' commands into one buffer.
* `PROJECT.json` lists every hazard with its line and the property that covers
  it, or why none does.

## 2. Modules

### `ConnectionTable` (abstract specification: `PeerRegistry`)

| model | code |
|---|---|
| `file`, `remote` | the process's descriptor table; the far end of each TCP connection |
| `servers`, `groupIds` | `connectedServers`, `connectedGroupIds` |
| `worker["main"]`, `worker["health"]` | where main and the health thread are, with their local variables |
| `peer[c]` | the peer thread started for connection `c`; it knows a descriptor only |
| `serving` | main has reached its accept loop |

A critical section of `serverMutex` is one action, and so is each call outside
it that matters to others (accept, connect, recv, close, pthread_create).
`close` is separate from the erase it belongs to wherever the code has them in
different sections: `MainRejectClose` / `MainRejectErase` (723, 724-726),
`PeerCleanup` / `PeerClose` (629-637, 639). `LowestFree` is the kernel's rule
for new descriptors, which is what makes reuse happen. `recv` on a descriptor
that is closed under the thread stays with the old connection until its far end
closes; the next `recv` reads from whatever the number names then. Main and
the health thread use `connectToServer` alike (`OutConnect` ... `OutClose`).

Left out: what only decides which address is tried (`knownServers`, the SERVERS
lists, `isScanning`), `lastHeloAttempt` (nothing reads it), the clock (a silent
peer is one whose thread is blocked in recv). `Forget` counts a far
end as shut once neither a descriptor nor a blocked thread refers to it: when it
closes after that, nobody can tell.

`PeerRegistry` says what the table promises: slots, of which each holds a group
or nobody; a group is admitted only while no slot holds it. `ConnectionTable`
implements it with `member[f] = servers[f].gid`.

### `MessageRouter`

One server's `messageQueue` and the threads that use it. A handler is cut at
each unlock: `Look` (464-466) and `Pop` (468-471); `Route` (511-514, 569-572), then
`Forward` outside the mutex, then `Store` (529-535, 585-590), which keeps the message and floods it
to the peers of that moment, the destination among them if it has become one. What a peer sends
with too many hops, or for this group, is kept at once (`KeepSendmsg`, 494-508).
Between any two steps `Disconnect` erases an entry, `Connect` makes one, and `Rename` gives one
another group (a second HELO, 437-439). A `Forward` whose entry was renamed goes to
the same connection all the same; one whose entry was erased becomes `ForwardDangling`, which reads
some descriptor through a reference that is no longer valid. A send fails when the peer is gone
(`Break`) and the server has not noticed. A `pop` of an empty queue sets `undefined`, after which the model
stops: nothing can be said of the program then.

`accepted`, `crossed`, `spent`, `delivered`, `reached`, `stored` and `reads` are history for the
properties. A message is `crossed` when its destination connects, or takes its id, after a handler's
search for it and before the handler's last critical section.

### `FloodNetwork` (abstract specification: `AtMostOnce`)

Several servers, each with its queue; links are established connections, with
one FIFO channel per direction, that come up and fall with the frames they
carry. `Frame` is `buildSENDMSG`: hops that do not fit in the message are all dropped. `TakeIn`
holds the ways of a message: too many hops (kept, without hops), for this
group (kept), for another (on its way on). What is on its way on is a `Task` in `hand[n]`, one per
thread at most (`Busy`): `Search` looks for the destination among the peers (511-514),
`Forward` sends outside the mutex (516), `Store` keeps and floods to those who are peers by then
(529-535). The client's SENDMSG (568-591) takes the same steps. Links come and go between them;
a task that has found a link which falls goes on by a dangling reference, to any peer or to
`Store`. The other handlers are one step: they change one queue in one critical section, and
`MessageRouter` cuts the look from the pop. `trail` is history: the servers that took a copy in. So is
`crossed`: the messages whose destination connected to a server in the middle of its task.

Left out: contents, timestamps, STATUSREQ and its answer, and messages a client
writes to its own group (`MsgAssumption`): such a message comes back to the
server it started from by design, as its destination. Two servers with the
same group id are not modelled here.

`AtMostOnce` says what a network without a circle promises to its clients: a message is
sent once, comes out at its destination at most once, and is taken by a client no more often than it
came out; a message that was excused before may come out again. `FloodNetwork` implements it, when its
links form no circle (`Forest`), with `excused = crossed`,
`arrived[m] = Copies(m)`, the copies of `m` in the queue at its destination and those
taken from there, and `got = read`. The exception is the code's: a destination that connects to a server
after its search (511-525, 569-581) and before its flood (529-535, 585-590) takes the message from the flood, and
again from the queue when it asks. Links, hops, queues on the way and requests are not in it.
A link is a way for good (`Possible`) if it is up at the start or may come up later:
three servers whose links come up one after the other and fall again can be a circle over
time, with a copy left in a queue at each.

### `PuzzleSolver`

One thread, one socket. An action is one receive with everything that follows up
to the next (`ReceiveChallenge` ... `ReceiveKnock`, in the order of `main`). A
receive takes the head of `inbox` or times out; `inbox` is filled by a network
that delays, reorders and loses, but does not duplicate. `at` says which receive the program
waits in, the others are its variables. `PortIn` and `PhraseIn` say which texts the regular
expressions and the quotes find something in, wanted or not. The server is external: its answers
are those of `src/UdpScan/notes.md` and of the capture `wireshark_bonus.pcapng`.
The forged packet is the sum `words` of its words but the last, the last word
(`Difference`) and the checksum; `Add` is one turn of the checksum loop.
A send may fail. Most failures end the program (`SendOrEnd`: `die`, or `send_knocks` returns); two go by
(`SendOrWait`): the forged packet's (178-180), and the raw packet's, whose socket is refused without
privileges and never tested (257-260).
`missed` is history: an answer was lost or came after its receive had ended; `unsent` too: a
datagram could not be sent.

### `HealthMonitor`

One connection between two servers, and the clocks that concern it. A tick is
the 30 seconds of the monitor's sleep (306). `Turn` is one turn of the loop: the
rounds that are `Due` (309-385), the sweep of a `Silent` peer (387-398) and the
search for servers (409-413), which makes the next turn late by any time of
`Search`. `Handle` is a peer thread's: every command but an empty one refreshes
`lastSeen` (424-427), and some are answered. What is due happens before the next
tick, in any order. A machine may stop without a word (`Crash`); the two may
connect again (`Connect`). `PeerEnds` may come late: a `recv` that was under way
when the other thread closed the descriptor keeps the socket open.

### `LockedSend`

Servers, each with `serverMutex`, a health monitor, a peer thread per connection
and main; connections with room for `Cap` frames per direction. Critical
sections with a send in them are `Lock`, `Send` (once for each peer) and
`Finish`; those without one are a single step that needs the mutex to be free
(`Handle`, `Again`, `Command`). A peer thread is at `recv`, then at `touch`
(424-427), then at its answer, forward (516, without the mutex) or flood (531-534, with
it), then `again` (624-627). A loop over `connectedServers` goes in the order of the descriptors (`At`). `Ready` says that what a
thread waits for is there: the mutex, room, or a frame. `Deaf` peers do not read. main serves the clients of its backlog one after
the other; `client` is what each `client.cpp` is doing. The content of a message is its
destination and its hops, which decide where it goes.

### `SelectServer`

The loop of `src/onlyConnect/server.cpp`, cut where its clients can act:
`Select`, `Accept`, one `HandleCommand` or `HandleGone` per ready client in the
order of the map, `EndRound`. `file` is the process's descriptor table, `clients`
the keys of the map, `ready` what is left of `readSockets`, `n` the counter that
the log line at 299 depends on. `garbage` is what `openSockets` starts with (228:
there is no `FD_ZERO`); `clientLen` may be negative for the same reason. `buffer`
holds whose byte is where. The model stops when the program's behaviour is
undefined: a refused accept puts -1 into a set of descriptors, and a read that fills the
buffer leaves no terminator. Commands arrive whole.

## 3. Runs

Deadlock is not checked in any run: all instances are finite, and once their
connections or messages are used up there is nothing left to do.

| run | instance | shows |
|---|---|---|
| `table` | 3 connections, 2 descriptors, 2 groups, 1 address | `TypeOK`, `UniqueGroups`, `GroupsRegistered`, `DescriptorsHeld`, `FreedWithConnection`, `LeftByRenameOrMixUp`, `Refinement` |
| `live` | 2 connections, own group among the peers', thread creation may fail | `DescriptorsReleased` |
| `square` | 5 servers, a square and a late link, 2 messages | `TypeOK`, `LoopFree`, `PromisesKept`, `FloodsEnd` |
| `star` | 4 servers in a star whose links fall and rise, a message from one end to another, everybody asking | `OnceOnTree`, `StoredReachesPeer`, `DeliversOnce` |
| `router` | 2 peer threads, the client, 2 descriptors, 3 messages | `TypeOK`, `OnePlace`, `ReadsInOrder`, `DeliveredUnlessLost`, `EmptiedOnlyByAnother` |
| `solver` | 4 words, every sum and wanted checksum, 2 knocks | `TypeOK`, `ProceedsWithSecrets`, `FailsOnlyWhenMissed`, `ForgedWithinOne`, `Ends` |
| `select` | 2 clients, 2 commands each, 2 descriptors, a buffer of 3, all garbage | `TypeOK`, `SelectSeesAll`, `SelectNeverFails`, `AllHandled`, `NothingOlder`, `Answered`, `Released` |
| `monitor` | 2 servers, the code's times, searches of 0, 4 and 6 minutes | `TypeOK`, `SilentDropped`, `LivingKept` |
| `locked` | 2 servers, a deaf peer, 2 clients, 2 rounds, 1 command | `TypeOK`, `StopsOnlyInJam`, `Answered` |

The properties, in words:

* `UniqueGroups`: no two entries of the table carry the same group.
* `GroupsRegistered`: a connected group is in `connectedGroupIds`.
* `FreedWithConnection`: an id leaves `connectedGroupIds` only in a step that
  takes its connection out of the table.
* `LeftByRenameOrMixUp`: a group that loses its connection and stays in
  `connectedGroupIds` (it is refused from then on) lost it by a rename (438), or
  in a step of a thread that holds that descriptor and is not the one the entry is
  for, or whose `pthread_create` failed (714). The monitor's drops leave nothing behind. The leftover of a
  failed `pthread_create` is permitted, not caught: the code leaves it.
* `DescriptorsHeld`: an open descriptor is with a thread that will close it: the
  worker that opened it, for the same connection, or the peer thread started for that connection.
  Closes that hit another thread's descriptor (723, 639) close too much, never too little.
* `DescriptorsReleased`: a connection whose far end has closed gives its
  descriptor back.
* `LoopFree`: no copy is taken in twice by one server. The receiver's loop test
  (482) and the sender's test of the next hop (532) are each enough for it; what both
  depend on is the upkeep of the hop list (515, 528), which the mutant omits.
  `FloodsEnd`: in the end no copy is in flight. `PromisesKept`: a message
  whose destination was within `MaxHops` links arrives. `OnceOnTree`: where the
  links form no circle, no more than once, but for messages whose destination connected to a server
  between its search and its flood. `DeliversOnce`: there the network is the service `AtMostOnce`,
  with that exception.
* `StoredReachesPeer`: a queue for a group that is a peer is emptied, unless the
  link falls.
* `OnePlace`: an accepted message is in one thread's hands, or once in the
  queue, or has left the server once. It is in two places, kept and sent to its destination, only when
  that connected, or took its id, between the search and the flood (525-529, 581-585).
  `ReadsInOrder`: the client reads in the
  order in which messages were stored. `DeliveredUnlessLost`: "OK,Delivered"
  (592) of a message that was not sent to its group is possible, and only when the connection
  that the search found (570) ended, or its peer took another id (438), before the send (573).
  `EmptiedOnlyByAnother`: a
  handler that is about to pop finds its queue empty only because another handler, which had looked
  into the same queue, has popped meanwhile; nothing else leads to undefined behaviour.
* `ProceedsWithSecrets`: the final challenge is only tried with the ports and the
  phrase that the challenges give. `FailsOnlyWhenMissed`: the solver ends without
  Congratulations only when an answer was missed, a datagram could not be sent (without privileges the raw
  packet cannot, `src/UdpScan/README.md` 175-180), or the forged checksum was not
  the wanted one. `ForgedWithinOne`: the forged packet verifies, and its checksum is the wanted one or,
  when the packet's own was lower, one less: the two bytes are a difference modulo
  2^16 (puzzlesolver.cpp 171), the sum is modulo 2^16 - 1, so the comment at 170 ("add bytes to
  force desired checksum") holds for half of the wanted values. `Ends`: the solver ends.
* `SelectSeesAll`: before every select the map is the open connections, and all of
  them and the listening socket have their bit and are not above `maxfds`. (`maxfds`
  never goes down, although the comment at 133 wants it to: the closed client is still in
  the map. That costs nothing but a longer select.)
* `SelectNeverFails`: "select failed - closing down" (245) is never logged, although
  `openSockets` is never cleared: a bit left in it is above `maxfds`, and by the time
  `maxfds` reaches it the kernel, which gives out the lowest free descriptor, has handed that one out.
  `AllHandled`: "not all sockets handled" (299) is only the doing of such bits, of stdin and the like.
* `NothingOlder`: behind a command in the buffer can be bytes of clients read
  earlier in the same round, and no others.
* `Answered` (`SelectServer`): a waiting client is answered, unless its command was empty or printed nothing.
  `Released`: the connection of a client that has left is closed.
* `LivingKept`: a living peer is dropped for silence only if both monitors had
  been away in a search, the own one for 270 seconds and more, the other for 300 (in steps of the sweep's 30
  seconds, so that the absence that matters may be up to a turn shorter): one
  monitor that makes its rounds is enough for both ends. `SilentDropped`: a peer
  that is gone is dropped within 300 seconds, a search and a turn.
* `StopsOnlyInJam`: threads that have work are all stopped only when a circle
  of servers block each other's connections, or a deaf peer's connection is full
  (that is enough to stop a server: the round that sends to it holds the mutex).
  Waiting for the mutex alone never stops anything.
* `Answered` (`LockedSend`): a command is answered unless such a jam lasts, or the
  client that main serves instead neither asks nor hangs up (730).

Three runs show where the code does not do what its comments, log lines or
documents say:

| run | property | what happens |
|---|---|---|
| `cleanup` | `CleanupErasesOwn` | a peer thread that wakes up late cleans up another peer's entry and closes its socket (629-639) |
| `truncated` | `LoopFree` | with `Room = 1` a long message loses all its hops (protocol.cpp 212-216) and circles |
| `undefined` | `NeverUndefined` | two requesters pop the same last message (464-471, 595-602) |

### Bounds, and why they are enough

* `Conn` (3, or 2 for liveness) counts the connections of a whole run. Three on
  two descriptors is what descriptor reuse under a waiting thread needs: the
  old connection, the one that takes its number, and one beside them. The
  violation of `cleanup` needs no more.
* `MaxServers` is 2 in place of 8.
* `Group` has two members, interchangeable by symmetry; in run `live` one of them is
  `MyGroup`.
* `Msg`: each message is sent once. Two requesters and two messages for one
  queue are what order and double hand-out need.
* In run `star` the middle server forwards, keeps and floods while the ends come and go: a message
  through it meets its destination before the search, in the middle of the handler, and after it,
  and the other end takes part in the flood. `MaxHops = 2` is the longest way.
* `MaxHops = 3` in place of 48: the longest way across the square has three
  links, so the limit is met and copies beyond it are seen. `Room = MaxHops`
  says that hops always fit; `Room = 1` that they may not.
* `Asking` names the servers whose GETMSGS rounds are explored; a round waits
  until the request of the round before has been taken up (they are 60 and 90
  seconds apart).
* `Mod = 4` in place of 65536: sums with and without a carry, and wanted checksums on
  both sides of the packet's own. Two knocks: one that is answered late, and the last.

* `SelectServer`: two clients on two descriptors reuse a number in the round in which
  it was closed and in the next, are ready in one round, and have one's command in the
  buffer when the other's is read. `Size = 3` allows reads that fill the buffer and reads that do not.
* `HealthMonitor`: the periods are those of the code (2, 3, 6, 4 and 10 ticks). A
  search of 8 ticks is too short to matter to the limit of 10 and one of 12 is not; both phases of the two
  monitors against each other are reached. `Search` bounds what `triggerScan` takes: 200 ports
  at 0.2 seconds, and connections of 22 seconds and more, come to minutes.
* `LockedSend`: `Cap = 1` makes a connection full with one frame; two rounds and a
  command are what two servers need to block each other while a third connection is
  full. More rounds or clients repeat this.

Each passing property has a mutant, kept in the module beside the definition it
replaces, that breaks it.

### Fairness

* `ConnectionTable`: a worker and a peer thread that can take a step of their own
  take one. This is the scheduler. Accepting, connecting and what far ends do
  is not fair. A handshake that gets no answer ends (`OutFails`), because
  of its ten-second `select`; a far end that stops inside a frame would
  defeat that, and is outside this model. A thread that is blocked in recv on a
  descriptor closed under it is only woken when the far end closes.
* `FloodNetwork`: each channel's receiver goes on (`WF` on `Receive`), and so do the handlers
  under way (`WF` on `Handle`: a thread that runs) and the
  rounds of the health monitor. All assume that sends do not block; when they do is the
  subject of `LockedSend`.
* `LockedSend`: some thread that can take a step takes one (`WF` on all threads
  together). The load is bounded, so this is enough for every thread to get its
  turn in the end, and nothing is assumed of who gets the mutex. Rounds, users and hang-ups come or do not.
* `SelectServer`: the server goes on, and a client that waits reads what arrives.
* `HealthMonitor` and `MessageRouter` have no liveness property.
* `PuzzleSolver`: the program goes on (`WF` on `Solve`); each receive ends after
  `TIMEOUT_SEC` (puzzlesolver.cpp 82-85). Nothing is assumed of the network.

## 4. Proofs

The modules `ConnectionTableProofs`, `MessageRouterProofs`, `FloodNetworkProofs`,
`FloodForestProofs`, `HealthMonitorProofs`, `LockedSendProofs`, `SelectServerProofs` and `PuzzleSolverProofs` hold
for all values of the constants that satisfy the models' `ASSUME`s, which TLC evaluates in
every run. Each model has a theorem `TypeCorrect`, its `TypeOK`; the others are those below.
Every safety invariant and every action property of the passing runs is a theorem.

**Connection table.** `TypeCorrect` shows `TypeOK`, which includes that a thread
at work has a descriptor. The rest is one induction over
`TableInv == TypeOK /\ UniqueGroups /\ GroupsRegistered`. Neither part is inductive
alone: `UniqueGroups` after a registration needs that the id the test did not
find in `connectedGroupIds` is in no entry, which is `GroupsRegistered`; and
`GroupsRegistered` after a clean-up, which erases an id from the set, needs that
no other entry has it, which is `UniqueGroups`. Each step of the table is shown
to be one of two kinds, named in the module: `Claims`, one entry gets a group
that was not registered, or `Vacates`, entries go with their ids
and nothing else is freed. From these two `OneConnectionPerGroup`, `DuplicatesSeen`,
`GroupFreedWithItsEntry` and the refinement `TableIsRegistry` follow: a claim is
`Admit`, a vacating step is `Release` or a stutter.

`OnlyRenamesLeaveBehind` is the property `LeftByRenameOrMixUp`: a step that takes an entry
away and leaves its group id behind is one of a thread that has that entry's descriptor
(lemma `LeftByOneEntry`). It holds with failing thread creation, too.

The other theorems assume `~SpawnMayFail`. The assumption is needed: when `pthread_create`
fails for an outbound peer, 227-232 erase the group id of the handshake from
`connectedGroupIds` whoever holds it by then.

`NoDescriptorLost` is `DescriptorsHeld` by induction over `HeldInv`, which adds that
a worker's connection has no peer thread yet (`WorkersOwn`), that two workers are never busy with
the same connection (`WorkersApart`), and that a connection that a thread or a descriptor
names is not fresh (`NoneFresh`): a step that starts a peer thread would otherwise overwrite one that
runs. Every step is shown to open a descriptor for a worker, let a thread go on, close a
number, erase entries, hand a connection to its peer thread, or sweep. A close by number
may hit a connection that is not the thread's. It does not disturb the invariant: a descriptor that is closed need
not be held.

`OnlySweepsMixUp` takes finding `cleanup` apart. In a behaviour without `HealthNext`, where the
monitor drops nobody, every thread's descriptor is its own connection's (`WorkersUse`,
`PeersUse`), and an entry of the table is that of the connection on its descriptor, or the
one that main closed at 723 and is about to erase (`EntriesUsed`); so `CleanupErasesOwn` holds. The
mixed-up clean-ups, and the closes of other peers' sockets, all come from the monitor's close (392-398)
under a thread that still holds the number. As with `HeldInv`, no assumption on
`SpawnMayFail` is made.

**Message queue.** `DeliveredIsTrue` is `DeliveredUnlessLost`. It rests on `RouterInv`: what a thread's place in its handler
says about the message in its hand (`Holds`), the queue it looks into (`LooksUp`) and the connection
it is about to send on (`Aims`: the group of the entry is the message's, until the entry is renamed or erased).
`MessagesInOnePlace` says `OnePlace` without
counting: of one message there is at most one hand and at most one slot of one queue, never
both, and it has been spent once when it is accepted and in neither (`PlaceInv`); a crossed message that no
handler waits to send has been spent once more, or not. That only a crossed one is kept and sent is `MissInv`: no
two entries have one group (`Single`), and while a handler that searches no more has a message
that is not crossed, no connection that works is of its destination (`Misses`), so the flood does not reach it.
Threads with nothing to do have nothing in hand, and a message in a queue is for that queue;
both are part of the invariant. `ReadInOrderOfStorage` rests on `OrderInv`: what the client has
read, then the message main has in hand, then the client's queue, is in order a part of what was stored.
`EmptyQueueIsRaced` is `EmptiedOnlyByAnother`: a queue gets shorter only by a pop, and a handler
comes to its pop only past a look that found a message. From it
follows `OneRequesterIsSafe`: in a behaviour where no two handlers are between look and pop of one
queue (`Alone`), `NeverUndefined` holds. One critical section around both would make it so.

**Flood network.** `TypeCorrect` shows `TypeOK`, with the bound on hops.
`FloodsDoNotCircle` shows `LoopFree` when `MaxHops <= Room`. It rests on `FloodInv`: in
every copy in flight or in a handler's hand the hops are the trail or are empty, and the destination is
not in the trail; a copy in flight without hops is on the link to its destination; a
copy stored for another group is like one in flight, and one stored at its
destination has a trail without repetitions. The loop test looks at the hops and so,
by the invariant, at the trail. The part about copies without hops carries the proof
over the limit, where the code clears the list and the loop test no longer sees
anything: such copies are only ever sent to their destination, which has not seen them.

`FloodForestProofs` shows what a network without a circle adds. `ArrivesOnceInForest` is
`OnceOnTree`, when `MaxHops <= Room`. The number of copies of a message is not bounded by one,
even on a line: a server that cannot forward stores a copy and floods others. What is at most one
is the number of copies *on their way*: in flight over a link with the destination beyond
it, or stored at the destination's neighbour or there (`Coming`), or in the hand of a server that may still
send it there (`Leading`). Only they can come out, since a queue
is emptied by its own group's requests, which come from the neighbours. `Beyond(a, b)` is what
is reached from `b` without the link to `a`; two links of one server have nothing beyond them in
common (`BeyondApart`), so a flood makes at most one copy that leads to the
destination (`FloodOne`), and a copy that comes in from where its destination lies leads further
away for ever (`FloodAway`). The remaining danger is a server that holds a copy and passes one on as well.
A neighbour of the destination that finds it as a peer forwards and does not store. One that does not
find it, stores; no copy of its flood is on its way, unless the destination has become a peer
since the search, and then the message is `crossed`: what a task says about the links it
runs beside (`TaskLinked`) is part of the invariant. `ForestInv` is
`FloodInv`, where copies can come from and which links they use (`OriginInv`), and, for each message that is
not crossed, one copy on its way as long as it has not been read, and none afterwards.

`ForestDeliversOnce` is the refinement of `AtMostOnce`. A step that takes a copy in at its
destination is `Arrive`, for the first time by `ForestInv` if the message is not crossed; GETMSG is `Get`; the
client's SENDMSG is `Send`; a link that comes up is `Excuse` for the messages it crosses; every
other step of servers, rounds and links leaves `Copies` and `read` as they are.
Links that fall destroy copies, which the abstract service allows: it promises nothing arrives
twice, not that it arrives.

**Health monitor.** `LivingPeerKept` and `SilentPeerDropped` hold for any periods and search times: the
bounds in the properties are expressions in them. A round is late by no more than the monitor's absence
(`RoundsInTime`). A server has heard its peer since the peer's last KEEPALIVE round, and since
its own GETMSGS round, unless a frame is on its way (`HeardSinceKA`, `HeardSinceGM`); so each
of the two monitors alone bounds the silence. `SilenceInTurn` does it for the other theorem.

**Blocking sends.** `OnlyJamsStop` is `StopsOnlyInJam` for any servers, connections and room. Its
invariant `WaitInv` adds two facts to the types: the thread that has a mutex is sending
(`HolderSends`), and a peer thread is reading or has work to do (`PeersRead`). Suppose nobody is
ready. A thread that waits for the mutex waits for one that sends, so a server with work is blocked on some
connection (`StuckIsBlocked`). If the peer at the other end runs this program, the connection has
something to read, so that peer's thread does not wait for frames: it has work, and its server
is blocked as well (`BlockerIsBlocked`). The set of all blocked servers is therefore a
jam, unless a peer that does not read is at the end. `Ready` is the guard of the
actions and stands for `ENABLED`, which the proof system does not know.

**Select server.** One induction over `LoopInv`: the map is the open descriptors and those closed
in this round (`MapInv`), open descriptors have their bits and bits of closed ones are above `maxfds`
(`BitInv`), which bounds the map (`MaxInv`); an accept finds a connection (`WaitInv`).
`SelectCoversAll` and `SelectAlwaysWorks` follow. The step that needs care is the accept, where `maxfds`
may grow: the new descriptor is the lowest free one, so no bit of a closed descriptor is below it. A
close clears its own bit and leaves `maxfds` as it is. `RoundForgets`
rests on `BufferInv`, the bytes of the buffer are of this round; `AllAreHandled` on `CountInv`: `n` is the
number of sockets left in `ready`, and those are the listening socket before the accept,
clients in the map, and garbage.

**Puzzle solver.** `ForgedNearlyRight` is linear arithmetic over words of any size (lemma
`ForcedChecksum`). `ProceedsRight` rests on `SolverInv`: as long as every receive has got
its answer, at most one datagram is about, the last request or its answer; once
a receive has not, what it was to find stays missing, and the solver does not
proceed. This is why it needs no check of who answered. It is also why duplicates, which the
model excludes, would break it: a second copy of the first port's answer would be
read as the second port.

`SucceedsUnlessMissed` says `FailsOnlyWhenMissed`: while nothing was missed, everything was sent and the
checksum is the wanted one, the run is on track (`OnTrack`). The answer or the request of the current receive is about,
the secrets of the earlier ones are found, and the server has heard every knock but
the one under way.

Checked by TLC only: the liveness properties `FloodsEnd`, `PromisesKept`, `StoredReachesPeer`,
`DescriptorsReleased`, `Ends`, `Answered` (twice) and `Released`, since fairness is beyond the
proof system.

## 5. Not modelled

* Frames as bytes (`sendCommand`, `receiveCommand`): the models send and receive frames whole.
  Whether a send is cut short depends on the kernel, and what two interleaved
  frames say to a receiver on their bytes. The same holds for text that does not
  parse: an exception of `std::stoi` (196, 454) ends the process.
* `isScanning`, the thresholds of 3 and 8, `knownServers` and the TCP port scan of
  `scanner.cpp` decide which addresses are tried, and when. `ConnectionTable` lets any address be tried
  at any time, `HealthMonitor` has the time it takes.
* `selectNeighbors` (`scanner.cpp` 84-152): nothing calls it.
* `src/Botnet/botnet_deploy`: `server.cpp`, `protocol.cpp` and `scanner.cpp` are those of
  `src/Botnet/botnet` to the byte, so the models hold of them. `client.cpp` differs: it writes
  `SENDMSG,to,text` where that of `botnet` writes `SENDMSG,to,MY_GROUP,text` (`client.cpp` 116), of which
  the server (561-566) takes the group id for a part of the text.
* `src/UdpScan/scanner.cpp` probes ports one after the other and prints those that
  answer. A late answer is counted for the next port; only the reader of the list depends on it.
* The own group id on an inbound connection (433): the models let it connect (run `live`, and the theorems
  about `MessageRouter`), and no property says that it should not.
* Duplicated datagrams: with them `ProceedsWithSecrets` does not hold, see above.
* What the commands of `src/onlyConnect` run, and its `open_socket`, which runs once before the loop.
