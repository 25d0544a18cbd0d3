-------------------------- MODULE FloodForestProofs --------------------------
(***************************************************************************)
(* Theorems about FloodNetwork where the links form no circle: whatever    *)
(* the servers and messages, and however links come and go, a message      *)
(* whose destination connects to no server that is about to keep it comes  *)
(* out at its destination at most once.                                    *)
(***************************************************************************)
EXTENDS FloodNetworkProofs, FiniteSetTheorems, FunctionTheorems

-----------------------------------------------------------------------------
(* The part of a forest beyond a link.                                     *)

LEMMA LinkEnds == ASSUME NEW a \in Node, NEW b \in Node, {a, b} \in Possible PROVE a # b
BY LinkAssumption DEF Possible, Pair

LEMMA BeyondStarts == ASSUME NEW a \in Node, NEW b \in Node PROVE b \in Beyond(a, b)
BY DEF Beyond

LEMMA BeyondGrows ==
    ASSUME NEW a \in Node, NEW b \in Node, NEW p \in Beyond(a, b), NEW q \in Node,
           {p, q} \in Possible, {p, q} # {a, b}
    PROVE  q \in Beyond(a, b)
<1> SUFFICES ASSUME NEW S \in SUBSET Node, b \in S, Closed(S, Possible \ {{a, b}})
             PROVE  q \in S
    BY DEF Beyond
<1>1. p \in S
      BY DEF Beyond
<1>2. QED
      BY <1>1 DEF Closed

LEMMA BeyondLeast ==
    ASSUME NEW a \in Node, NEW b \in Node, NEW S \in SUBSET Node, b \in S,
           Closed(S, Possible \ {{a, b}})
    PROVE  Beyond(a, b) \subseteq S
BY DEF Beyond

(* Going on from b, by another link than it was reached by, stays beyond.  *)
LEMMA BeyondOnward ==
    ASSUME Forest, NEW a \in Node, NEW b \in Node, NEW p \in Node,
           {a, b} \in Possible, {b, p} \in Possible, p # a
    PROVE  Beyond(b, p) \subseteq Beyond(a, b)
<1> DEFINE S == Beyond(a, b) \cap Beyond(b, p)
<1>1. a # b /\ b # p
      BY LinkEnds
<1>2. {b, p} # {a, b}
      BY <1>1
<1>3. p \in S
      BY <1>2, BeyondStarts, BeyondGrows
<1>4. a \notin Beyond(a, b) /\ b \notin Beyond(b, p)
      BY DEF Forest
<1>5. ASSUME NEW x \in S, NEW y \in Node, {x, y} \in Possible, {x, y} # {b, p}
      PROVE  y \in S
      <2>1. y \in Beyond(b, p)
            BY <1>5, BeyondGrows
      <2>2. x # a /\ x # b
            BY <1>4, <1>5
      <2>3. {x, y} # {a, b}
            BY <2>2
      <2>4. y \in Beyond(a, b)
            BY <1>5, <2>3, BeyondGrows
      <2>5. QED
            BY <2>1, <2>4
<1>6. S \in SUBSET Node /\ Closed(S, Possible \ {{b, p}})
      BY <1>5 DEF Closed, Beyond
<1> HIDE DEF S
<1>7. Beyond(b, p) \subseteq S
      BY <1>3, <1>6, BeyondLeast
<1>8. QED
      BY <1>7 DEF S

(* What lies beyond two links of one server has nothing in common.         *)
LEMMA BeyondApart ==
    ASSUME Forest, NEW b \in Node, NEW p \in Node, NEW q \in Node,
           {b, p} \in Possible, {b, q} \in Possible, p # q,
           NEW g \in Beyond(b, p)
    PROVE  g \notin Beyond(b, q)
<1> DEFINE S == Beyond(b, p) \ Beyond(b, q)
<1>1. b # p /\ b # q
      BY LinkEnds
<1>2. b \notin Beyond(b, p) /\ b \notin Beyond(b, q)
      BY DEF Forest
<1>3. p \notin Beyond(b, q)
      <2>1. {p, b} # {b, q} /\ {p, b} \in Possible
            BY <1>1
      <2>2. QED
            BY <1>2, <2>1, BeyondGrows
<1>4. p \in S
      BY <1>3, BeyondStarts
<1>5. ASSUME NEW x \in S, NEW y \in Node, {x, y} \in Possible, {x, y} # {b, p}
      PROVE  y \in S
      <2>1. y \in Beyond(b, p)
            BY <1>5, BeyondGrows
      <2>2. x # b /\ y # b
            BY <1>2, <1>5, <2>1
      <2>3. {y, x} # {b, q} /\ {y, x} \in Possible /\ x \in Node
            BY <1>5, <2>2 DEF Beyond
      <2>4. ASSUME y \in Beyond(b, q) PROVE FALSE
            <3>1. x \in Beyond(b, q)
                  BY <2>3, <2>4, BeyondGrows
            <3>2. QED
                  BY <1>5, <3>1
      <2>5. QED
            BY <2>1, <2>4
<1>6. S \in SUBSET Node /\ Closed(S, Possible \ {{b, p}})
      BY <1>5 DEF Closed, Beyond
<1> HIDE DEF S
<1>7. Beyond(b, p) \subseteq S
      BY <1>4, <1>6, BeyondLeast
<1>8. QED
      BY <1>7 DEF S

-----------------------------------------------------------------------------
(* The invariant behind OnceOnTree.                                        *)

(* A copy in flight from a to b is on its way when its destination lies    *)
(* beyond b; a stored one, when it is at a neighbour of its destination or *)
(* there.  Only copies on their way can arrive.                            *)
Flying(w, m, a, b) ==
    {i \in 1..Len(w[a][b]) : w[a][b][i].kind = "sendmsg" /\ w[a][b][i].copy.msg = m}
Waiting(q, m, n) == {i \in 1..Len(q[n][m.to]) : q[n][m.to][i].msg = m}

Near(n, g) == n = g \/ {n, g} \in Possible

(* The copies of m on their way, at a place: a channel or, where a = b, a  *)
(* server's queue for m's destination. *)
Coming(w, q, m, a, b) ==
    IF a = b
    THEN IF Near(a, m.to) THEN Waiting(q, m, a) ELSE {}
    ELSE IF m.to \in Beyond(a, b) THEN Flying(w, m, a, b) ELSE {}

None(w, q, m) == \A a, b \in Node : Coming(w, q, m, a, b) = {}

AtMostOne(w, q, m) ==
    \A a, b, c, d \in Node : \A i \in Coming(w, q, m, a, b), j \in Coming(w, q, m, c, d) :
        a = c /\ b = d /\ i = j

(* A handler leads on when a server its copy has not been to is on the way *)
(* to the destination. *)
Ahead(n, c) ==
    \E d \in Node : {n, d} \in Possible /\ c.msg.to \in Beyond(n, d) /\ d \notin Range(c.hops)

Leading(h, m, n) == {t \in h[n] : t.copy.msg = m /\ Ahead(n, t.copy)}

NoneLeads(h, m) == \A n \in Node : Leading(h, m, n) = {}

OneLeads(h, m) ==
    \A n, p \in Node : \A t \in Leading(h, m, n), u \in Leading(h, m, p) : n = p /\ t = u

(* One copy of m at most is on its way, in a place or in hand. *)
Sole(w, q, h, m) ==
    /\ AtMostOne(w, q, m)
    /\ OneLeads(h, m)
    /\ NoneLeads(h, m) \/ None(w, q, m)

Nowhere(w, q, h, m) == None(w, q, m) /\ NoneLeads(h, m)

OneComes(w, q, h, r, m) ==
    /\ Sole(w, q, h, m)
    /\ r[m] \in {0, 1}
    /\ r[m] = 1 => Nowhere(w, q, h, m)

(* Where a copy comes from: a client sent its message, and the server that *)
(* sends, keeps or handles it took it in.  Frames travel on links only.    *)
Origin(n, c, s) == n \in Range(c.trail) /\ c.msg \in s

WiresFrom(w, s) ==
    \A a, b \in Node : \A i \in 1..Len(w[a][b]) :
        w[a][b][i].kind = "sendmsg" => Origin(a, w[a][b][i].copy, s)

QueuesFrom(q, s) ==
    \A n, g \in Node : \A i \in 1..Len(q[n][g]) : Origin(n, q[n][g][i], s)

HandsFrom(h, s) == \A n \in Node : \A t \in h[n] : Origin(n, t.copy, s)

WiresLinked(w, L) == \A a, b \in Node : w[a][b] # <<>> => {a, b} \in L

(* What a handler at n has found out of the links: a destination it will   *)
(* send to is a peer; one that came back since is noted in crossed.        *)
TaskLinked(n, t, L, x) ==
    /\ t.at = "forward" => {n, t.copy.msg.to} \in L
    /\ t.at = "dangling" => {n, t.copy.msg.to} \in Possible
    /\ t.at \in {"dangling", "store"} /\ {n, t.copy.msg.to} \in L => t.copy.msg \in x

HandsLinked(h, L, x) == \A n \in Node : \A t \in h[n] : TaskLinked(n, t, L, x)

OriginInv ==
    /\ links \subseteq Possible
    /\ crossed \subseteq sent
    /\ WiresLinked(wire, links)
    /\ HandsLinked(hand, links, crossed)
    /\ WiresFrom(wire, sent)
    /\ QueuesFrom(queue, sent)
    /\ HandsFrom(hand, sent)

MessageInv(m) ==
    /\ m \notin crossed => OneComes(wire, queue, hand, read, m)
    /\ m \notin sent => read[m] = 0

ForestInv ==
    /\ FloodInv
    /\ OriginInv
    /\ \A m \in Msg : MessageInv(m)

-----------------------------------------------------------------------------
(* What the operators of the model do to the copies that are coming.       *)

(* messageQueue with one copy more, and with the first of a queue gone. *)
WithCopy(n, g, c)  == [queue EXCEPT ![n][g] = Append(@, c)]
WithoutFirst(n, g) == [queue EXCEPT ![n][g] = Tail(@)]

LEMMA ComingPositive ==
    ASSUME NEW w \in Wires, NEW q \in Queues, NEW m \in Msg, NEW a \in Node, NEW b \in Node,
           NEW i \in Coming(w, q, m, a, b)
    PROVE  i \in Nat \ {0}
<1>1. w[a][b] \in Seq(Packet)
      BY DEF Wires
<1>2. m.to \in Node
      BY MsgAssumption
<1>3. q[a][m.to] \in Seq(Copy)
      BY <1>2 DEF Queues
<1>4. Len(w[a][b]) \in Nat /\ Len(q[a][m.to]) \in Nat
      BY <1>1, <1>3
<1>5. QED
      BY <1>4 DEF Coming, Flying, Waiting

LEMMA FewerComing ==
    ASSUME NEW m, NEW w, NEW q, NEW w2, NEW q2,
           \A a, b \in Node : Coming(w2, q2, m, a, b) \subseteq Coming(w, q, m, a, b)
    PROVE  /\ AtMostOne(w, q, m) => AtMostOne(w2, q2, m)
           /\ None(w, q, m) => None(w2, q2, m)
BY DEF AtMostOne, None

(* The first frame of a channel is taken: the others move up, and if it    *)
(* was the one copy that was coming, none is left. *)
LEMMA TakenComing ==
    ASSUME wire \in Wires, NEW q \in Queues, NEW a \in Node, NEW b \in Node, a # b,
           wire[a][b] # <<>>, NEW m \in Msg, AtMostOne(wire, q, m)
    PROVE  /\ AtMostOne(Taken(a, b), q, m)
           /\ None(wire, q, m) => None(Taken(a, b), q, m)
           /\ (/\ m.to \in Beyond(a, b) /\ Head(wire[a][b]).kind = "sendmsg"
               /\ Head(wire[a][b]).copy.msg = m)
              => /\ None(Taken(a, b), q, m)
                 /\ 1 \in Coming(wire, q, m, a, b)
<1> DEFINE t == Taken(a, b)
           Back(c, d, i) == IF c = a /\ d = b THEN i + 1 ELSE i
<1>1. \A c, d \in Node : t[c][d] = IF c = a /\ d = b THEN Tail(wire[a][b]) ELSE wire[c][d]
      BY DEF Taken, Wires
<1>2. /\ Len(Tail(wire[a][b])) = Len(wire[a][b]) - 1
      /\ \A i \in 1..Len(Tail(wire[a][b])) : Tail(wire[a][b])[i] = wire[a][b][i + 1]
      /\ Len(wire[a][b]) \in Nat \ {0}
      /\ Head(wire[a][b]) = wire[a][b][1]
      BY DEF Wires
<1>3. t \in Wires
      BY TakenType
<1> HIDE DEF t
<1>4. ASSUME NEW c \in Node, NEW d \in Node, NEW i \in Coming(t, q, m, c, d)
      PROVE  i \in Nat \ {0} /\ Back(c, d, i) \in Coming(wire, q, m, c, d)
      <2>1. i \in Nat \ {0}
            BY <1>3, ComingPositive
      <2>2. CASE c = a /\ d = b
            <3>1. m.to \in Beyond(a, b) /\ i \in Flying(t, m, a, b)
                  BY <1>4, <2>2 DEF Coming
            <3>2. i \in 1..Len(Tail(wire[a][b])) /\ t[a][b] = Tail(wire[a][b])
                  BY <1>1, <3>1 DEF Flying
            <3>3. i + 1 \in 1..Len(wire[a][b]) /\ t[a][b][i] = wire[a][b][i + 1]
                  BY <1>2, <2>1, <3>2
            <3>4. i + 1 \in Flying(wire, m, a, b)
                  BY <3>1, <3>3 DEF Flying
            <3>5. QED
                  BY <2>1, <2>2, <3>1, <3>4 DEF Coming
      <2>3. CASE ~(c = a /\ d = b)
            <3>1. t[c][d] = wire[c][d]
                  BY <1>1, <2>3
            <3>2. QED
                  BY <1>4, <2>1, <2>3, <3>1 DEF Coming, Flying
      <2>4. QED
            BY <2>2, <2>3
<1> HIDE DEF Back
<1>5. AtMostOne(t, q, m)
      <2> SUFFICES ASSUME NEW c \in Node, NEW d \in Node, NEW e \in Node, NEW f \in Node,
                          NEW i \in Coming(t, q, m, c, d), NEW j \in Coming(t, q, m, e, f)
                   PROVE  c = e /\ d = f /\ i = j
          BY DEF AtMostOne
      <2>1. /\ Back(c, d, i) \in Coming(wire, q, m, c, d) /\ i \in Nat
            /\ Back(e, f, j) \in Coming(wire, q, m, e, f) /\ j \in Nat
            BY <1>4
      <2>2. c = e /\ d = f /\ Back(c, d, i) = Back(e, f, j)
            BY <2>1 DEF AtMostOne
      <2>3. QED
            BY <2>1, <2>2 DEF Back
<1>6. None(wire, q, m) => None(t, q, m)
      BY <1>4 DEF None
<1>7. ASSUME m.to \in Beyond(a, b), Head(wire[a][b]).kind = "sendmsg",
             Head(wire[a][b]).copy.msg = m
      PROVE  1 \in Coming(wire, q, m, a, b) /\ None(t, q, m)
      <2>1. 1 \in Coming(wire, q, m, a, b)
            BY <1>2, <1>7 DEF Coming, Flying
      <2>2. ASSUME NEW c \in Node, NEW d \in Node, NEW i \in Coming(t, q, m, c, d)
            PROVE  FALSE
            <3>1. i \in Nat \ {0} /\ Back(c, d, i) \in Coming(wire, q, m, c, d)
                  BY <1>4, <2>2
            <3>2. c = a /\ d = b /\ Back(c, d, i) = 1
                  BY <2>1, <3>1 DEF AtMostOne
            <3>3. QED
                  BY <3>1, <3>2 DEF Back
      <2>3. QED
            BY <2>1, <2>2 DEF None
<1>8. QED
      BY <1>5, <1>6, <1>7 DEF t

(* The same for the first copy of a queue. *)
LEMMA RemoveComing ==
    ASSUME NEW w \in Wires, queue \in Queues, NEW n \in Node, NEW g \in Node,
           queue[n][g] # <<>>, NEW m \in Msg, AtMostOne(w, queue, m)
    PROVE  /\ AtMostOne(w, WithoutFirst(n, g), m)
           /\ None(w, queue, m) => None(w, WithoutFirst(n, g), m)
           /\ g = m.to /\ Near(n, g) /\ Head(queue[n][g]).msg = m
              => /\ None(w, WithoutFirst(n, g), m)
                 /\ 1 \in Coming(w, queue, m, n, n)
<1> DEFINE q == WithoutFirst(n, g)
           Back(c, d, i) == IF c = n /\ d = n /\ g = m.to THEN i + 1 ELSE i
<1>1. \A p, h \in Node : q[p][h] = IF p = n /\ h = g THEN Tail(queue[n][g]) ELSE queue[p][h]
      BY DEF Queues, WithoutFirst
<1>2. /\ Len(Tail(queue[n][g])) = Len(queue[n][g]) - 1
      /\ \A i \in 1..Len(Tail(queue[n][g])) : Tail(queue[n][g])[i] = queue[n][g][i + 1]
      /\ Len(queue[n][g]) \in Nat \ {0}
      /\ Head(queue[n][g]) = queue[n][g][1]
      BY DEF Queues
<1>3. q \in Queues /\ m.to \in Node
      BY RemoveType, MsgAssumption DEF WithoutFirst
<1> HIDE DEF q
<1>4. ASSUME NEW c \in Node, NEW d \in Node, NEW i \in Coming(w, q, m, c, d)
      PROVE  i \in Nat \ {0} /\ Back(c, d, i) \in Coming(w, queue, m, c, d)
      <2>1. i \in Nat \ {0}
            BY <1>3, ComingPositive
      <2>2. CASE c = n /\ d = n /\ g = m.to
            <3>1. Near(n, m.to) /\ i \in Waiting(q, m, n)
                  BY <1>4, <2>2 DEF Coming
            <3>2. i \in 1..Len(Tail(queue[n][g])) /\ q[n][g] = Tail(queue[n][g])
                  BY <1>1, <2>2, <3>1 DEF Waiting
            <3>3. i + 1 \in 1..Len(queue[n][g]) /\ q[n][g][i] = queue[n][g][i + 1]
                  BY <1>2, <2>1, <3>2
            <3>4. i + 1 \in Waiting(queue, m, n)
                  BY <2>2, <3>1, <3>3 DEF Waiting
            <3>5. QED
                  BY <2>1, <2>2, <3>1, <3>4 DEF Coming
      <2>3. CASE ~(c = n /\ d = n /\ g = m.to)
            <3>1. CASE c = d
                  <4>1. q[c][m.to] = queue[c][m.to]
                        BY <1>1, <1>3, <2>3, <3>1
                  <4>2. QED
                        BY <1>4, <2>1, <2>3, <3>1, <4>1 DEF Coming, Waiting
            <3>2. CASE c # d
                  BY <1>4, <2>1, <2>3, <3>2 DEF Coming
            <3>3. QED
                  BY <3>1, <3>2
      <2>4. QED
            BY <2>2, <2>3
<1> HIDE DEF Back
<1>5. AtMostOne(w, q, m)
      <2> SUFFICES ASSUME NEW c \in Node, NEW d \in Node, NEW e \in Node, NEW f \in Node,
                          NEW i \in Coming(w, q, m, c, d), NEW j \in Coming(w, q, m, e, f)
                   PROVE  c = e /\ d = f /\ i = j
          BY DEF AtMostOne
      <2>1. /\ Back(c, d, i) \in Coming(w, queue, m, c, d) /\ i \in Nat
            /\ Back(e, f, j) \in Coming(w, queue, m, e, f) /\ j \in Nat
            BY <1>4
      <2>2. c = e /\ d = f /\ Back(c, d, i) = Back(e, f, j)
            <3> DEFINE k == Back(c, d, i)
                       l == Back(e, f, j)
            <3>1. k \in Coming(w, queue, m, c, d) /\ l \in Coming(w, queue, m, e, f)
                  BY <2>1
            <3> HIDE DEF k, l
            <3>2. c = e /\ d = f /\ k = l
                  BY <3>1 DEF AtMostOne
            <3>3. QED
                  BY <3>2 DEF k, l
      <2>3. Back(c, d, i) = Back(c, d, j)
            BY <2>2
      <2>4. i = j
            <3>1. CASE c = n /\ d = n /\ g = m.to
                  BY <2>1, <2>3, <3>1 DEF Back
            <3>2. CASE ~(c = n /\ d = n /\ g = m.to)
                  BY <2>1, <2>3, <3>2 DEF Back
            <3>3. QED
                  BY <3>1, <3>2
      <2>5. QED
            BY <2>2, <2>4
<1>6. None(w, queue, m) => None(w, q, m)
      BY <1>4 DEF None
<1>7. ASSUME g = m.to, Near(n, g), Head(queue[n][g]).msg = m
      PROVE  1 \in Coming(w, queue, m, n, n) /\ None(w, q, m)
      <2>1. 1 \in Coming(w, queue, m, n, n)
            BY <1>2, <1>7 DEF Coming, Waiting
      <2>2. ASSUME NEW c \in Node, NEW d \in Node, NEW i \in Coming(w, q, m, c, d)
            PROVE  FALSE
            <3>1. i \in Nat \ {0} /\ Back(c, d, i) \in Coming(w, queue, m, c, d)
                  BY <1>4, <2>2
            <3>2. c = n /\ d = n /\ Back(c, d, i) = 1
                  BY <2>1, <3>1 DEF AtMostOne
            <3>3. QED
                  BY <1>7, <3>1, <3>2 DEF Back
      <2>3. QED
            BY <2>1, <2>2 DEF None
<1>8. QED
      BY <1>5, <1>6, <1>7 DEF q

(* A frame that is put on channels comes only where it leads to its        *)
(* destination. *)
LEMMA PutComing ==
    ASSUME NEW w \in Wires, NEW q, NEW n \in Node, NEW S, n \notin S, NEW pkt \in Packet,
           NEW m \in Msg, NEW a \in Node, NEW b \in Node,
           NEW i \in Coming(Put(w, n, S, pkt), q, m, a, b)
    PROVE  \/ i \in Coming(w, q, m, a, b)
           \/ /\ a = n /\ b \in S /\ m.to \in Beyond(n, b)
              /\ pkt.kind = "sendmsg" /\ pkt.copy.msg = m
              /\ i = Len(w[n][b]) + 1
<1> DEFINE p == Put(w, n, S, pkt)
<1>1. p[a][b] = IF a = n /\ b \in S THEN Append(w[n][b], pkt) ELSE w[a][b]
      BY DEF Put, Wires
<1> HIDE DEF p
<1>2. CASE a = n /\ b \in S
      <2>1. i \in Flying(p, m, n, b) /\ m.to \in Beyond(n, b)
            BY <1>2 DEF Coming, p
      <2>2. /\ w[n][b] \in Seq(Packet) /\ p[n][b] = Append(w[n][b], pkt)
            /\ i \in 1..Len(Append(w[n][b], pkt))
            BY <1>1, <1>2, <2>1 DEF Flying, Wires
      <2>3. CASE i = Len(w[n][b]) + 1
            <3>1. p[n][b][i] = pkt
                  BY <2>2, <2>3
            <3>2. QED
                  BY <1>2, <2>1, <2>3, <3>1 DEF Flying
      <2>4. CASE i \in 1..Len(w[n][b])
            <3>1. p[n][b][i] = w[n][b][i]
                  BY <2>2, <2>4
            <3>2. i \in Flying(w, m, n, b)
                  BY <2>1, <2>4, <3>1 DEF Flying
            <3>3. QED
                  BY <1>2, <2>1, <3>2 DEF Coming
      <2>5. QED
            BY <2>2, <2>3, <2>4
<1>3. CASE ~(a = n /\ b \in S)
      BY <1>1, <1>3 DEF Coming, Flying, p
<1>4. QED
      BY <1>2, <1>3

(* A copy that is stored comes only where its destination is near. *)
LEMMA StoreComing ==
    ASSUME queue \in Queues, NEW w \in Wires, NEW n \in Node, NEW g \in Node, NEW c \in Copy,
           NEW m \in Msg, NEW a \in Node, NEW b \in Node,
           NEW i \in Coming(w, WithCopy(n, g, c), m, a, b)
    PROVE  \/ i \in Coming(w, queue, m, a, b)
           \/ /\ a = n /\ b = n /\ g = m.to /\ Near(n, m.to)
              /\ c.msg = m /\ i = Len(queue[n][g]) + 1
<1> DEFINE q == WithCopy(n, g, c)
<1>1. \A p, h \in Node : q[p][h] = IF p = n /\ h = g THEN Append(queue[n][g], c) ELSE queue[p][h]
      BY DEF Queues, WithCopy
<1>2. m.to \in Node
      BY MsgAssumption
<1>3. i \in Coming(w, q, m, a, b)
      OBVIOUS
<1> HIDE DEF q
<1>4. CASE a # b
      BY <1>3, <1>4 DEF Coming
<1>5. CASE a = b /\ ~(a = n /\ g = m.to)
      <2>1. q[a][m.to] = queue[a][m.to]
            BY <1>1, <1>2, <1>5
      <2>2. QED
            BY <1>3, <1>5, <2>1 DEF Coming, Waiting
<1>6. CASE a = b /\ a = n /\ g = m.to
      <2>1. Near(n, m.to) /\ i \in Waiting(q, m, n)
            BY <1>3, <1>6 DEF Coming
      <2>2. queue[n][g] \in Seq(Copy)
            BY DEF Queues
      <2>3. q[n][g] = Append(queue[n][g], c)
            BY <1>1
      <2>4. i \in 1..Len(Append(queue[n][g], c))
            BY <1>6, <2>1, <2>3 DEF Waiting
      <2>5. i \in 1..Len(queue[n][g]) \/ i = Len(queue[n][g]) + 1
            BY <2>2, <2>4
      <2>6. CASE i = Len(queue[n][g]) + 1
            <3>1. q[n][g][i] = c
                  BY <2>2, <2>3, <2>6
            <3>2. QED
                  BY <1>6, <2>1, <2>6, <3>1 DEF Waiting
      <2>7. CASE i \in 1..Len(queue[n][g])
            <3>1. q[n][g][i] = queue[n][g][i]
                  BY <2>2, <2>3, <2>7
            <3>2. i \in Waiting(queue, m, n)
                  BY <1>6, <2>1, <2>7, <3>1 DEF Waiting
            <3>3. QED
                  BY <1>6, <2>1, <3>2 DEF Coming
      <2>8. QED
            BY <2>5, <2>6, <2>7
<1>7. QED
      BY <1>4, <1>5, <1>6

LEMMA FrameCarries ==
    ASSUME NEW c \in Copy
    PROVE  /\ Frame(c).kind = "sendmsg" /\ Frame(c).copy.msg = c.msg
           /\ Frame(c).copy.trail = c.trail
<1> DEFINE f == [c EXCEPT !.hops = IF Len(@) <= Room THEN @ ELSE <<>>]
<1>1. f.msg = c.msg /\ f.trail = c.trail
      BY DEF Copy
<1>2. Frame(c).kind = "sendmsg" /\ Frame(c).copy = f
      BY DEF Frame
<1>3. QED
      BY <1>1, <1>2

(* What node n, flooding a copy of m over channels w to its peers in S,    *)
(* adds to what is coming: place i of its channel to b, or of its queue.   *)
Adds(w, n, S, m, b, i) ==
    \/ b = n /\ Near(n, m.to) /\ i = Len(queue[n][m.to]) + 1
    \/ b \in S /\ m.to \in Beyond(n, b) /\ i = Len(w[n][b]) + 1

Floods(n, c, w, S) ==
    /\ queue' = WithCopy(n, c.msg.to, c)
    /\ wire'  = Put(w, n, S, Frame(c))

LEMMA FloodComing ==
    ASSUME queue \in Queues, NEW w \in Wires, NEW n \in Node, n \notin Peers(n),
           NEW S \in SUBSET Peers(n), NEW c \in Copy, Floods(n, c, w, S),
           NEW m \in Msg, NEW a \in Node, NEW b \in Node,
           NEW i \in Coming(wire', queue', m, a, b)
    PROVE  \/ i \in Coming(w, queue, m, a, b)
           \/ c.msg = m /\ a = n /\ Adds(w, n, S, m, b, i)
<1> DEFINE p == Put(w, n, S, Frame(c))
           g == c.msg.to
<1>1. Frame(c) \in Packet /\ g \in Node /\ Frame(c).copy.msg = c.msg /\ n \notin S
      BY FrameType, FrameCarries, MsgAssumption DEF Copy
<1>2. wire' = p /\ queue' = WithCopy(n, g, c)
      BY DEF Floods
<1> HIDE DEF p, g
<1>3. p \in Wires
      BY <1>1, PutType DEF p
<1>4. i \in Coming(p, WithCopy(n, g, c), m, a, b)
      BY <1>2
<1>5. \/ i \in Coming(p, queue, m, a, b)
      \/ /\ a = n /\ b = n /\ g = m.to /\ Near(n, m.to)
         /\ c.msg = m /\ i = Len(queue[n][g]) + 1
      BY <1>1, <1>3, <1>4, StoreComing
<1>6. CASE i \in Coming(p, queue, m, a, b)
      <2>1. \/ i \in Coming(w, queue, m, a, b)
            \/ /\ a = n /\ b \in S /\ m.to \in Beyond(n, b)
               /\ Frame(c).copy.msg = m /\ i = Len(w[n][b]) + 1
            BY <1>1, <1>6, PutComing DEF p
      <2>2. QED
            BY <1>1, <2>1 DEF Adds
<1>7. QED
      BY <1>5, <1>6 DEF g, Adds

(* A node floods a message of which no copy is coming and whose            *)
(* destination is not its peer: of what it sends and stores, one copy at   *)
(* most comes.  (The links are the only ways.)                             *)
LEMMA FloodOne ==
    ASSUME Forest, links \subseteq Possible, queue \in Queues, NEW w \in Wires,
           NEW n \in Node, n \notin Peers(n), NEW S \in SUBSET Peers(n), NEW c \in Copy,
           Floods(n, c, w, S), c.msg \in Msg, c.msg.to # n, c.msg.to \notin Peers(n),
           None(w, queue, c.msg)
    PROVE  AtMostOne(wire', queue', c.msg)
<1> DEFINE m == c.msg
<1> SUFFICES ASSUME NEW a \in Node, NEW b \in Node, NEW d \in Node, NEW e \in Node,
                    NEW i \in Coming(wire', queue', m, a, b),
                    NEW j \in Coming(wire', queue', m, d, e)
             PROVE  a = d /\ b = e /\ i = j
    BY DEF AtMostOne
<1>1. Coming(w, queue, m, a, b) = {} /\ Coming(w, queue, m, d, e) = {} /\ m.to \in Node
      BY MsgAssumption DEF None
<1>2. a = n /\ Adds(w, n, S, c.msg, b, i)
      <2>1. i \in Coming(wire', queue', c.msg, a, b)
            BY DEF m
      <2>2. \/ i \in Coming(w, queue, c.msg, a, b)
            \/ c.msg = c.msg /\ a = n /\ Adds(w, n, S, c.msg, b, i)
            BY <2>1, FloodComing
      <2>3. QED
            BY <1>1, <2>2
<1>3. d = n /\ Adds(w, n, S, c.msg, e, j)
      <2>1. j \in Coming(wire', queue', c.msg, d, e)
            BY DEF m
      <2>2. \/ j \in Coming(w, queue, c.msg, d, e)
            \/ c.msg = c.msg /\ d = n /\ Adds(w, n, S, c.msg, e, j)
            BY <2>1, FloodComing
      <2>3. QED
            BY <1>1, <2>2
<1>4. ASSUME NEW f \in S, NEW g \in S, m.to \in Beyond(n, f), m.to \in Beyond(n, g)
      PROVE  f = g
      <2>1. f \in Node /\ g \in Node /\ {n, f} \in Possible /\ {n, g} \in Possible
            BY DEF Peers
      <2>2. QED
            BY <1>4, <2>1, BeyondApart
<1>5. ASSUME NEW f \in S, m.to \in Beyond(n, f), {n, m.to} \in Possible
      PROVE  FALSE
      <2>1. f \in Node /\ {n, f} \in Possible /\ f \in Peers(n)
            BY DEF Peers
      <2>2. m.to \in Beyond(n, m.to)
            BY <1>1, BeyondStarts
      <2>3. f = m.to
            BY <1>1, <1>5, <2>1, <2>2, BeyondApart
      <2>4. QED
            BY <2>1, <2>3
<1>6. n \notin S /\ m.to # n
      OBVIOUS
<1>7. QED
      BY <1>2, <1>3, <1>4, <1>5, <1>6 DEF Adds, Near

(* What leads no closer to the destination changes nothing. *)
LEMMA FloodAway ==
    ASSUME queue \in Queues, NEW w \in Wires,
           NEW n \in Node, n \notin Peers(n), NEW S \in SUBSET Peers(n), NEW c \in Copy,
           Floods(n, c, w, S), NEW m \in Msg,
           c.msg = m => ~Near(n, m.to) /\ \A p \in S : m.to \notin Beyond(n, p)
    PROVE  \A a, b \in Node : Coming(wire', queue', m, a, b) \subseteq Coming(w, queue, m, a, b)
<1> SUFFICES ASSUME NEW a \in Node, NEW b \in Node, NEW i \in Coming(wire', queue', m, a, b)
             PROVE  i \in Coming(w, queue, m, a, b)
    OBVIOUS
<1>1. \/ i \in Coming(w, queue, m, a, b)
      \/ c.msg = m /\ a = n /\ Adds(w, n, S, m, b, i)
      BY FloodComing
<1>2. QED
      BY <1>1 DEF Adds

-----------------------------------------------------------------------------
(* Where copies come from.                                                 *)

LEMMA LastIn ==
    ASSUME NEW t \in Seq(Node), NEW b \in Node
    PROVE  b \in Range(Append(t, b)) /\ Range(t) \subseteq Range(Append(t, b))
<1>1. /\ Len(t) \in Nat /\ DOMAIN t = 1..Len(t)
      /\ DOMAIN Append(t, b) = 1..Len(t) + 1
      /\ Append(t, b)[Len(t) + 1] = b
      /\ \A i \in 1..Len(t) : Append(t, b)[i] = t[i]
      OBVIOUS
<1>2. QED
      BY <1>1 DEF Range

LEMMA TakenFrom ==
    ASSUME wire \in Wires, WiresFrom(wire, sent), WiresLinked(wire, links),
           NEW a \in Node, NEW b \in Node, wire[a][b] # <<>>
    PROVE  /\ WiresFrom(Taken(a, b), sent) /\ WiresLinked(Taken(a, b), links)
           /\ Head(wire[a][b]).kind = "sendmsg" => Origin(a, Head(wire[a][b]).copy, sent)
<1> DEFINE t == Taken(a, b)
<1>1. \A c, d \in Node : t[c][d] = IF c = a /\ d = b THEN Tail(wire[a][b]) ELSE wire[c][d]
      BY DEF Taken, Wires
<1>2. /\ Len(Tail(wire[a][b])) = Len(wire[a][b]) - 1
      /\ \A i \in 1..Len(Tail(wire[a][b])) : Tail(wire[a][b])[i] = wire[a][b][i + 1]
      /\ Len(wire[a][b]) \in Nat \ {0}
      /\ Head(wire[a][b]) = wire[a][b][1]
      BY DEF Wires
<1> HIDE DEF t
<1>3. WiresLinked(t, links)
      BY <1>1 DEF WiresLinked
<1>4. ASSUME NEW c \in Node, NEW d \in Node, NEW i \in 1..Len(t[c][d]),
             t[c][d][i].kind = "sendmsg"
      PROVE  Origin(c, t[c][d][i].copy, sent)
      <2>1. CASE c = a /\ d = b
            <3>1. i \in 1..Len(Tail(wire[a][b])) /\ t[c][d] = Tail(wire[a][b])
                  BY <1>1, <1>4, <2>1
            <3>2. i + 1 \in 1..Len(wire[a][b]) /\ t[c][d][i] = wire[a][b][i + 1]
                  BY <1>2, <3>1
            <3>3. QED
                  BY <1>4, <2>1, <3>2 DEF WiresFrom
      <2>2. CASE ~(c = a /\ d = b)
            <3>1. t[c][d] = wire[c][d]
                  BY <1>1, <2>2
            <3>2. QED
                  BY <1>4, <3>1 DEF WiresFrom
      <2>3. QED
            BY <2>1, <2>2
<1>5. WiresFrom(t, sent)
      BY <1>4 DEF WiresFrom
<1>6. Head(wire[a][b]).kind = "sendmsg" => Origin(a, Head(wire[a][b]).copy, sent)
      <2>1. 1 \in 1..Len(wire[a][b])
            BY <1>2
      <2>2. QED
            BY <1>2, <2>1 DEF WiresFrom
<1>7. QED
      BY <1>3, <1>5, <1>6 DEF t

LEMMA PutFrom ==
    ASSUME NEW w \in Wires, WiresFrom(w, sent), WiresLinked(w, links),
           NEW n \in Node, NEW S \in SUBSET Peers(n), NEW pkt \in Packet,
           pkt.kind = "sendmsg" => Origin(n, pkt.copy, sent)
    PROVE  WiresFrom(Put(w, n, S, pkt), sent) /\ WiresLinked(Put(w, n, S, pkt), links)
<1> DEFINE p == Put(w, n, S, pkt)
<1>1. \A a, b \in Node : p[a][b] = IF a = n /\ b \in S THEN Append(w[n][b], pkt) ELSE w[a][b]
      BY DEF Put, Wires
<1>2. \A b \in S : b \in Node /\ {n, b} \in links
      BY DEF Peers
<1> HIDE DEF p
<1>3. WiresLinked(p, links)
      <2> SUFFICES ASSUME NEW a \in Node, NEW b \in Node, p[a][b] # <<>>
                   PROVE  {a, b} \in links
          BY DEF WiresLinked
      <2>1. CASE a = n /\ b \in S
            BY <1>2, <2>1
      <2>2. CASE ~(a = n /\ b \in S)
            <3>1. p[a][b] = w[a][b]
                  BY <1>1, <2>2
            <3>2. QED
                  BY <3>1 DEF WiresLinked
      <2>3. QED
            BY <2>1, <2>2
<1>4. ASSUME NEW a \in Node, NEW b \in Node, NEW i \in 1..Len(p[a][b]),
             p[a][b][i].kind = "sendmsg"
      PROVE  Origin(a, p[a][b][i].copy, sent)
      <2>1. CASE a = n /\ b \in S
            <3>1. p[a][b] = Append(w[n][b], pkt)
                  BY <1>1, <2>1
            <3>2. w[n][b] \in Seq(Packet)
                  BY DEF Wires
            <3>3. CASE i \in 1..Len(w[n][b])
                  <4>1. p[a][b][i] = w[n][b][i]
                        BY <3>1, <3>2, <3>3
                  <4>2. QED
                        BY <1>4, <2>1, <3>3, <4>1 DEF WiresFrom
            <3>4. CASE i = Len(w[n][b]) + 1
                  <4>1. p[a][b][i] = pkt
                        BY <3>1, <3>2, <3>4
                  <4>2. QED
                        BY <1>4, <2>1, <4>1
            <3>5. i \in 1..Len(w[n][b]) \/ i = Len(w[n][b]) + 1
                  BY <1>4, <3>1, <3>2
            <3>6. QED
                  BY <3>3, <3>4, <3>5
      <2>2. CASE ~(a = n /\ b \in S)
            <3>1. p[a][b] = w[a][b]
                  BY <1>1, <2>2
            <3>2. QED
                  BY <1>4, <3>1 DEF WiresFrom
      <2>3. QED
            BY <2>1, <2>2
<1>5. WiresFrom(p, sent)
      BY <1>4 DEF WiresFrom
<1>6. QED
      BY <1>3, <1>5 DEF p

LEMMA StoreFrom ==
    ASSUME queue \in Queues, QueuesFrom(queue, sent), NEW n \in Node, NEW g \in Node,
           NEW c \in Copy, Origin(n, c, sent)
    PROVE  QueuesFrom(WithCopy(n, g, c), sent)
<1> DEFINE q == WithCopy(n, g, c)
<1>1. \A p, h \in Node : q[p][h] = IF p = n /\ h = g THEN Append(queue[n][g], c) ELSE queue[p][h]
      BY DEF Queues, WithCopy
<1>2. queue[n][g] \in Seq(Copy)
      BY DEF Queues
<1> HIDE DEF q
<1>3. ASSUME NEW p \in Node, NEW h \in Node, NEW i \in 1..Len(q[p][h])
      PROVE  Origin(p, q[p][h][i], sent)
      <2>1. CASE p = n /\ h = g
            <3>1. q[p][h] = Append(queue[n][g], c)
                  BY <1>1, <2>1
            <3>2. CASE i \in 1..Len(queue[n][g])
                  <4>1. q[p][h][i] = queue[n][g][i]
                        BY <1>2, <3>1, <3>2
                  <4>2. QED
                        BY <2>1, <3>2, <4>1 DEF QueuesFrom
            <3>3. CASE i = Len(queue[n][g]) + 1
                  BY <1>2, <2>1, <3>1, <3>3
            <3>4. i \in 1..Len(queue[n][g]) \/ i = Len(queue[n][g]) + 1
                  BY <1>2, <1>3, <3>1
            <3>5. QED
                  BY <3>2, <3>3, <3>4
      <2>2. CASE ~(p = n /\ h = g)
            <3>1. q[p][h] = queue[p][h]
                  BY <1>1, <2>2
            <3>2. QED
                  BY <1>3, <3>1 DEF QueuesFrom
      <2>3. QED
            BY <2>1, <2>2
<1>4. QED
      BY <1>3 DEF QueuesFrom, q

LEMMA RemoveFrom ==
    ASSUME queue \in Queues, QueuesFrom(queue, sent), NEW n \in Node, NEW g \in Node,
           queue[n][g] # <<>>
    PROVE  /\ QueuesFrom(WithoutFirst(n, g), sent)
           /\ Origin(n, Head(queue[n][g]), sent)
<1> DEFINE q == WithoutFirst(n, g)
<1>1. \A p, h \in Node : q[p][h] = IF p = n /\ h = g THEN Tail(queue[n][g]) ELSE queue[p][h]
      BY DEF Queues, WithoutFirst
<1>2. /\ Len(Tail(queue[n][g])) = Len(queue[n][g]) - 1
      /\ \A i \in 1..Len(Tail(queue[n][g])) : Tail(queue[n][g])[i] = queue[n][g][i + 1]
      /\ Len(queue[n][g]) \in Nat \ {0}
      /\ Head(queue[n][g]) = queue[n][g][1]
      BY DEF Queues
<1> HIDE DEF q
<1>3. ASSUME NEW p \in Node, NEW h \in Node, NEW i \in 1..Len(q[p][h])
      PROVE  Origin(p, q[p][h][i], sent)
      <2>1. CASE p = n /\ h = g
            <3>1. i \in 1..Len(Tail(queue[n][g])) /\ q[p][h] = Tail(queue[n][g])
                  BY <1>1, <1>3, <2>1
            <3>2. i + 1 \in 1..Len(queue[n][g]) /\ q[p][h][i] = queue[n][g][i + 1]
                  BY <1>2, <3>1
            <3>3. QED
                  BY <2>1, <3>2 DEF QueuesFrom
      <2>2. CASE ~(p = n /\ h = g)
            <3>1. q[p][h] = queue[p][h]
                  BY <1>1, <2>2
            <3>2. QED
                  BY <1>3, <3>1 DEF QueuesFrom
      <2>3. QED
            BY <2>1, <2>2
<1>4. Origin(n, Head(queue[n][g]), sent)
      <2>1. 1 \in 1..Len(queue[n][g])
            BY <1>2
      <2>2. QED
            BY <1>2, <2>1 DEF QueuesFrom
<1>5. QED
      BY <1>3, <1>4 DEF QueuesFrom, q

(* What a node makes of a copy it takes in. *)
LEMMA PassedOnIs ==
    ASSUME NEW c \in Copy, NEW b \in Node, Len(c.hops) < MaxHops
    PROVE  /\ PassedOn(c, b) \in Copy
           /\ PassedOn(c, b).msg = c.msg
           /\ PassedOn(c, b).trail = Append(c.trail, b)
           /\ c.hops # <<>> => PassedOn(c, b).hops = Append(c.hops, b)
<1>1. PassedOn(c, b) \in Copy
      BY PassedOnType
<1>2. QED
      BY <1>1 DEF PassedOn, Copy

LEMMA KeptIs ==
    ASSUME NEW c \in Copy, NEW b \in Node
    PROVE  /\ Kept(c, b) \in Copy
           /\ Kept(c, b).msg = c.msg
           /\ Kept(c, b).trail = Append(c.trail, b)
<1>1. Kept(c, b) \in Copy
      BY KeptType
<1>2. QED
      BY <1>1 DEF Kept, Copy

LEMMA OriginGrows ==
    ASSUME NEW w, NEW q, NEW h, NEW s, NEW s2, s \subseteq s2,
           WiresFrom(w, s), QueuesFrom(q, s), HandsFrom(h, s)
    PROVE  WiresFrom(w, s2) /\ QueuesFrom(q, s2) /\ HandsFrom(h, s2)
BY DEF WiresFrom, QueuesFrom, HandsFrom, Origin

(* A handler that begins at node n with a copy of n's. *)
LEMMA BeginsFrom ==
    ASSUME hand \in Hands, NEW n \in Node, NEW l \in SUBSET Node, NEW c \in Copy,
           Begins(n, l, c), NEW s, Origin(n, c, s), HandsFrom(hand, s), NEW L, NEW x,
           HandsLinked(hand, L, x)
    PROVE  HandsFrom(hand', s) /\ HandsLinked(hand', L, x)
<1> DEFINE u == [at |-> "search", conn |-> l, copy |-> c]
<1>1. \A y \in Node : \A t \in hand'[y] : t \in hand[y] \/ (y = n /\ t = u)
      BY BeginsHand
<1>2. u.copy = c /\ u.at = "search"
      OBVIOUS
<1> HIDE DEF u
<1>3. TaskLinked(n, u, L, x) /\ Origin(n, u.copy, s)
      BY <1>2 DEF TaskLinked
<1>4. QED
      BY <1>1, <1>3 DEF HandsFrom, HandsLinked

LEMMA GoesFrom ==
    ASSUME hand \in Hands, NEW n \in Node, NEW t \in hand[n],
           NEW pc \in {"forward", "dangling", "store"}, Goes(n, t, pc), OriginInv,
           pc = "forward" => {n, t.copy.msg.to} \in links,
           pc = "dangling" => {n, t.copy.msg.to} \in Possible,
           pc \in {"dangling", "store"} /\ {n, t.copy.msg.to} \in links => t.copy.msg \in crossed
    PROVE  HandsFrom(hand', sent) /\ HandsLinked(hand', links, crossed)
<1> DEFINE v == [t EXCEPT !.at = pc]
<1>1. /\ \A x \in Node : \A u \in hand'[x] : u \in hand[x] \/ (x = n /\ u = v)
      /\ v.at = pc /\ v.copy = t.copy
      BY GoesHand
<1> HIDE DEF v
<1>2. TaskLinked(n, v, links, crossed) /\ Origin(n, v.copy, sent)
      BY <1>1 DEF TaskLinked, OriginInv, HandsFrom
<1>3. QED
      BY <1>1, <1>2 DEF HandsFrom, HandsLinked, OriginInv

LEMMA ReturnsFrom ==
    ASSUME hand \in Hands, NEW n \in Node, NEW t \in hand[n], Returns(n, t), OriginInv
    PROVE  HandsFrom(hand', sent) /\ HandsLinked(hand', links, crossed)
BY ReturnsHand DEF HandsFrom, HandsLinked, OriginInv

LEMMA HandleFrom ==
    ASSUME TypeOK, OriginInv, NEW n \in Node, Handle(n)
    PROVE  /\ WiresFrom(wire', sent) /\ WiresLinked(wire', links) /\ QueuesFrom(queue', sent)
           /\ HandsFrom(hand', sent) /\ HandsLinked(hand', links, crossed)
<1>0. wire \in Wires /\ queue \in Queues /\ hand \in Hands
      BY DEF TypeOK, Wires, Queues, Hands
<1>1. PICK t \in hand[n] :
          Search(n, t) \/ Forward(n, t) \/ ForwardDangling(n, t) \/ Store(n, t)
      BY DEF Handle
<1> DEFINE c == t.copy
           g == c.msg.to
<1>2. c \in Copy /\ g \in Node /\ Origin(n, c, sent) /\ TaskLinked(n, t, links, crossed)
      BY <1>0, TaskCopy DEF OriginInv, HandsFrom, HandsLinked
<1>3. Frame(c) \in Packet /\ Origin(n, Frame(c).copy, sent)
      BY <1>2, FrameType, FrameCarries DEF Origin
<1>4. ASSUME NEW S \in SUBSET Peers(n), wire' = Put(wire, n, S, Frame(c))
      PROVE  WiresFrom(wire', sent) /\ WiresLinked(wire', links)
      BY <1>0, <1>3, <1>4, PutFrom DEF OriginInv
<1>5. wire' = wire => WiresFrom(wire', sent) /\ WiresLinked(wire', links)
      BY DEF OriginInv
<1>6. queue' = queue => QueuesFrom(queue', sent)
      BY DEF OriginInv
<1>7. g \in Peers(n) <=> {n, g} \in links
      BY <1>2 DEF Peers
<1>8. CASE Search(n, t)
      <2>1. CASE g \in Peers(n)
            <3>1. Goes(n, t, "forward")
                  BY <1>8, <2>1 DEF Search
            <3>2. HandsFrom(hand', sent) /\ HandsLinked(hand', links, crossed)
                  BY <1>0, <1>7, <2>1, <3>1, GoesFrom
            <3>3. QED
                  BY <1>5, <1>6, <1>8, <3>2 DEF Search
      <2>2. CASE g \notin Peers(n)
            <3>1. Goes(n, t, "store")
                  BY <1>8, <2>2 DEF Search
            <3>2. HandsFrom(hand', sent) /\ HandsLinked(hand', links, crossed)
                  BY <1>0, <1>7, <2>2, <3>1, GoesFrom
            <3>3. QED
                  BY <1>5, <1>6, <1>8, <3>2 DEF Search
      <2>3. QED
            BY <2>1, <2>2
<1>9. CASE Forward(n, t)
      <2>1. {g} \in SUBSET Peers(n)
            BY <1>2, <1>7, <1>9 DEF Forward, TaskLinked
      <2>2. wire' = Put(wire, n, {g}, Frame(c)) /\ queue' = queue /\ Returns(n, t)
            BY <1>9 DEF Forward
      <2>3. QED
            BY <1>0, <1>4, <1>6, <2>1, <2>2, ReturnsFrom
<1>10. CASE ForwardDangling(n, t)
       <2>1. ASSUME NEW p \in Peers(n), wire' = Put(wire, n, {p}, Frame(c)), Returns(n, t)
             PROVE  /\ WiresFrom(wire', sent) /\ WiresLinked(wire', links)
                    /\ HandsFrom(hand', sent) /\ HandsLinked(hand', links, crossed)
             <3>1. {p} \in SUBSET Peers(n)
                   OBVIOUS
             <3>2. QED
                   BY <1>0, <1>4, <2>1, <3>1, ReturnsFrom
       <2>2. ASSUME UNCHANGED wire, Goes(n, t, "store")
             PROVE  /\ WiresFrom(wire', sent) /\ WiresLinked(wire', links)
                    /\ HandsFrom(hand', sent) /\ HandsLinked(hand', links, crossed)
             <3>1. {n, g} \in links => t.copy.msg \in crossed
                   BY <1>2, <1>10 DEF ForwardDangling, TaskLinked
             <3>2. HandsFrom(hand', sent) /\ HandsLinked(hand', links, crossed)
                   BY <1>0, <2>2, <3>1, GoesFrom
             <3>3. QED
                   BY <1>5, <2>2, <3>2
       <2>3. QED
             BY <1>6, <1>10, <2>1, <2>2 DEF ForwardDangling
<1>11. CASE Store(n, t)
       <2>1. /\ wire' = Put(wire, n, Peers(n) \ Range(c.hops), Frame(c))
             /\ queue' = WithCopy(n, g, c) /\ Returns(n, t)
             BY <1>11 DEF Store, WithCopy
       <2>2. Peers(n) \ Range(c.hops) \in SUBSET Peers(n)
             OBVIOUS
       <2> HIDE DEF c, g
       <2>3. QueuesFrom(queue', sent)
             BY <1>0, <1>2, <2>1, StoreFrom DEF OriginInv
       <2>4. QED
             BY <1>0, <1>4, <2>1, <2>2, <2>3, ReturnsFrom
<1>12. QED
       BY <1>1, <1>8, <1>9, <1>10, <1>11

LEMMA TakeInFrom ==
    ASSUME TypeOK, OriginInv, NEW a \in Node, NEW b \in Node, wire[a][b] # <<>>,
           NEW c \in Copy, c.msg \in sent, TakeIn(a, b, c)
    PROVE  /\ WiresFrom(wire', sent) /\ WiresLinked(wire', links) /\ QueuesFrom(queue', sent)
           /\ HandsFrom(hand', sent) /\ HandsLinked(hand', links, crossed)
<1>1. wire \in Wires /\ queue \in Queues /\ hand \in Hands
      BY DEF TypeOK, Wires, Queues, Hands
<1>2. WiresFrom(wire', sent) /\ WiresLinked(wire', links)
      BY <1>1, TakenFrom DEF OriginInv, TakeIn, PassesOn, Keeps
<1>3. c.trail \in Seq(Node) /\ c.msg.to \in Node
      BY MsgAssumption DEF Copy
<1>4. b \in Range(Append(c.trail, b))
      BY <1>3, LastIn
<1>5. CASE PassesOn(a, b, c)
      <2>1. PassedOn(c, b) \in Copy /\ Origin(b, PassedOn(c, b), sent)
            BY <1>4, <1>5, PassedOnIs DEF Origin, PassesOn
      <2>2. Begins(b, {a, b}, PassedOn(c, b)) /\ {a, b} \in SUBSET Node /\ queue' = queue
            BY <1>5 DEF PassesOn
      <2>3. QED
            BY <1>1, <1>2, <2>1, <2>2, BeginsFrom DEF OriginInv
<1>6. CASE Keeps(a, b, c)
      <2>1. Kept(c, b) \in Copy /\ Origin(b, Kept(c, b), sent)
            BY <1>4, KeptIs DEF Origin
      <2>2. queue' = WithCopy(b, c.msg.to, Kept(c, b)) /\ hand' = hand
            BY <1>6 DEF Keeps, WithCopy
      <2>3. QED
            BY <1>1, <1>2, <1>3, <2>1, <2>2, StoreFrom DEF OriginInv
<1>7. QED
      BY <1>5, <1>6 DEF TakeIn

LEMMA OriginInit == Init => OriginInv
BY DEF Init, OriginInv, WiresLinked, WiresFrom, QueuesFrom, HandsFrom, HandsLinked, Possible

LEMMA OriginStep == ASSUME TypeOK, OriginInv, [Next]_vars PROVE OriginInv'
<1>0. /\ wire \in Wires /\ queue \in Queues /\ hand \in Hands
      /\ \A n \in Node : n \notin Peers(n)
      BY PeersOthers DEF TypeOK, Wires, Queues, Hands
<1> DEFINE Goal == /\ WiresFrom(wire', sent) /\ WiresLinked(wire', links)
                   /\ QueuesFrom(queue', sent)
           Same == links' = links /\ sent' = sent /\ crossed' = crossed
<1>1. ASSUME Same, Goal, hand' = hand PROVE OriginInv'
      BY <1>1 DEF OriginInv
<1>1a. ASSUME Same, Goal, HandsFrom(hand', sent), HandsLinked(hand', links, crossed)
       PROVE  OriginInv'
       BY <1>1a DEF OriginInv
<1>2. ASSUME NEW m \in Msg, ClientSend(m) PROVE OriginInv'
      <2> DEFINE n == m.from
                 c == [msg |-> m, hops |-> <<n>>, trail |-> <<n>>]
      <2>1. n \in Node
            BY MsgAssumption
      <2>2. c \in Copy /\ Origin(n, c, sent') /\ sent \subseteq sent'
            BY <1>2, <2>1, HopAssumption DEF Copy, Hops, Range, Origin, ClientSend
      <2>3. /\ Begins(n, {n}, c) /\ {n} \in SUBSET Node
            /\ links' = links /\ crossed' = crossed /\ wire' = wire /\ queue' = queue
            BY <1>2, <2>1 DEF ClientSend
      <2>4. /\ WiresFrom(wire, sent') /\ QueuesFrom(queue, sent') /\ HandsFrom(hand, sent')
            /\ crossed \subseteq sent'
            BY <2>2, OriginGrows DEF OriginInv
      <2> HIDE DEF n, c
      <2>5. HandsFrom(hand', sent') /\ HandsLinked(hand', links, crossed)
            BY <1>0, <2>1, <2>2, <2>3, <2>4, BeginsFrom DEF OriginInv
      <2>6. QED
            BY <2>3, <2>4, <2>5 DEF OriginInv
<1>3. ASSUME NEW n \in Node, ClientGet(n) PROVE OriginInv'
      <2>1. /\ queue' = WithoutFirst(n, n) /\ wire' = wire /\ links' = links
            /\ queue[n][n] # <<>> /\ hand' = hand /\ Same
            BY <1>3 DEF ClientGet, WithoutFirst, history
      <2>2. Goal
            BY <1>0, <2>1, RemoveFrom DEF OriginInv
      <2>3. QED
            BY <1>1, <2>1, <2>2
<1>4. ASSUME NEW a \in Node, NEW b \in Node, HandleSendmsg(a, b) PROVE OriginInv'
      <2> DEFINE c == Head(wire[a][b]).copy
      <2>1. /\ wire[a][b] # <<>> /\ c \in Copy /\ Same
            /\ Head(wire[a][b]).kind = "sendmsg"
            BY <1>0, <1>4, ArrivingCopy DEF HandleSendmsg, Arriving, history
      <2>2. CASE b \in Range(c.hops)
            <3>1. wire' = Taken(a, b) /\ queue' = queue /\ hand' = hand
                  BY <1>4, <2>2 DEF HandleSendmsg
            <3>2. Goal
                  BY <1>0, <2>1, <3>1, TakenFrom DEF OriginInv
            <3>3. QED
                  BY <1>1, <2>1, <3>1, <3>2
      <2>3. CASE b \notin Range(c.hops)
            <3>0. Origin(a, c, sent)
                  BY <1>0, <2>1, TakenFrom DEF OriginInv
            <3>1. TakeIn(a, b, c) /\ c.msg \in sent
                  BY <1>4, <2>3, <3>0 DEF HandleSendmsg, Origin
            <3> HIDE DEF c
            <3>2. Goal /\ HandsFrom(hand', sent) /\ HandsLinked(hand', links, crossed)
                  BY <2>1, <3>1, TakeInFrom
            <3>3. QED
                  BY <1>1a, <2>1, <3>2
      <2>4. QED
            BY <2>2, <2>3
<1>5. ASSUME NEW a \in Node, NEW b \in Node, HandleGetmsgs(a, b) PROVE OriginInv'
      <2>1. wire[a][b] # <<>> /\ Same /\ hand' = hand
            BY <1>5 DEF HandleGetmsgs, Arriving, history
      <2>2. Taken(a, b) \in Wires /\ WiresFrom(Taken(a, b), sent) /\ WiresLinked(Taken(a, b), links)
            BY <1>0, <2>1, TakenType, TakenFrom DEF OriginInv
      <2>3. CASE queue[b][a] = <<>>
            <3>1. wire' = Taken(a, b) /\ queue' = queue
                  BY <1>5, <2>3 DEF HandleGetmsgs
            <3>2. Goal
                  BY <2>2, <3>1 DEF OriginInv
            <3>3. QED
                  BY <1>1, <2>1, <3>2
      <2>4. CASE queue[b][a] # <<>>
            <3> DEFINE c == Head(queue[b][a])
            <3>1. /\ wire'  = Put(Taken(a, b), b, {a}, Frame(c))
                  /\ queue' = WithoutFirst(b, a)
                  BY <1>5, <2>4 DEF HandleGetmsgs, WithoutFirst
            <3>2. c \in Copy
                  BY <1>0, <2>4 DEF Queues
            <3>3. Origin(b, c, sent) /\ QueuesFrom(queue', sent)
                  BY <1>0, <2>4, <3>1, RemoveFrom DEF OriginInv
            <3>4. {a} \in SUBSET Peers(b)
                  BY <2>1 DEF OriginInv, WiresLinked, Peers
            <3> HIDE DEF c
            <3>5. Frame(c) \in Packet /\ Origin(b, Frame(c).copy, sent)
                  BY <3>2, <3>3, FrameType, FrameCarries DEF Origin
            <3>6. WiresFrom(wire', sent) /\ WiresLinked(wire', links)
                  BY <2>2, <3>1, <3>4, <3>5, PutFrom
            <3>7. QED
                  BY <1>1, <2>1, <3>3, <3>6
      <2>5. QED
            BY <2>3, <2>4
<1>6. /\ [kind |-> "getmsgs"] \in Packet /\ [kind |-> "getmsgs"].kind # "sendmsg"
      /\ [kind |-> "keepalive"] \in Packet /\ [kind |-> "keepalive"].kind # "sendmsg"
      BY DEF Packet
<1>7. ASSUME NEW a \in Node, NEW b \in Node, HandleKeepalive(a, b) PROVE OriginInv'
      <2>1. /\ wire[a][b] # <<>> /\ Same /\ queue' = queue /\ hand' = hand
            /\ wire' = Put(Taken(a, b), b, {a}, [kind |-> "getmsgs"])
            BY <1>7 DEF HandleKeepalive, Arriving, history
      <2>2. Taken(a, b) \in Wires /\ WiresFrom(Taken(a, b), sent) /\ WiresLinked(Taken(a, b), links)
            BY <1>0, <2>1, TakenType, TakenFrom DEF OriginInv
      <2>3. {a} \in SUBSET Peers(b)
            BY <2>1 DEF OriginInv, WiresLinked, Peers
      <2>4. WiresFrom(wire', sent) /\ WiresLinked(wire', links)
            BY <1>6, <2>1, <2>2, <2>3, PutFrom
      <2>5. QED
            BY <1>1, <2>1, <2>4 DEF OriginInv
<1>8. ASSUME NEW n \in Node, NEW S \in SUBSET Peers(n), NEW pkt \in Packet,
             pkt.kind # "sendmsg", wire' = Put(wire, n, S, pkt),
             Same, queue' = queue, hand' = hand
      PROVE  OriginInv'
      <2>1. WiresFrom(wire', sent) /\ WiresLinked(wire', links)
            BY <1>0, <1>8, PutFrom DEF OriginInv
      <2>2. QED
            BY <1>1, <1>8, <2>1 DEF OriginInv
<1>9. ASSUME NEW n \in Node, KeepaliveRound(n) PROVE OriginInv'
      <2>1. {p \in Peers(n) : queue[n][p] # <<>>} \in SUBSET Peers(n)
            OBVIOUS
      <2>2. QED
            BY <1>6, <1>8, <1>9, <2>1 DEF KeepaliveRound, history
<1>10. ASSUME NEW n \in Node, GetmsgsRound(n) PROVE OriginInv'
       BY <1>6, <1>8, <1>10 DEF GetmsgsRound, history
<1>11. ASSUME NEW l \in Pair, LinkUp(l) PROVE OriginInv'
       <2>1. /\ links' = links \cup {l} /\ l \in Possible /\ crossed \subseteq crossed'
             /\ sent' = sent /\ hand' = hand /\ wire' = wire /\ queue' = queue
             BY <1>11 DEF LinkUp, Possible
       <2>2. ASSUME NEW n \in Node, NEW t \in hand[n], t.at \in {"dangling", "store"},
                    l = {n, t.copy.msg.to}
             PROVE  t.copy.msg \in crossed'
             BY <1>11, <2>2 DEF LinkUp
       <2>3. HandsLinked(hand', links', crossed')
             BY <2>1, <2>2 DEF OriginInv, HandsLinked, TaskLinked
       <2>4. \A n \in Node : \A t \in hand[n] : t.copy.msg \in sent
             BY DEF OriginInv, HandsFrom, Origin
       <2>5. crossed' \subseteq sent'
             BY <1>11, <2>4 DEF LinkUp, OriginInv
       <2>6. WiresLinked(wire', links')
             BY <2>1 DEF OriginInv, WiresLinked
       <2>7. QED
             BY <2>1, <2>3, <2>5, <2>6 DEF OriginInv
<1>12. ASSUME NEW l \in Pair, LinkDown(l) PROVE OriginInv'
       <2>1. \A a, b \in Node : wire'[a][b] = IF {a, b} = l THEN <<>> ELSE wire[a][b]
             BY <1>12 DEF LinkDown
       <2>2. links' = links \ {l} /\ queue' = queue /\ sent' = sent /\ crossed' = crossed
             BY <1>12 DEF LinkDown, history
       <2>3. WiresLinked(wire', links')
             BY <2>1, <2>2 DEF OriginInv, WiresLinked
       <2>4. WiresFrom(wire', sent)
             BY <2>1 DEF OriginInv, WiresFrom
       <2>5. \A x \in Node : \A u \in hand'[x] : \E t \in hand[x] : u = Without(x, l, t)
             BY <1>0, <1>12, LinkDownHand
       <2>6. HandsFrom(hand', sent)
             <3>1. \A x \in Node : \A u \in hand'[x] : \E t \in hand[x] : u.copy = t.copy
                   BY <2>5 DEF Without
             <3>2. QED
                   BY <3>1 DEF OriginInv, HandsFrom
       <2>7. HandsLinked(hand', links', crossed)
             <3> SUFFICES ASSUME NEW x \in Node, NEW u \in hand'[x]
                          PROVE  TaskLinked(x, u, links', crossed)
                 BY DEF HandsLinked
             <3>1. PICK t \in hand[x] : u = Without(x, l, t)
                   BY <2>5
             <3>2. u.copy = t.copy /\ u.at = IF t.at = "forward" /\ l = {x, t.copy.msg.to}
                                             THEN "dangling" ELSE t.at
                   BY <3>1 DEF Without
             <3>3. TaskLinked(x, t, links, crossed) /\ links \subseteq Possible
                   BY DEF OriginInv, HandsLinked
             <3>4. QED
                   BY <2>2, <3>2, <3>3 DEF TaskLinked
       <2>8. QED
             BY <2>2, <2>3, <2>4, <2>6, <2>7 DEF OriginInv
<1>13. ASSUME NEW n \in Node, Handle(n) PROVE OriginInv'
       <2>1. Same
             BY <1>13 DEF Handle, Search, Forward, ForwardDangling, Store, history
       <2>2. Goal /\ HandsFrom(hand', sent) /\ HandsLinked(hand', links, crossed)
             BY <1>13, HandleFrom
       <2>3. QED
             BY <1>1a, <2>1, <2>2
<1>14. CASE UNCHANGED vars
       BY <1>14 DEF vars, history, OriginInv
<1>15. QED
       BY <1>2, <1>3, <1>4, <1>5, <1>7, <1>9, <1>10, <1>11, <1>12, <1>13, <1>14 DEF Next, Receive

-----------------------------------------------------------------------------
(* At most one copy comes, step by step.                                   *)

LEMMA StoreOne ==
    ASSUME queue \in Queues, NEW w \in Wires, NEW n \in Node, NEW g \in Node, NEW c \in Copy,
           NEW m \in Msg, None(w, queue, m)
    PROVE  AtMostOne(w, WithCopy(n, g, c), m)
<1> SUFFICES ASSUME NEW a \in Node, NEW b \in Node, NEW d \in Node, NEW e \in Node,
                    NEW i \in Coming(w, WithCopy(n, g, c), m, a, b),
                    NEW j \in Coming(w, WithCopy(n, g, c), m, d, e)
             PROVE  a = d /\ b = e /\ i = j
    BY DEF AtMostOne
<1>1. Coming(w, queue, m, a, b) = {} /\ Coming(w, queue, m, d, e) = {}
      BY DEF None
<1>2. a = n /\ b = n /\ i = Len(queue[n][g]) + 1
      BY <1>1, StoreComing
<1>3. d = n /\ e = n /\ j = Len(queue[n][g]) + 1
      BY <1>1, StoreComing
<1>4. QED
      BY <1>2, <1>3

LEMMA StoreAway ==
    ASSUME queue \in Queues, NEW w \in Wires, NEW n \in Node, NEW g \in Node, NEW c \in Copy,
           NEW m \in Msg, c.msg = m => ~Near(n, m.to)
    PROVE  \A a, b \in Node :
               Coming(w, WithCopy(n, g, c), m, a, b) \subseteq Coming(w, queue, m, a, b)
<1> SUFFICES ASSUME NEW a \in Node, NEW b \in Node,
                    NEW i \in Coming(w, WithCopy(n, g, c), m, a, b)
             PROVE  i \in Coming(w, queue, m, a, b)
    OBVIOUS
<1>1. QED
      BY StoreComing

LEMMA PutOne ==
    ASSUME NEW w \in Wires, NEW q, NEW n \in Node, NEW p \in Node, n # p, NEW pkt \in Packet,
           NEW m \in Msg, None(w, q, m)
    PROVE  AtMostOne(Put(w, n, {p}, pkt), q, m)
<1> SUFFICES ASSUME NEW a \in Node, NEW b \in Node, NEW d \in Node, NEW e \in Node,
                    NEW i \in Coming(Put(w, n, {p}, pkt), q, m, a, b),
                    NEW j \in Coming(Put(w, n, {p}, pkt), q, m, d, e)
             PROVE  a = d /\ b = e /\ i = j
    BY DEF AtMostOne
<1>1. Coming(w, q, m, a, b) = {} /\ Coming(w, q, m, d, e) = {} /\ n \notin {p}
      BY DEF None
<1>2. a = n /\ b \in {p} /\ i = Len(w[n][b]) + 1
      BY <1>1, PutComing
<1>3. d = n /\ e \in {p} /\ j = Len(w[n][e]) + 1
      BY <1>1, PutComing
<1>4. QED
      BY <1>2, <1>3

LEMMA PutAway ==
    ASSUME NEW w \in Wires, NEW q, NEW n \in Node, NEW S, n \notin S, NEW pkt \in Packet,
           NEW m \in Msg, pkt.kind = "sendmsg" => pkt.copy.msg # m
    PROVE  \A a, b \in Node :
               Coming(Put(w, n, S, pkt), q, m, a, b) \subseteq Coming(w, q, m, a, b)
<1> SUFFICES ASSUME NEW a \in Node, NEW b \in Node, NEW i \in Coming(Put(w, n, S, pkt), q, m, a, b)
             PROVE  i \in Coming(w, q, m, a, b)
    OBVIOUS
<1>1. QED
      BY PutComing

(* What a step must keep of message m: a copy may move, or go, but not     *)
(* appear. *)
Calm(m) ==
    /\ AtMostOne(wire', queue', m)
    /\ None(wire, queue, m) => None(wire', queue', m)

Steady(m) ==
    /\ Sole(wire', queue', hand', m)
    /\ Nowhere(wire, queue, hand, m) => Nowhere(wire', queue', hand', m)

LEMMA CalmIfFewer ==
    ASSUME NEW m \in Msg, NEW w, NEW q, AtMostOne(w, q, m),
           None(wire, queue, m) => None(w, q, m),
           \A a, b \in Node : Coming(wire', queue', m, a, b) \subseteq Coming(w, q, m, a, b)
    PROVE  Calm(m)
BY FewerComing DEF Calm

LEMMA SteadyIfCalm ==
    ASSUME NEW m \in Msg, Sole(wire, queue, hand, m), Calm(m),
           OneLeads(hand', m), NoneLeads(hand, m) => NoneLeads(hand', m)
    PROVE  Steady(m)
BY DEF Sole, Calm, Steady, Nowhere

LEMMA SteadyIfNoneBegins ==
    ASSUME NEW m \in Msg, Sole(wire, queue, hand, m), Calm(m),
           \A n \in Node : Leading(hand', m, n) \subseteq Leading(hand, m, n)
    PROVE  Steady(m)
<1>1. OneLeads(hand', m) /\ (NoneLeads(hand, m) => NoneLeads(hand', m))
      BY DEF Sole, OneLeads, NoneLeads
<1>2. QED
      BY <1>1, SteadyIfCalm

(* What the steps of a handler do to the handlers that lead on.            *)
LEMMA BeginsLeads ==
    ASSUME hand \in Hands, NEW n \in Node, NEW l \in SUBSET Node, NEW c \in Copy,
           Begins(n, l, c), NEW m \in Msg
    PROVE  /\ ~(c.msg = m /\ Ahead(n, c)) =>
                  \A x \in Node : Leading(hand', m, x) \subseteq Leading(hand, m, x)
           /\ NoneLeads(hand, m) => OneLeads(hand', m)
<1> DEFINE u == [at |-> "search", conn |-> l, copy |-> c]
<1>1. \A x \in Node : \A t \in hand'[x] : t \in hand[x] \/ (x = n /\ t = u)
      BY BeginsHand
<1>2. u.copy = c
      OBVIOUS
<1> HIDE DEF u
<1>3. ASSUME NEW x \in Node, NEW t \in Leading(hand', m, x)
      PROVE  t \in Leading(hand, m, x) \/ (x = n /\ t = u /\ c.msg = m /\ Ahead(n, c))
      BY <1>1, <1>2, <1>3 DEF Leading
<1>4. NoneLeads(hand, m) => OneLeads(hand', m)
      BY <1>3 DEF NoneLeads, OneLeads
<1>5. QED
      BY <1>3, <1>4

LEMMA GoesLeads ==
    ASSUME hand \in Hands, NEW n \in Node, NEW t \in hand[n],
           NEW pc \in {"forward", "dangling", "store"}, Goes(n, t, pc), NEW m \in Msg,
           Sole(wire, queue, hand, m), Calm(m)
    PROVE  Steady(m)
<1> DEFINE v == [t EXCEPT !.at = pc]
<1>1. /\ \A x \in Node : \A u \in hand'[x] :
            (u \in hand[x] /\ ~(x = n /\ u = t)) \/ (x = n /\ u = v)
      /\ v.copy = t.copy
      BY GoesHand
<1> HIDE DEF v
<1>2. ASSUME NEW x \in Node, NEW u \in Leading(hand', m, x)
      PROVE  \/ u \in Leading(hand, m, x) /\ ~(x = n /\ u = t)
             \/ x = n /\ u = v /\ t \in Leading(hand, m, n)
      BY <1>1, <1>2 DEF Leading
<1>3. NoneLeads(hand, m) => NoneLeads(hand', m)
      BY <1>2 DEF NoneLeads
<1>4. OneLeads(hand', m)
      <2> SUFFICES ASSUME NEW x \in Node, NEW y \in Node,
                          NEW u \in Leading(hand', m, x), NEW z \in Leading(hand', m, y)
                   PROVE  x = y /\ u = z
          BY DEF OneLeads
      <2>1. \/ u \in Leading(hand, m, x) /\ ~(x = n /\ u = t)
            \/ x = n /\ u = v /\ t \in Leading(hand, m, n)
            BY <1>2
      <2>2. \/ z \in Leading(hand, m, y) /\ ~(y = n /\ z = t)
            \/ y = n /\ z = v /\ t \in Leading(hand, m, n)
            BY <1>2
      <2>3. OneLeads(hand, m)
            BY DEF Sole
      <2>4. QED
            BY <2>1, <2>2, <2>3 DEF OneLeads
<1>5. QED
      BY <1>3, <1>4, SteadyIfCalm

LEMMA ReturnsLeads ==
    ASSUME hand \in Hands, NEW n \in Node, NEW t \in hand[n], Returns(n, t), NEW m \in Msg
    PROVE  /\ \A x \in Node : Leading(hand', m, x) \subseteq Leading(hand, m, x)
           /\ OneLeads(hand, m) /\ t \in Leading(hand, m, n) => NoneLeads(hand', m)
<1>1. \A x \in Node : \A u \in hand'[x] : u \in hand[x] /\ ~(x = n /\ u = t)
      BY ReturnsHand
<1>2. QED
      BY <1>1 DEF Leading, OneLeads, NoneLeads

(* A handler that leads on has done so: what it sent and stored, one copy  *)
(* at most, is what comes. *)
LEMMA SteadyIfPassed ==
    ASSUME hand \in Hands, NEW n \in Node, NEW t \in hand[n], Returns(n, t), NEW m \in Msg,
           Sole(wire, queue, hand, m), t \in Leading(hand, m, n),
           None(wire, queue, m) => AtMostOne(wire', queue', m)
    PROVE  Steady(m)
<1>1. ~NoneLeads(hand, m)
      BY DEF NoneLeads
<1>2. None(wire, queue, m) /\ OneLeads(hand, m)
      BY <1>1 DEF Sole
<1>3. NoneLeads(hand', m)
      BY <1>2, ReturnsLeads
<1>4. OneLeads(hand', m)
      BY <1>3 DEF OneLeads, NoneLeads
<1>5. QED
      BY <1>1, <1>2, <1>3, <1>4 DEF Steady, Sole, Nowhere

(* A handler sends its copy on, or keeps and floods it. *)
LEMMA HandleSteady ==
    ASSUME Forest, FloodInv, OriginInv, NEW n \in Node, Handle(n),
           NEW m \in Msg \ crossed, Sole(wire, queue, hand, m)
    PROVE  Steady(m)
<1>0. /\ wire \in Wires /\ queue \in Queues /\ hand \in Hands
      /\ n \notin Peers(n) /\ links \subseteq Possible
      /\ AtMostOne(wire, queue, m)
      BY PeersOthers DEF FloodInv, TypeOK, Wires, Queues, Hands, OriginInv, Sole
<1>1. PICK t \in hand[n] :
          Search(n, t) \/ Forward(n, t) \/ ForwardDangling(n, t) \/ Store(n, t)
      BY DEF Handle
<1> DEFINE c == t.copy
           g == c.msg.to
<1>2. /\ c \in Copy /\ c.msg \in Msg /\ g \in Node
      /\ TaskGood(n, t) /\ TaskLinked(n, t, links, crossed)
      BY <1>0, TaskCopy DEF OriginInv, HandsLinked, FloodInv, HandsGood
<1>3. g # n /\ g \notin Range(c.hops) /\ (g \in Peers(n) <=> {n, g} \in links)
      BY <1>2 DEF TaskGood, Good, Peers
<1>4. Frame(c) \in Packet /\ Frame(c).kind = "sendmsg" /\ Frame(c).copy.msg = c.msg
      BY <1>2, FrameType, FrameCarries
<1>5. {n, g} \in Possible => Ahead(n, c)
      BY <1>2, <1>3, BeyondStarts DEF Ahead
<1>6. c.msg = m /\ Ahead(n, c) => t \in Leading(hand, m, n)
      BY DEF Leading
<1>7. UNCHANGED <<wire, queue>> => Calm(m)
      BY <1>0 DEF Calm
<1> HIDE DEF c
<1>8. ASSUME NEW p \in Node, p # n, {n, c.msg.to} \in Possible,
             wire' = Put(wire, n, {p}, Frame(c)), queue' = queue, Returns(n, t)
      PROVE  Steady(m)
      <2>1. CASE c.msg = m
            <3>1. t \in Leading(hand, m, n)
                  BY <1>5, <1>6, <1>8, <2>1
            <3>2. None(wire, queue, m) => AtMostOne(wire', queue', m)
                  BY <1>0, <1>4, <1>8, PutOne
            <3>3. QED
                  BY <1>0, <1>8, <3>1, <3>2, SteadyIfPassed
      <2>2. CASE c.msg # m
            <3>1. n \notin {p}
                  BY <1>8
            <3>2. \A a, b \in Node : Coming(wire', queue', m, a, b) \subseteq Coming(wire, queue, m, a, b)
                  BY <1>0, <1>4, <1>8, <2>2, <3>1, PutAway
            <3>3. Calm(m)
                  BY <1>0, <3>2, CalmIfFewer
            <3>4. QED
                  BY <1>0, <1>8, <3>3, ReturnsLeads, SteadyIfNoneBegins
      <2>3. QED
            BY <2>1, <2>2
<1>9. CASE Search(n, t)
      <2>1. Calm(m)
            BY <1>7, <1>9 DEF Search
      <2>2. QED
            BY <1>0, <1>9, <2>1, GoesLeads DEF Search
<1>10. CASE Forward(n, t)
       <2>1. {n, c.msg.to} \in Possible
             BY <1>0, <1>2, <1>10 DEF Forward, TaskLinked, c
       <2>2. wire' = Put(wire, n, {c.msg.to}, Frame(c)) /\ queue' = queue /\ Returns(n, t)
             BY <1>10 DEF Forward, c
       <2>3. QED
             BY <1>2, <1>3, <1>8, <2>1, <2>2
<1>11. CASE ForwardDangling(n, t)
       <2>1. {n, c.msg.to} \in Possible /\ queue' = queue
             BY <1>2, <1>11 DEF ForwardDangling, TaskLinked, c
       <2>2. ASSUME NEW p \in Peers(n), wire' = Put(wire, n, {p}, Frame(c)), Returns(n, t)
             PROVE  Steady(m)
             <3>1. p \in Node /\ p # n
                   BY <1>0 DEF Peers
             <3>2. QED
                   BY <1>8, <2>1, <2>2, <3>1
       <2>3. ASSUME UNCHANGED wire, Goes(n, t, "store") PROVE Steady(m)
             BY <1>0, <1>7, <2>1, <2>3, GoesLeads
       <2>4. QED
             BY <1>11, <2>2, <2>3 DEF ForwardDangling, c
<1>12. CASE Store(n, t)
       <2> DEFINE S == Peers(n) \ Range(c.hops)
       <2>1. Floods(n, c, wire, S) /\ Returns(n, t) /\ S \in SUBSET Peers(n)
             BY <1>12 DEF Store, Floods, WithCopy, c
       <2>2. CASE c.msg = m /\ t \in Leading(hand, m, n)
             <3>1. c.msg.to \notin Peers(n)
                   BY <1>2, <1>3, <1>12, <2>2 DEF Store, TaskLinked, c
             <3> HIDE DEF S
             <3>2. None(wire, queue, c.msg) => AtMostOne(wire', queue', c.msg)
                   BY <1>0, <1>2, <1>3, <2>1, <3>1, FloodOne
             <3>3. QED
                   BY <1>0, <2>1, <2>2, <3>2, SteadyIfPassed
       <2>3. CASE ~(c.msg = m /\ t \in Leading(hand, m, n))
             <3>1. ASSUME c.msg = m
                   PROVE  ~Near(n, m.to) /\ \A p \in S : m.to \notin Beyond(n, p)
                   <4>1. ~Ahead(n, c)
                         BY <1>6, <2>3, <3>1
                   <4>2. {n, m.to} \notin Possible /\ n # m.to
                         BY <1>3, <1>5, <3>1, <4>1
                   <4>3. ASSUME NEW p \in S PROVE m.to \notin Beyond(n, p)
                         <5>1. p \in Node /\ {n, p} \in Possible /\ p \notin Range(c.hops)
                               BY <1>0 DEF Peers
                         <5>2. QED
                               BY <3>1, <4>1, <5>1 DEF Ahead
                   <4>4. QED
                         BY <4>2, <4>3 DEF Near
             <3> HIDE DEF S
             <3>2. \A a, b \in Node : Coming(wire', queue', m, a, b) \subseteq Coming(wire, queue, m, a, b)
                   BY <1>0, <1>2, <2>1, <3>1, FloodAway
             <3>3. Calm(m)
                   BY <1>0, <3>2, CalmIfFewer
             <3>4. QED
                   BY <1>0, <2>1, <3>3, ReturnsLeads, SteadyIfNoneBegins
       <2>4. QED
             BY <2>2, <2>3
<1>13. QED
       BY <1>1, <1>9, <1>10, <1>11, <1>12

(* A copy that is taken in.  One that is coming arrives, or waits near its *)
(* destination, or is in hand to be passed on; one that is not has come    *)
(* from where its destination lies, and is led further away.               *)
LEMMA TakeInSteady ==
    ASSUME Forest, TypeOK, OriginInv, NEW a \in Node, NEW b \in Node, a # b,
           wire[a][b] # <<>>, Head(wire[a][b]).kind = "sendmsg",
           NEW c \in Copy, c = Head(wire[a][b]).copy, Good(c), c.hops = <<>> => c.msg.to = b,
           b \notin Range(c.hops), TakeIn(a, b, c),
           NEW m \in Msg, Sole(wire, queue, hand, m)
    PROVE  Steady(m)
<1> DEFINE t == Taken(a, b)
           p == PassedOn(c, b)
           k == Kept(c, b)
<1>0. /\ wire \in Wires /\ queue \in Queues /\ hand \in Hands
      /\ links \subseteq Possible /\ AtMostOne(wire, queue, m)
      BY DEF TypeOK, Wires, Queues, Hands, OriginInv, Sole
<1>1. t \in Wires /\ AtMostOne(t, queue, m) /\ (None(wire, queue, m) => None(t, queue, m))
      BY <1>0, TakenType, TakenComing
<1>2. c.msg.to \in Node /\ c.msg \in Msg /\ c.trail \in Seq(Node) /\ c.hops \in Seq(Node)
      BY MsgAssumption DEF Copy, Hops
<1>3. k \in Copy /\ k.msg = c.msg
      BY KeptIs
<1>4. PassesOn(a, b, c) =>
          /\ p \in Copy /\ p.msg = c.msg /\ (c.hops # <<>> => p.hops = Append(c.hops, b))
          /\ wire' = t /\ queue' = queue /\ Begins(b, {a, b}, p) /\ {a, b} \in SUBSET Node
      BY PassedOnIs DEF PassesOn
<1>5. Keeps(a, b, c) => wire' = t /\ queue' = WithCopy(b, c.msg.to, k) /\ hand' = hand
      BY DEF Keeps, WithCopy
<1> HIDE DEF t, p, k
<1>6. hand' = hand /\ Calm(m) => Steady(m)
      BY SteadyIfNoneBegins
<1>7. CASE PassesOn(a, b, c) /\ ~(c.msg = m /\ Ahead(b, p))
      <2>1. Calm(m)
            BY <1>1, <1>4, <1>7 DEF Calm
      <2>2. \A x \in Node : Leading(hand', m, x) \subseteq Leading(hand, m, x)
            BY <1>0, <1>4, <1>7, BeginsLeads
      <2>3. QED
            BY <2>1, <2>2, SteadyIfNoneBegins
<1>8. CASE Keeps(a, b, c) /\ c.msg # m
      <2>1. \A d, e \in Node : Coming(wire', queue', m, d, e) \subseteq Coming(t, queue, m, d, e)
            BY <1>0, <1>1, <1>2, <1>3, <1>5, <1>8, StoreAway
      <2>2. Calm(m)
            BY <1>1, <2>1, CalmIfFewer
      <2>3. QED
            BY <1>5, <1>6, <1>8, <2>2
<1>9. CASE c.msg = m /\ m.to \in Beyond(a, b)
      <2>1. None(t, queue, m) /\ ~None(wire, queue, m)
            <3>1. None(t, queue, m) /\ 1 \in Coming(wire, queue, m, a, b)
                  BY <1>0, <1>9, TakenComing DEF t
            <3>2. QED
                  BY <3>1 DEF None
      <2>2. CASE PassesOn(a, b, c)
            <3>1. NoneLeads(hand, m)
                  BY <2>1 DEF Sole
            <3>2. OneLeads(hand', m)
                  BY <1>0, <1>4, <2>2, <3>1, BeginsLeads
            <3>3. AtMostOne(wire', queue', m) /\ None(wire', queue', m)
                  BY <1>1, <1>4, <2>1, <2>2
            <3>4. QED
                  BY <2>1, <3>2, <3>3 DEF Steady, Sole, Nowhere
      <2>3. CASE Keeps(a, b, c)
            <3>1. AtMostOne(t, WithCopy(b, c.msg.to, k), m)
                  BY <1>0, <1>1, <1>2, <1>3, <2>1, StoreOne
            <3>2. Calm(m)
                  BY <1>5, <2>1, <2>3, <3>1 DEF Calm
            <3>3. QED
                  BY <1>5, <1>6, <2>3, <3>2
      <2>4. QED
            BY <2>2, <2>3 DEF TakeIn
<1>10. CASE c.msg = m /\ m.to \notin Beyond(a, b)
       <2>1. a \in Range(c.trail) /\ {a, b} \in Possible
             <3>1. Origin(a, c, sent)
                   BY <1>0, TakenFrom DEF OriginInv
             <3>2. QED
                   BY <1>0, <3>1 DEF Origin, OriginInv, WiresLinked
       <2>2. m.to # a /\ m.to # b
             BY <1>10, <2>1, BeyondStarts DEF Good
       <2>3. c.hops # <<>> /\ a \in Range(c.hops)
             BY <1>10, <2>1, <2>2 DEF Good
       <2>4. CASE PassesOn(a, b, c)
             <3>1. p.msg = m /\ p.hops = Append(c.hops, b)
                   BY <1>4, <1>10, <2>3, <2>4
             <3>2. a \in Range(p.hops)
                   BY <1>2, <2>3, <3>1, LastIn
             <3>3. ASSUME NEW d \in Node, {b, d} \in Possible, d \notin Range(p.hops)
                   PROVE  m.to \notin Beyond(b, d)
                   <4>1. d # a
                         BY <3>2, <3>3
                   <4>2. QED
                         BY <1>10, <2>1, <3>3, <4>1, BeyondOnward
             <3>4. ~Ahead(b, p)
                   BY <3>1, <3>3 DEF Ahead
             <3>5. QED
                   BY <1>7, <2>4, <3>4
       <2>5. CASE Keeps(a, b, c)
             <3>1. {b, m.to} \notin Possible
                   <4>1. b \in Beyond(a, b) /\ {b, m.to} # {a, b}
                         BY <2>2, BeyondStarts
                   <4>2. QED
                         BY <1>2, <1>10, <4>1, BeyondGrows
             <3>2. ~Near(b, m.to)
                   BY <2>2, <3>1 DEF Near
             <3>3. \A d, e \in Node : Coming(wire', queue', m, d, e) \subseteq Coming(t, queue, m, d, e)
                   BY <1>0, <1>1, <1>2, <1>3, <1>5, <2>5, <3>2, StoreAway
             <3>4. Calm(m)
                   BY <1>1, <3>3, CalmIfFewer
             <3>5. QED
                   BY <1>5, <1>6, <2>5, <3>4
       <2>6. QED
             BY <2>4, <2>5 DEF TakeIn
<1>11. QED
       BY <1>7, <1>8, <1>9, <1>10 DEF TakeIn

(* A step that is steady for m keeps what the invariant says of m. *)
LEMMA SteadyKeeps ==
    ASSUME NEW m \in Msg, MessageInv(m), m \notin crossed => Steady(m),
           sent \subseteq sent', crossed \subseteq crossed', read'[m] = read[m]
    PROVE  MessageInv(m)'
BY DEF MessageInv, OneComes, Steady

(* Nothing is anywhere of a message that was not sent. *)
LEMMA UnsentNowhere ==
    ASSUME OriginInv, NEW m \in Msg \ sent
    PROVE  Nowhere(wire, queue, hand, m)
<1>1. \A a, b \in Node : Flying(wire, m, a, b) = {}
      BY DEF OriginInv, WiresFrom, Origin, Flying
<1>2. \A n \in Node : Waiting(queue, m, n) = {}
      BY MsgAssumption DEF OriginInv, QueuesFrom, Origin, Waiting
<1>3. \A n \in Node : Leading(hand, m, n) = {}
      BY DEF OriginInv, HandsFrom, Origin, Leading
<1>4. QED
      BY <1>1, <1>2, <1>3 DEF Nowhere, None, NoneLeads, Coming

LEMMA ClientSendForest ==
    ASSUME TypeOK, OriginInv, NEW m \in Msg, ClientSend(m), NEW k \in Msg, MessageInv(k)
    PROVE  MessageInv(k)'
<1> DEFINE n == m.from
           c == [msg |-> m, hops |-> <<n>>, trail |-> <<n>>]
<1>0. hand \in Hands /\ n \in Node
      BY MsgAssumption DEF TypeOK, Hands
<1>1. c \in Copy /\ c.msg = m
      BY <1>0, HopAssumption DEF Copy, Hops
<1>2. /\ Begins(n, {n}, c) /\ {n} \in SUBSET Node /\ wire' = wire /\ queue' = queue
      /\ m \notin sent /\ sent' = sent \cup {m} /\ read' = read /\ crossed' = crossed
      BY <1>0 DEF ClientSend
<1> HIDE DEF n, c
<1>3. CASE k = m
      <2>1. Nowhere(wire, queue, hand, m)
            BY <1>2, UnsentNowhere
      <2>2. OneLeads(hand', m)
            BY <1>0, <1>1, <1>2, <2>1, BeginsLeads DEF Nowhere
      <2>3. read[m] = 0
            BY <1>2, <1>3 DEF MessageInv
      <2>4. None(wire', queue', m) /\ AtMostOne(wire', queue', m)
            BY <1>2, <2>1 DEF Nowhere, None, AtMostOne
      <2>5. QED
            BY <1>2, <1>3, <2>2, <2>3, <2>4 DEF MessageInv, OneComes, Sole
<1>4. CASE k # m
      <2>1. ASSUME k \notin crossed PROVE Steady(k)
            <3>1. Sole(wire, queue, hand, k)
                  BY <2>1 DEF MessageInv, OneComes
            <3>2. Calm(k)
                  BY <1>2, <3>1 DEF Calm, Sole
            <3>3. \A x \in Node : Leading(hand', k, x) \subseteq Leading(hand, k, x)
                  BY <1>0, <1>1, <1>2, <1>4, BeginsLeads
            <3>4. QED
                  BY <3>1, <3>2, <3>3, SteadyIfNoneBegins
      <2>2. QED
            BY <1>2, <2>1, SteadyKeeps
<1>5. QED
      BY <1>3, <1>4

LEMMA ClientGetForest ==
    ASSUME FloodInv, OriginInv, NEW n \in Node, ClientGet(n), NEW k \in Msg, MessageInv(k)
    PROVE  MessageInv(k)'
<1> DEFINE m == Head(queue[n][n]).msg
<1>0. wire \in Wires /\ queue \in Queues /\ read \in [Msg -> Nat]
      BY DEF FloodInv, TypeOK, Wires, Queues
<1>1. /\ queue[n][n] # <<>> /\ wire' = wire /\ queue' = WithoutFirst(n, n) /\ hand' = hand
      /\ read' = [read EXCEPT ![m] = @ + 1] /\ sent' = sent /\ crossed' = crossed
      BY DEF ClientGet, WithoutFirst, history
<1>2. m \in Msg /\ m.to = n /\ m \in sent
      <2>1. Head(queue[n][n]) \in Copy
            BY <1>0, <1>1 DEF Queues
      <2>2. StoredGood(n, n, Head(queue[n][n]))
            BY <1>0, <1>1, RemoveGood DEF FloodInv
      <2>3. Origin(n, Head(queue[n][n]), sent)
            BY <1>0, <1>1, RemoveFrom DEF OriginInv
      <2>4. QED
            BY <2>1, <2>2, <2>3 DEF Copy, StoredGood, Origin
<1>3. CASE k = m
      <2>1. SUFFICES ASSUME k \notin crossed PROVE OneComes(wire', queue', hand', read', k)
            BY <1>1, <1>2, <1>3 DEF MessageInv
      <2>2. /\ AtMostOne(wire, queue, k) /\ Sole(wire, queue, hand, k)
            /\ read[k] \in {0, 1} /\ (read[k] = 1 => None(wire, queue, k))
            BY <2>1 DEF MessageInv, OneComes, Sole, Nowhere
      <2>3. Near(n, n) /\ Head(queue[n][n]).msg = k /\ n = k.to
            BY <1>2, <1>3 DEF Near
      <2>4. None(wire, WithoutFirst(n, n), k) /\ 1 \in Coming(wire, queue, k, n, n)
            BY <1>0, <1>1, <2>2, <2>3, RemoveComing
      <2>5. ~None(wire, queue, k)
            BY <2>4 DEF None
      <2>6. NoneLeads(hand', k) /\ OneLeads(hand', k)
            BY <1>1, <2>2, <2>5 DEF Sole
      <2>7. read'[k] = 1
            BY <1>0, <1>1, <1>3, <2>2, <2>5
      <2>8. None(wire', queue', k) /\ AtMostOne(wire', queue', k)
            BY <1>1, <2>4 DEF None, AtMostOne
      <2>9. QED
            BY <2>6, <2>7, <2>8 DEF OneComes, Sole, Nowhere
<1>4. CASE k # m
      <2>1. ASSUME k \notin crossed PROVE Steady(k)
            <3>1. Sole(wire, queue, hand, k) /\ AtMostOne(wire, queue, k)
                  BY <2>1 DEF MessageInv, OneComes, Sole
            <3>2. /\ AtMostOne(wire, WithoutFirst(n, n), k)
                  /\ None(wire, queue, k) => None(wire, WithoutFirst(n, n), k)
                  BY <1>0, <1>1, <3>1, RemoveComing
            <3>3. Calm(k)
                  BY <1>1, <3>2 DEF Calm
            <3>4. QED
                  BY <1>1, <3>1, <3>3, SteadyIfNoneBegins
      <2>2. read'[k] = read[k]
            BY <1>0, <1>1, <1>4
      <2>3. QED
            BY <1>1, <2>1, <2>2, SteadyKeeps
<1>5. QED
      BY <1>3, <1>4

(* The copy that GETMSGS fetches is coming, at a neighbour of the server   *)
(* that asks, and then on the link between them. *)
LEMMA GetmsgsCalm ==
    ASSUME FloodInv, OriginInv, NEW a \in Node, NEW b \in Node, HandleGetmsgs(a, b),
           NEW m \in Msg, AtMostOne(wire, queue, m)
    PROVE  Calm(m)
<1> DEFINE t == Taken(a, b)
<1>0. wire \in Wires /\ queue \in Queues
      BY DEF FloodInv, TypeOK, Wires, Queues
<1>1. wire[a][b] # <<>> /\ {a, b} \in Possible /\ a # b
      BY <1>0, TakenGood DEF HandleGetmsgs, Arriving, OriginInv, WiresLinked, FloodInv
<1>2. t \in Wires /\ AtMostOne(t, queue, m) /\ (None(wire, queue, m) => None(t, queue, m))
      BY <1>0, <1>1, TakenType, TakenComing
<1>3. CASE queue[b][a] = <<>>
      BY <1>2, <1>3 DEF HandleGetmsgs, Calm
<1>4. CASE queue[b][a] # <<>>
      <2> DEFINE c == Head(queue[b][a])
                 q == WithoutFirst(b, a)
      <2>1. wire' = Put(t, b, {a}, Frame(c)) /\ queue' = q
            BY <1>4 DEF HandleGetmsgs, WithoutFirst
      <2>2. c \in Copy /\ StoredGood(b, a, c)
            <3>1. c \in Copy
                  BY <1>0, <1>4 DEF Queues
            <3>2. StoredGood(b, a, c)
                  BY <1>0, <1>4, RemoveGood DEF FloodInv
            <3>3. QED
                  BY <3>1, <3>2
      <2>3. Frame(c) \in Packet /\ Frame(c).copy.msg = c.msg /\ c.msg.to = a
            BY <2>2, FrameType, FrameCarries DEF StoredGood
      <2>4. AtMostOne(t, q, m) /\ (None(t, queue, m) => None(t, q, m))
            BY <1>0, <1>2, <1>4, RemoveComing
      <2>5. CASE c.msg = m
            <3>1. a = m.to /\ Near(b, a)
                  BY <1>1, <2>3, <2>5 DEF Near
            <3>2. None(t, q, m) /\ 1 \in Coming(t, queue, m, b, b)
                  BY <1>0, <1>2, <1>4, <2>5, <3>1, RemoveComing
            <3>3. ~None(t, queue, m)
                  BY <3>2 DEF None
            <3> HIDE DEF t, c, q
            <3>4. AtMostOne(wire', queue', m)
                  BY <1>1, <1>2, <2>1, <2>3, <3>2, PutOne
            <3>5. QED
                  BY <1>2, <3>3, <3>4 DEF Calm
      <2>6. CASE c.msg # m
            <3> HIDE DEF t, c, q
            <3>1. b \notin {a}
                  BY <1>1
            <3>2. \A d, e \in Node : Coming(wire', queue', m, d, e) \subseteq Coming(t, q, m, d, e)
                  BY <1>2, <2>1, <2>3, <2>6, <3>1, PutAway
            <3>3. QED
                  BY <1>2, <2>4, <3>2, CalmIfFewer
      <2>7. QED
            BY <2>5, <2>6
<1>5. QED
      BY <1>3, <1>4

LEMMA ReceiveSteady ==
    ASSUME Forest, FloodInv, OriginInv, NEW a \in Node, NEW b \in Node, Receive(a, b),
           NEW m \in Msg, Sole(wire, queue, hand, m)
    PROVE  Steady(m)
<1>0. wire \in Wires /\ queue \in Queues /\ TypeOK /\ AtMostOne(wire, queue, m)
      BY DEF FloodInv, TypeOK, Wires, Queues, Sole
<1>1. wire[a][b] # <<>> /\ a # b
      BY <1>0, TakenGood
         DEF Receive, HandleSendmsg, HandleGetmsgs, HandleKeepalive, Arriving, FloodInv
<1>2. /\ Taken(a, b) \in Wires /\ AtMostOne(Taken(a, b), queue, m)
      /\ None(wire, queue, m) => None(Taken(a, b), queue, m)
      BY <1>0, <1>1, TakenType, TakenComing
<1>3. CASE HandleSendmsg(a, b)
      <2> DEFINE c == Head(wire[a][b]).copy
      <2>1. c \in Copy /\ Head(wire[a][b]).kind = "sendmsg"
            BY <1>0, <1>3, ArrivingCopy DEF HandleSendmsg, Arriving
      <2>2. Good(c) /\ (c.hops = <<>> => c.msg.to = b)
            <3>1. 1 \in 1..Len(wire[a][b]) /\ Head(wire[a][b]) = wire[a][b][1]
                  BY <1>0, <1>1 DEF Wires
            <3>2. QED
                  BY <2>1, <3>1 DEF FloodInv, WiresGood, PacketGood
      <2>3. CASE b \in Range(c.hops)
            <3>1. hand' = hand /\ Calm(m)
                  BY <1>2, <1>3, <2>3 DEF HandleSendmsg, Calm
            <3>2. QED
                  BY <3>1, SteadyIfNoneBegins
      <2>4. CASE b \notin Range(c.hops)
            <3>1. TakeIn(a, b, c) /\ c = Head(wire[a][b]).copy
                  BY <1>3, <2>4 DEF HandleSendmsg
            <3> HIDE DEF c
            <3>2. QED
                  BY <1>0, <1>1, <2>1, <2>2, <2>4, <3>1, TakeInSteady
      <2>5. QED
            BY <2>3, <2>4
<1>4. CASE HandleGetmsgs(a, b)
      <2>1. Calm(m) /\ hand' = hand
            BY <1>0, <1>4, GetmsgsCalm DEF HandleGetmsgs
      <2>2. QED
            BY <2>1, SteadyIfNoneBegins
<1>5. CASE HandleKeepalive(a, b)
      <2>1. /\ wire' = Put(Taken(a, b), b, {a}, [kind |-> "getmsgs"])
            /\ queue' = queue /\ hand' = hand
            BY <1>5 DEF HandleKeepalive
      <2>2. [kind |-> "getmsgs"] \in Packet /\ b \notin {a}
            BY <1>1 DEF Packet
      <2>3. \A d, e \in Node :
                Coming(wire', queue', m, d, e) \subseteq Coming(Taken(a, b), queue, m, d, e)
            BY <1>2, <2>1, <2>2, PutAway
      <2>4. Calm(m)
            BY <1>2, <2>3, CalmIfFewer
      <2>5. QED
            BY <2>1, <2>4, SteadyIfNoneBegins
<1>6. QED
      BY <1>3, <1>4, <1>5 DEF Receive

LEMMA RoundSteady ==
    ASSUME TypeOK, NEW n \in Node, KeepaliveRound(n) \/ GetmsgsRound(n),
           NEW m \in Msg, Sole(wire, queue, hand, m)
    PROVE  Steady(m)
<1>0. wire \in Wires /\ n \notin Peers(n)
      BY PeersOthers DEF TypeOK, Wires
<1>1. [kind |-> "getmsgs"] \in Packet /\ [kind |-> "keepalive"] \in Packet
      BY DEF Packet
<1>2. \A a, b \in Node : Coming(wire', queue', m, a, b) \subseteq Coming(wire, queue, m, a, b)
      <2>1. CASE KeepaliveRound(n)
            <3> DEFINE S == {p \in Peers(n) : queue[n][p] # <<>>}
            <3>1. wire' = Put(wire, n, S, [kind |-> "keepalive"]) /\ queue' = queue /\ n \notin S
                  BY <1>0, <2>1 DEF KeepaliveRound
            <3> HIDE DEF S
            <3>2. QED
                  BY <1>0, <1>1, <3>1, PutAway
      <2>2. CASE GetmsgsRound(n)
            <3>1. wire' = Put(wire, n, Peers(n), [kind |-> "getmsgs"]) /\ queue' = queue
                  BY <2>2 DEF GetmsgsRound
            <3>2. QED
                  BY <1>0, <1>1, <3>1, PutAway
      <2>3. QED
            BY <2>1, <2>2
<1>3. Calm(m) /\ hand' = hand
      BY <1>2, CalmIfFewer DEF Sole, KeepaliveRound, GetmsgsRound
<1>4. QED
      BY <1>3, SteadyIfNoneBegins

LEMMA LinkDownSteady ==
    ASSUME TypeOK, NEW l \in Pair, LinkDown(l), NEW m \in Msg, Sole(wire, queue, hand, m)
    PROVE  Steady(m)
<1>1. queue' = queue /\ \A a, b \in Node : wire'[a][b] = IF {a, b} = l THEN <<>> ELSE wire[a][b]
      BY DEF LinkDown
<1>2. ASSUME NEW a \in Node, NEW b \in Node
      PROVE  Coming(wire', queue', m, a, b) \subseteq Coming(wire, queue, m, a, b)
      <2>1. Flying(wire', m, a, b) \subseteq Flying(wire, m, a, b)
            BY <1>1 DEF Flying
      <2>2. QED
            BY <1>1, <2>1 DEF Coming
<1>3. Calm(m)
      BY <1>2, CalmIfFewer DEF Sole
<1>4. \A x \in Node : \A u \in hand'[x] : \E t \in hand[x] : u = Without(x, l, t)
      BY LinkDownHand DEF TypeOK, Hands
<1>5. \A x \in Node : \A u \in Leading(hand', m, x) :
          \E t \in Leading(hand, m, x) : u = Without(x, l, t)
      <2> SUFFICES ASSUME NEW x \in Node, NEW u \in Leading(hand', m, x)
                   PROVE  \E t \in Leading(hand, m, x) : u = Without(x, l, t)
          OBVIOUS
      <2>1. PICK t \in hand[x] : u = Without(x, l, t)
            BY <1>4 DEF Leading
      <2>2. u.copy = t.copy
            BY <2>1 DEF Without
      <2>3. QED
            BY <2>1, <2>2 DEF Leading
<1>6. NoneLeads(hand, m) => NoneLeads(hand', m)
      BY <1>5 DEF NoneLeads
<1>7. OneLeads(hand', m)
      BY <1>5 DEF OneLeads, Sole
<1>8. QED
      BY <1>3, <1>6, <1>7, SteadyIfCalm

LEMMA ForestInit == Init => ForestInv
<1> SUFFICES ASSUME Init PROVE ForestInv
    OBVIOUS
<1>1. FloodInv /\ OriginInv
      BY FloodInvInit, OriginInit
<1>2. ASSUME NEW m \in Msg PROVE MessageInv(m)
      <2>1. Nowhere(wire, queue, hand, m) /\ read[m] = 0
            BY <1>1, UnsentNowhere DEF Init
      <2>2. Sole(wire, queue, hand, m)
            BY <2>1 DEF Sole, Nowhere, AtMostOne, None, OneLeads, NoneLeads
      <2>3. QED
            BY <2>1, <2>2 DEF MessageInv, OneComes
<1>3. QED
      BY <1>1, <1>2 DEF ForestInv

LEMMA ForestStep ==
    ASSUME Forest, MaxHops <= Room, ForestInv, [Next]_vars PROVE ForestInv'
<1>0. FloodInv /\ OriginInv /\ TypeOK /\ FloodInv' /\ OriginInv'
      BY FloodInvStep, OriginStep DEF ForestInv, FloodInv
<1>1. \A m \in Msg : MessageInv(m)
      BY DEF ForestInv
<1> SUFFICES ASSUME NEW m \in Msg PROVE MessageInv(m)'
    BY <1>0 DEF ForestInv
<1> DEFINE Same == sent' = sent /\ crossed' = crossed /\ read' = read
<1>2. m \notin crossed => Sole(wire, queue, hand, m)
      BY <1>1 DEF MessageInv, OneComes
<1>3. ASSUME m \notin crossed => Steady(m), Same PROVE MessageInv(m)'
      BY <1>1, <1>3, SteadyKeeps
<1>4. ASSUME NEW k \in Msg, ClientSend(k) PROVE MessageInv(m)'
      BY <1>0, <1>1, <1>4, ClientSendForest
<1>5. ASSUME NEW n \in Node, ClientGet(n) PROVE MessageInv(m)'
      BY <1>0, <1>1, <1>5, ClientGetForest
<1>6. ASSUME NEW a \in Node, NEW b \in Node, Receive(a, b) PROVE MessageInv(m)'
      <2>1. Same
            BY <1>6 DEF Receive, HandleSendmsg, HandleGetmsgs, HandleKeepalive, history
      <2>2. m \notin crossed => Steady(m)
            BY <1>0, <1>2, <1>6, ReceiveSteady
      <2>3. QED
            BY <1>3, <2>1, <2>2
<1>7. ASSUME NEW n \in Node, KeepaliveRound(n) \/ GetmsgsRound(n) PROVE MessageInv(m)'
      <2>1. Same
            BY <1>7 DEF KeepaliveRound, GetmsgsRound, history
      <2>2. m \notin crossed => Steady(m)
            BY <1>0, <1>2, <1>7, RoundSteady
      <2>3. QED
            BY <1>3, <2>1, <2>2
<1>8. ASSUME NEW n \in Node, Handle(n) PROVE MessageInv(m)'
      <2>1. Same
            BY <1>8 DEF Handle, Search, Forward, ForwardDangling, Store, history
      <2>2. m \notin crossed => Steady(m)
            BY <1>0, <1>2, <1>8, HandleSteady
      <2>3. QED
            BY <1>3, <2>1, <2>2
<1>9. ASSUME NEW l \in Pair, LinkDown(l) PROVE MessageInv(m)'
      <2>1. Same
            BY <1>9 DEF LinkDown, history
      <2>2. m \notin crossed => Steady(m)
            BY <1>0, <1>2, <1>9, LinkDownSteady
      <2>3. QED
            BY <1>3, <2>1, <2>2
<1>10. ASSUME UNCHANGED <<wire, queue, hand, sent, read>>, crossed \subseteq crossed'
       PROVE  MessageInv(m)'
       BY <1>1, <1>10 DEF MessageInv
<1>11. ASSUME NEW l \in Pair, LinkUp(l) PROVE MessageInv(m)'
       BY <1>10, <1>11 DEF LinkUp
<1>12. CASE UNCHANGED vars
       BY <1>10, <1>12 DEF vars, history
<1>13. QED
       BY <1>4, <1>5, <1>6, <1>7, <1>8, <1>9, <1>11, <1>12 DEF Next

-----------------------------------------------------------------------------
(* What comes out.                                                         *)

(* The places of m in a queue, and how often it has come out so far. *)
Places(s, m) == {i \in DOMAIN s : s[i].msg = m}

Out(q, r, m) == r[m] + Cardinality(Places(q[m.to][m.to], m))

LEMMA PlacesFinite ==
    ASSUME NEW s \in Seq(Copy), NEW m
    PROVE  /\ Places(s, m) \subseteq 1..Len(s) /\ IsFiniteSet(Places(s, m))
           /\ Cardinality(Places(s, m)) \in Nat
<1>1. Len(s) \in Nat /\ DOMAIN s = 1..Len(s)
      OBVIOUS
<1>2. IsFiniteSet(1..Len(s))
      BY <1>1, FS_Interval
<1>3. Places(s, m) \in SUBSET (1..Len(s))
      BY <1>1 DEF Places
<1>4. IsFiniteSet(Places(s, m))
      BY <1>2, <1>3, FS_Subset
<1>5. QED
      BY <1>3, <1>4, FS_CardinalityType

LEMMA PlacesAppend ==
    ASSUME NEW s \in Seq(Copy), NEW c \in Copy, NEW m
    PROVE  Cardinality(Places(Append(s, c), m)) =
           Cardinality(Places(s, m)) + (IF c.msg = m THEN 1 ELSE 0)
<1> DEFINE r == Append(s, c)
           k == Len(s) + 1
<1>1. /\ Len(s) \in Nat /\ DOMAIN s = 1..Len(s) /\ DOMAIN r = 1..k
      /\ r[k] = c /\ \A i \in 1..Len(s) : r[i] = s[i]
      OBVIOUS
<1>2. IsFiniteSet(Places(s, m)) /\ Cardinality(Places(s, m)) \in Nat /\ k \notin Places(s, m)
      BY <1>1, PlacesFinite
<1> HIDE DEF r
<1>3. CASE c.msg = m
      <2>1. Places(r, m) = Places(s, m) \cup {k}
            BY <1>1, <1>3 DEF Places
      <2>2. Cardinality(Places(s, m) \cup {k}) = Cardinality(Places(s, m)) + 1
            BY <1>2, FS_AddElement
      <2>3. QED
            BY <1>3, <2>1, <2>2 DEF r
<1>4. CASE c.msg # m
      <2>1. Places(r, m) = Places(s, m)
            BY <1>1, <1>4 DEF Places
      <2>2. QED
            BY <1>2, <1>4, <2>1 DEF r
<1>5. QED
      BY <1>3, <1>4

LEMMA PlacesTail ==
    ASSUME NEW s \in Seq(Copy), s # <<>>, NEW m
    PROVE  Cardinality(Places(s, m)) =
           Cardinality(Places(Tail(s), m)) + (IF Head(s).msg = m THEN 1 ELSE 0)
<1> DEFINE T == Places(Tail(s), m)
           U == Places(s, m) \ {1}
           f == [i \in T |-> i + 1]
<1>1. /\ Len(s) \in Nat \ {0} /\ DOMAIN s = 1..Len(s) /\ Head(s) = s[1]
      /\ Tail(s) \in Seq(Copy) /\ DOMAIN Tail(s) = 1..(Len(s) - 1)
      /\ \A i \in 1..(Len(s) - 1) : Tail(s)[i] = s[i + 1]
      OBVIOUS
<1>2. /\ IsFiniteSet(T) /\ Cardinality(T) \in Nat
      /\ IsFiniteSet(Places(s, m)) /\ Cardinality(Places(s, m)) \in Nat
      BY <1>1, PlacesFinite
<1>3. ASSUME NEW i \in T PROVE i \in Nat /\ i + 1 \in U
      BY <1>1 DEF Places
<1>4. ASSUME NEW j \in U PROVE j \in Nat /\ j - 1 \in T /\ (j - 1) + 1 = j
      <2>1. j \in 1..Len(s) /\ j # 1 /\ s[j].msg = m
            BY <1>1 DEF Places
      <2>2. j - 1 \in 1..(Len(s) - 1) /\ (j - 1) + 1 = j /\ j \in Nat
            BY <1>1, <2>1
      <2>3. Tail(s)[j - 1].msg = m
            BY <1>1, <2>1, <2>2
      <2>4. QED
            BY <1>1, <2>2, <2>3 DEF Places
<1> HIDE DEF T, U
<1>5. f \in Bijection(T, U)
      <2>1. f \in [T -> U]
            BY <1>3
      <2>2. \A i, j \in T : f[i] = f[j] => i = j
            BY <1>3
      <2>3. \A j \in U : \E i \in T : f[i] = j
            BY <1>4
      <2>4. QED
            BY <2>1, <2>2, <2>3, Fun_IsBij
<1>6. Cardinality(U) = Cardinality(T)
      <2>1. ExistsBijection(T, U)
            BY <1>5 DEF ExistsBijection
      <2>2. QED
            BY <1>2, <2>1, FS_Bijection
<1>7. CASE Head(s).msg = m
      <2>1. 1 \in Places(s, m)
            BY <1>1, <1>7 DEF Places
      <2>2. Cardinality(U) = Cardinality(Places(s, m)) - 1
            BY <1>2, <2>1, FS_RemoveElement DEF U
      <2>3. QED
            BY <1>2, <1>6, <1>7, <2>2 DEF T
<1>8. CASE Head(s).msg # m
      <2>1. 1 \notin Places(s, m)
            BY <1>1, <1>8 DEF Places
      <2>2. U = Places(s, m)
            BY <2>1 DEF U
      <2>3. QED
            BY <1>2, <1>6, <1>8, <2>2 DEF T
<1>9. QED
      BY <1>7, <1>8

(* With one copy coming at most, m has come out at most once, and not at   *)
(* all while a copy is on its way to its destination's door. *)
LEMMA OutOnce ==
    ASSUME NEW w, NEW q \in Queues, NEW h, NEW r, NEW m \in Msg, OneComes(w, q, h, r, m)
    PROVE  /\ Out(q, r, m) <= 1
           /\ (\E a, b \in Node : a # b /\ Coming(w, q, m, a, b) # {}) => Out(q, r, m) = 0
<1> DEFINE D == Places(q[m.to][m.to], m)
<1>1. m.to \in Node /\ q[m.to][m.to] \in Seq(Copy)
      BY MsgAssumption DEF Queues
<1>2. D = Coming(w, q, m, m.to, m.to)
      BY <1>1 DEF Coming, Near, Waiting, Places
<1>3. \A i, j \in D : i = j
      BY <1>1, <1>2 DEF OneComes, Sole, AtMostOne
<1>4. r[m] \in {0, 1} /\ (r[m] = 1 => D = {})
      BY <1>1, <1>2 DEF OneComes, Nowhere, None
<1>5. ASSUME NEW a \in Node, NEW b \in Node, a # b, Coming(w, q, m, a, b) # {}
      PROVE  r[m] = 0 /\ D = {}
      <2>1. r[m] # 1
            BY <1>5 DEF OneComes, Nowhere, None
      <2>2. D = {}
            BY <1>1, <1>2, <1>5 DEF OneComes, Sole, AtMostOne
      <2>3. QED
            BY <1>4, <2>1, <2>2
<1>6. Out(q, r, m) = r[m] + Cardinality(D)
      BY DEF Out
<1> HIDE DEF D
<1>7. D = {} => Cardinality(D) = 0
      BY FS_EmptySet
<1>8. D # {} => Cardinality(D) = 1
      <2> SUFFICES ASSUME D # {} PROVE Cardinality(D) = 1
          OBVIOUS
      <2>1. PICK i : i \in D
            OBVIOUS
      <2>2. D = {i}
            BY <1>3, <2>1
      <2>3. QED
            BY <2>2, FS_Singleton
<1>9. QED
      BY <1>4, <1>5, <1>6, <1>7, <1>8

LEMMA CopiesOut == ASSUME NEW m PROVE Copies(m) = Out(queue, read, m)
BY DEF Copies, Out, Places

LEMMA ForestInvOnce == ForestInv => OnceOnTree
<1> SUFFICES ASSUME ForestInv, NEW m \in Msg \ crossed PROVE Copies(m) <= 1
    BY DEF OnceOnTree
<1>1. OneComes(wire, queue, hand, read, m) /\ queue \in Queues
      BY DEF ForestInv, MessageInv, FloodInv, TypeOK, Queues
<1>2. QED
      BY <1>1, OutOnce, CopiesOut

LEMMA ForestAlways == ASSUME Forest, MaxHops <= Room PROVE Spec => []ForestInv
<1>1. ForestInv /\ [Next]_vars => ForestInv'
      BY ForestStep
<1>2. QED
      BY <1>1, ForestInit, PTL DEF Spec

(* Wherever the links form no circle, however many servers there are and   *)
(* however links rise and fall, a message comes out at its destination at  *)
(* most once: it is not forwarded and stored both, not stored at two       *)
(* neighbours of its destination, not fetched twice -- unless, between a   *)
(* server's search for the destination and the critical section in which   *)
(* it keeps the message and floods it, the destination connected to that   *)
(* server (and MAX_HOPS hops fit beside the message). *)
THEOREM ArrivesOnceInForest == ASSUME MaxHops <= Room PROVE Spec => []OnceOnTree
<1>1. CASE Forest
      <2>1. Spec => []ForestInv
            BY <1>1, ForestAlways
      <2>2. QED
            BY <2>1, ForestInvOnce, PTL
<1>2. CASE ~Forest
      <2>1. OnceOnTree
            BY <1>2 DEF OnceOnTree
      <2>2. QED
            BY <2>1, PTL
<1>3. QED
      BY <1>1, <1>2

-----------------------------------------------------------------------------
(* The refinement.                                                         *)

LEMMA SameHome ==
    ASSUME read' = read, \A n \in Node : queue'[n][n] = queue[n][n]
    PROVE  \A m \in Msg : Out(queue', read', m) = Out(queue, read, m)
BY MsgAssumption DEF Out

(* A copy stored for another than the server that stores it. *)
LEMMA StoredElsewhere ==
    ASSUME queue \in Queues, NEW n \in Node, NEW g \in Node, g # n, NEW c,
           queue' = [queue EXCEPT ![n][g] = Append(@, c)]
    PROVE  \A p \in Node : queue'[p][p] = queue[p][p]
BY DEF Queues

(* A copy that its destination takes in is of a message that was sent, and *)
(* the first to come out unless the message was crossed. *)
LEMMA TakenInAtHome ==
    ASSUME ForestInv, NEW a \in Node, NEW b \in Node, a # b, wire[a][b] # <<>>,
           Head(wire[a][b]).kind = "sendmsg", NEW c \in Copy, c = Head(wire[a][b]).copy,
           c.msg.to = b, Keeps(a, b, c), read' = read
    PROVE  /\ c.msg \in sent
           /\ Out(queue, read, c.msg) = 0 \/ c.msg \in crossed
           /\ Out(queue', read', c.msg) = Out(queue, read, c.msg) + 1
           /\ \A k \in Msg \ {c.msg} : Out(queue', read', k) = Out(queue, read, k)
<1> DEFINE m == c.msg
           e == Kept(c, b)
<1>0. wire \in Wires /\ queue \in Queues /\ read \in [Msg -> Nat] /\ m \in Msg
      BY DEF ForestInv, FloodInv, TypeOK, Wires, Queues, Copy
<1>1. m \in sent
      <2>1. Origin(a, c, sent)
            BY <1>0, TakenFrom DEF ForestInv, OriginInv
      <2>2. QED
            BY <2>1 DEF Origin
<1>2. ASSUME m \notin crossed PROVE Out(queue, read, m) = 0
      <2>1. OneComes(wire, queue, hand, read, m) /\ AtMostOne(wire, queue, m)
            BY <1>0, <1>2 DEF ForestInv, MessageInv, OneComes, Sole
      <2>2. m.to \in Beyond(a, b)
            BY BeyondStarts
      <2>3. 1 \in Coming(wire, queue, m, a, b)
            BY <1>0, <2>1, <2>2, TakenComing
      <2>4. QED
            BY <1>0, <2>1, <2>3, OutOnce
<1>3. e \in Copy /\ e.msg = m /\ queue' = [queue EXCEPT ![b][b] = Append(@, e)]
      BY KeptIs DEF Keeps
<1> HIDE DEF e
<1>4. \A n \in Node : queue'[n][n] = IF n = b THEN Append(queue[b][b], e) ELSE queue[n][n]
      BY <1>0, <1>3 DEF Queues
<1>5. queue[b][b] \in Seq(Copy)
      BY <1>0 DEF Queues
<1>6. ASSUME NEW k \in Msg, k.to = b
      PROVE  Out(queue', read', k) = Out(queue, read, k) + (IF k = m THEN 1 ELSE 0)
      <2>1. Cardinality(Places(Append(queue[b][b], e), k)) =
               Cardinality(Places(queue[b][b], k)) + (IF e.msg = k THEN 1 ELSE 0)
            BY <1>3, <1>5, PlacesAppend
      <2>2. Cardinality(Places(queue[b][b], k)) \in Nat /\ read[k] \in Nat
            BY <1>0, <1>5, PlacesFinite
      <2>3. queue'[k.to][k.to] = Append(queue[b][b], e)
            BY <1>4, <1>6
      <2> HIDE DEF m
      <2>4. QED
            BY <1>3, <1>6, <2>1, <2>2, <2>3 DEF Out
<1>7. ASSUME NEW k \in Msg, k.to # b PROVE Out(queue', read', k) = Out(queue, read, k)
      <2>1. queue'[k.to][k.to] = queue[k.to][k.to]
            BY <1>4, <1>7, MsgAssumption
      <2>2. QED
            BY <2>1 DEF Out
<1>8. Out(queue', read', m) = Out(queue, read, m) + 1
      BY <1>0, <1>6
<1>9. ASSUME NEW k \in Msg \ {m} PROVE Out(queue', read', k) = Out(queue, read, k)
      <2>1. CASE k.to = b
            <3>1. read[k] \in Nat /\ Cardinality(Places(queue[k.to][k.to], k)) \in Nat
                  BY <1>0, <1>5, <2>1, PlacesFinite
            <3>2. Out(queue, read, k) \in Nat
                  BY <3>1 DEF Out
            <3>3. QED
                  BY <1>6, <2>1, <3>2
      <2>2. QED
            BY <1>7, <2>1
<1>10. QED
       BY <1>1, <1>2, <1>8, <1>9

(* A client takes a message that has come out and was not taken yet. *)
LEMMA GotAtHome ==
    ASSUME ForestInv, NEW n \in Node, ClientGet(n)
    PROVE  /\ Head(queue[n][n]).msg \in Msg
           /\ read[Head(queue[n][n]).msg] < Out(queue, read, Head(queue[n][n]).msg)
           /\ \A k \in Msg : Out(queue', read', k) = Out(queue, read, k)
<1> DEFINE m == Head(queue[n][n]).msg
           s == queue[n][n]
<1>0. queue \in Queues /\ read \in [Msg -> Nat] /\ FloodInv /\ s \in Seq(Copy)
      BY DEF ForestInv, FloodInv, TypeOK, Queues
<1>1. /\ s # <<>> /\ queue' = [queue EXCEPT ![n][n] = Tail(@)]
      /\ read' = [read EXCEPT ![m] = @ + 1]
      BY DEF ClientGet
<1>2. m \in Msg /\ m.to = n
      <2>1. Head(queue[n][n]) \in Copy
            BY <1>0, <1>1
      <2>2. StoredGood(n, n, Head(queue[n][n]))
            BY <1>0, <1>1, RemoveGood DEF FloodInv
      <2>3. QED
            BY <2>1, <2>2 DEF Copy, StoredGood
<1>3. \A p \in Node : queue'[p][p] = IF p = n THEN Tail(s) ELSE queue[p][p]
      BY <1>0, <1>1 DEF Queues
<1>4. ASSUME NEW k \in Msg, k.to = n
      PROVE  /\ Out(queue, read, k) = read[k] + Cardinality(Places(Tail(s), k))
                                      + (IF k = m THEN 1 ELSE 0)
             /\ Out(queue', read', k) = Out(queue, read, k)
             /\ Cardinality(Places(Tail(s), k)) \in Nat
      <2>1. Cardinality(Places(s, k)) =
               Cardinality(Places(Tail(s), k)) + (IF m = k THEN 1 ELSE 0)
            BY <1>0, <1>1, PlacesTail
      <2>2. Tail(s) \in Seq(Copy)
            BY <1>0, <1>1
      <2>3. Cardinality(Places(Tail(s), k)) \in Nat /\ read[k] \in Nat
            BY <1>0, <2>2, PlacesFinite
      <2>4. read'[k] = read[k] + (IF k = m THEN 1 ELSE 0)
            BY <1>0, <1>1, <2>3
      <2>5. queue[k.to][k.to] = s /\ queue'[k.to][k.to] = Tail(s)
            BY <1>2, <1>3, <1>4
      <2> HIDE DEF m, s
      <2>6. Out(queue, read, k) = read[k] + Cardinality(Places(s, k))
            BY <2>5 DEF Out
      <2>7. Out(queue', read', k) = read'[k] + Cardinality(Places(Tail(s), k))
            BY <2>5 DEF Out
      <2> DEFINE x == Cardinality(Places(Tail(s), k))
                 y == Cardinality(Places(s, k))
                 d == IF k = m THEN 1 ELSE 0
      <2>8. y = x + d /\ d \in Nat
            BY <2>1
      <2> HIDE DEF x, y, d
      <2>9. Out(queue, read, k) = read[k] + x + d /\ Out(queue', read', k) = Out(queue, read, k)
            BY <2>3, <2>4, <2>6, <2>7, <2>8 DEF x, y, d
      <2>10. QED
             BY <2>3, <2>9 DEF x, d
<1>5. ASSUME NEW k \in Msg, k.to # n PROVE Out(queue', read', k) = Out(queue, read, k)
      <2>1. read'[k] = read[k]
            BY <1>0, <1>1, <1>2, <1>5
      <2>2. queue'[k.to][k.to] = queue[k.to][k.to]
            BY <1>3, <1>5, MsgAssumption
      <2>3. QED
            BY <2>1, <2>2 DEF Out
<1>6. read[m] < Out(queue, read, m)
      <2>1. Out(queue, read, m) = read[m] + Cardinality(Places(Tail(s), m)) + 1
            BY <1>2, <1>4
      <2>2. Cardinality(Places(Tail(s), m)) \in Nat /\ read[m] \in Nat
            BY <1>0, <1>2, <1>4
      <2> HIDE DEF m, s
      <2>3. QED
            BY <2>1, <2>2
<1>7. QED
      BY <1>2, <1>4, <1>5, <1>6

LEMMA PromiseInit == Init => Promise!Init
<1> SUFFICES ASSUME Init PROVE Promise!Init
    OBVIOUS
<1>1. ASSUME NEW m \in Msg PROVE Copies(m) = 0
      <2>1. read[m] = 0 /\ queue[m.to][m.to] = <<>>
            BY MsgAssumption DEF Init
      <2>2. Cardinality(Places(<<>>, m)) = 0
            <3>1. Places(<<>>, m) = {}
                  BY DEF Places
            <3>2. QED
                  BY <3>1, FS_EmptySet
      <2>3. Cardinality(Places(queue[m.to][m.to], m)) = 0
            BY <2>1, <2>2
      <2>4. Out(queue, read, m) = 0
            BY <2>1, <2>3 DEF Out
      <2>5. QED
            BY <2>4, CopiesOut
<1>2. sent = {} /\ crossed = {} /\ read = [m \in Msg |-> 0]
      BY DEF Init
<1>3. QED
      BY <1>1, <1>2 DEF Promise!Init

LEMMA PromiseStep ==
    ASSUME Forest, MaxHops <= Room, ForestInv, [Next]_vars
    PROVE  [Promise!Next]_<<sent, crossed, [m \in Msg |-> Copies(m)], read>>
<1> DEFINE A == [m \in Msg |-> Copies(m)]
           Quiet == sent' = sent /\ crossed' = crossed /\ read' = read
           Stutter == Quiet /\ A' = A
<1>0. /\ queue \in Queues /\ read \in [Msg -> Nat] /\ wire \in Wires /\ hand \in Hands
      /\ FloodInv /\ TypeOK
      BY DEF ForestInv, FloodInv, TypeOK, Queues, Wires, Hands
<1>1. A = [m \in Msg |-> Out(queue, read, m)]
      BY CopiesOut
<1>2. A' = [m \in Msg |-> Out(queue', read', m)]
      BY DEF Copies, Out, Places
<1> SUFFICES Promise!Next \/ Stutter
    OBVIOUS
<1> HIDE DEF A
<1>3. ASSUME \A m \in Msg : Out(queue', read', m) = Out(queue, read, m) PROVE A' = A
      BY <1>1, <1>2, <1>3
<1>4. ASSUME read' = read, \A n \in Node : queue'[n][n] = queue[n][n] PROVE A' = A
      BY <1>3, <1>4, SameHome
<1>5. ASSUME read' = read, queue' = queue PROVE A' = A
      BY <1>4, <1>5
<1>6. ASSUME NEW m \in Msg, ClientSend(m) PROVE Promise!Next
      <2>1. A' = A
            BY <1>5, <1>6 DEF ClientSend
      <2>2. Promise!Send(m)
            BY <1>6, <2>1 DEF Promise!Send, ClientSend, A
      <2>3. QED
            BY <2>2 DEF Promise!Next
<1>7. ASSUME NEW n \in Node, ClientGet(n) PROVE Promise!Next
      <2> DEFINE m == Head(queue[n][n]).msg
      <2>1. /\ m \in Msg /\ read[m] < Out(queue, read, m)
            /\ \A k \in Msg : Out(queue', read', k) = Out(queue, read, k)
            BY <1>7, GotAtHome
      <2>2. read' = [read EXCEPT ![m] = @ + 1] /\ sent' = sent /\ crossed' = crossed
            BY <1>7 DEF ClientGet, history
      <2> HIDE DEF m
      <2>3. A' = A /\ read[m] < A[m]
            BY <1>1, <1>3, <2>1
      <2>4. Promise!Get(m)
            BY <2>2, <2>3 DEF Promise!Get, A
      <2>5. QED
            BY <2>1, <2>4 DEF Promise!Next
<1>8. ASSUME NEW a \in Node, NEW b \in Node, HandleSendmsg(a, b) PROVE Promise!Next \/ Stutter
      <2> DEFINE c == Head(wire[a][b]).copy
      <2>1. /\ wire[a][b] # <<>> /\ Head(wire[a][b]).kind = "sendmsg" /\ c \in Copy
            /\ Quiet
            BY <1>0, <1>8, ArrivingCopy DEF HandleSendmsg, Arriving, history
      <2>2. a # b
            BY <1>0, <2>1, TakenGood DEF FloodInv
      <2>3. CASE b \in Range(c.hops) \/ PassesOn(a, b, c)
            <3>1. queue' = queue
                  BY <1>8, <2>3 DEF HandleSendmsg, PassesOn
            <3>2. QED
                  BY <1>5, <2>1, <3>1
      <2>4. CASE Keeps(a, b, c)
            <3>1. c = Head(wire[a][b]).copy
                  OBVIOUS
            <3> HIDE DEF c
            <3>2. c.msg.to \in Node /\ c.msg \in Msg
                  BY <2>1, MsgAssumption DEF Copy
            <3>3. CASE c.msg.to = b
                  <4> DEFINE m == c.msg
                  <4>1. /\ m \in sent
                        /\ Out(queue, read, m) = 0 \/ m \in crossed
                        /\ Out(queue', read', m) = Out(queue, read, m) + 1
                        /\ \A k \in Msg \ {m} : Out(queue', read', k) = Out(queue, read, k)
                        BY <2>1, <2>2, <2>4, <3>1, <3>3, TakenInAtHome
                  <4>2. (A[m] = 0 \/ m \in crossed) /\ A' = [A EXCEPT ![m] = @ + 1]
                        BY <1>1, <1>2, <3>2, <4>1
                  <4>3. Promise!Arrive(m)
                        BY <2>1, <4>1, <4>2 DEF Promise!Arrive, A
                  <4>4. QED
                        BY <3>2, <4>3 DEF Promise!Next
            <3>4. CASE c.msg.to # b
                  <4>1. \A n \in Node : queue'[n][n] = queue[n][n]
                        BY <1>0, <2>4, <3>2, <3>4, StoredElsewhere DEF Keeps
                  <4>2. QED
                        BY <1>4, <2>1, <4>1
            <3>5. QED
                  BY <3>3, <3>4
      <2>5. QED
            BY <1>8, <2>3, <2>4 DEF HandleSendmsg, TakeIn
<1>9. ASSUME NEW a \in Node, NEW b \in Node, HandleGetmsgs(a, b) PROVE Stutter
      <2>1. wire[a][b] # <<>> /\ Quiet
            BY <1>9 DEF HandleGetmsgs, Arriving, history
      <2>2. a # b
            BY <1>0, <2>1, TakenGood DEF FloodInv
      <2>3. queue' = queue \/ queue' = [queue EXCEPT ![b][a] = Tail(@)]
            BY <1>9 DEF HandleGetmsgs
      <2>4. \A n \in Node : queue'[n][n] = queue[n][n]
            <3>1. CASE queue' = queue
                  BY <3>1
            <3>2. CASE queue' = [queue EXCEPT ![b][a] = Tail(@)]
                  BY <1>0, <2>2, <3>2 DEF Queues
            <3>3. QED
                  BY <2>3, <3>1, <3>2
      <2>5. QED
            BY <1>4, <2>1, <2>4
<1>10. ASSUME NEW n \in Node, Handle(n) PROVE Stutter
       <2>1. Quiet
             BY <1>10 DEF Handle, Search, Forward, ForwardDangling, Store, history
       <2>2. PICK t \in hand[n] :
                 Search(n, t) \/ Forward(n, t) \/ ForwardDangling(n, t) \/ Store(n, t)
             BY <1>10 DEF Handle
       <2>3. t.copy.msg.to \in Node /\ t.copy.msg.to # n
             BY <1>0, TaskCopy DEF FloodInv, HandsGood, TaskGood
       <2>4. CASE Store(n, t)
             <3>1. \A p \in Node : queue'[p][p] = queue[p][p]
                   BY <1>0, <2>3, <2>4, StoredElsewhere DEF Store
             <3>2. QED
                   BY <1>4, <2>1, <3>1
       <2>5. CASE queue' = queue
             BY <1>5, <2>1, <2>5
       <2>6. QED
             BY <2>2, <2>4, <2>5 DEF Search, Forward, ForwardDangling
<1>11. ASSUME queue' = queue, Quiet PROVE Stutter
       BY <1>5, <1>11
<1>12. ASSUME NEW a \in Node, NEW b \in Node, HandleKeepalive(a, b) PROVE Stutter
       BY <1>11, <1>12 DEF HandleKeepalive, history
<1>13. ASSUME NEW n \in Node, KeepaliveRound(n) \/ GetmsgsRound(n) PROVE Stutter
       BY <1>11, <1>13 DEF KeepaliveRound, GetmsgsRound, history
<1>14. ASSUME NEW l \in Pair, LinkDown(l) PROVE Stutter
       BY <1>11, <1>14 DEF LinkDown, history
<1>15. ASSUME NEW l \in Pair, LinkUp(l) PROVE Promise!Next
       <2>1. A' = A /\ sent' = sent /\ read' = read /\ crossed \subseteq crossed'
             BY <1>5, <1>15 DEF LinkUp
       <2>2. \A n \in Node : \A t \in hand[n] : t.copy.msg \in sent
             BY DEF ForestInv, OriginInv, HandsFrom, Origin
       <2>3. crossed' \in SUBSET sent
             BY <1>15, <2>2 DEF LinkUp, ForestInv, OriginInv
       <2>4. Promise!Excuse
             BY <2>1, <2>3 DEF Promise!Excuse, A
       <2>5. QED
             BY <2>4 DEF Promise!Next
<1>16. CASE UNCHANGED vars
       BY <1>11, <1>16 DEF vars, history
<1>17. QED
       BY <1>6, <1>7, <1>8, <1>9, <1>10, <1>12, <1>13, <1>14, <1>15, <1>16 DEF Next, Receive

(* Such a network is one delivery service: whatever the floods, the queues *)
(* and the requests do, clients see a message sent, come out and taken, in *)
(* this order, and no message come out again unless its destination        *)
(* connected to a server that was about to keep it. *)
THEOREM ForestDeliversOnce ==
    ASSUME Forest, MaxHops <= Room PROVE Spec => DeliversOnce
<1>1. ForestInv /\ [Next]_vars =>
          [Promise!Next]_<<sent, crossed, [m \in Msg |-> Copies(m)], read>>
      BY PromiseStep
<1>2. QED
      BY <1>1, PromiseInit, ForestAlways, PTL DEF Spec, DeliversOnce, Promise!Spec
=============================================================================
