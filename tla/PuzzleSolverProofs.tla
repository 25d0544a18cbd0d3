------------------------- MODULE PuzzleSolverProofs -------------------------
(***************************************************************************)
(* Theorems about PuzzleSolver, for any size of words, any number of       *)
(* knocks, and any delay or loss of datagrams and failure of sends.        *)
(***************************************************************************)
EXTENDS PuzzleSolver, TLAPS

-----------------------------------------------------------------------------
(* The arithmetic of the forged packet.                                    *)

(* The forced checksum is exact when the packet's own checksum is not      *)
(* below it, and one too low otherwise; either way the packet verifies.    *)
LEMMA ForcedChecksum ==
    ASSUME words \in Word, NEW c \in Word
    PROVE  /\ Difference(c) \in Word
           /\ UdpChecksum(Difference(c)) \in Word
           /\ UdpChecksum(Difference(c)) = IF UdpChecksum(0) >= c THEN c ELSE c - 1
           /\ words + Difference(c) + UdpChecksum(Difference(c)) \in {Mod - 1, 2 * (Mod - 1)}
<1>1. Mod \in Nat /\ Mod > 1 /\ words \in 0 .. Mod - 1 /\ c \in 0 .. Mod - 1
      BY SolverAssumption DEF Word
<1>2. UdpChecksum(0) = Mod - 1 - words
      BY <1>1 DEF UdpChecksum, Add
<1>3. CASE Mod - 1 - words >= c
  <2>1. Difference(c) = Mod - 1 - words - c
        BY <1>1, <1>2, <1>3 DEF Difference
  <2>2. Add(words, Difference(c)) = Mod - 1 - c
        BY <1>1, <1>3, <2>1 DEF Add
  <2>3. UdpChecksum(Difference(c)) = c
        BY <1>1, <2>2 DEF UdpChecksum
  <2>4. QED
        BY <1>1, <1>2, <1>3, <2>1, <2>3 DEF Word
<1>4. CASE ~(Mod - 1 - words >= c)
  <2>1. Difference(c) = Mod - 1 - words - c + Mod
        BY <1>1, <1>2, <1>4 DEF Difference
  <2>2. Add(words, Difference(c)) = Mod - c
        BY <1>1, <1>4, <2>1 DEF Add
  <2>3. UdpChecksum(Difference(c)) = c - 1
        BY <1>1, <2>2 DEF UdpChecksum
  <2>4. QED
        BY <1>1, <1>2, <1>4, <2>1, <2>3 DEF Word
<1>5. QED
      BY <1>3, <1>4

-----------------------------------------------------------------------------
(* Type correctness.                                                       *)

LEMMA ReceivedType ==
    ASSUME inbox \in Seq(Answer), Receives
    PROVE  Received \in Answer /\ inbox' \in Seq(Answer) /\ missed' = missed
BY DEF Received, Receives

LEMMA TimesOutType ==
    ASSUME inbox \in Seq(Answer), missed \in BOOLEAN, TimesOut
    PROVE  inbox' \in Seq(Answer) /\ missed' \in BOOLEAN
BY DEF TimesOut

LEMMA RequestType ==
    /\ \A port \in Port, right \in BOOLEAN : ReqTo(port, Signature(right)) \in Request
    /\ \A port \in Port : ReqTo(port, "forged") \in Request /\ ReqTo(port, "other") \in Request
    /\ EvilPacket \in Request /\ ReqTo("final", "ports") \in Request
    /\ ReqTo("final", "other") \in Request
    /\ ReqTo("secret", "introduction") \in Request
    /\ \A i \in 1 .. Knocks : Knock(i) \in Request
BY SolverAssumption DEF ReqTo, Signature, EvilPacket, Knock, Request, Port

LEMMA ParsedType ==
    ASSUME NEW a \in Answer
    PROVE  PortIn(a) \in Text \cup {None} /\ PhraseIn(a) \in Text \cup {None}
BY DEF PortIn, PhraseIn, Answer

LEMMA SendType ==
    ASSUME TypeOK, NEW q \in Request, NEW next \in Location,
           SendOrEnd(q, next) \/ SendOrWait(q, next)
    PROVE  requests' \in SUBSET Request /\ at' \in Location /\ unsent' \in BOOLEAN
<1>1. "done" \in Location
      BY DEF Location
<1>2. QED
      BY <1>1 DEF SendOrEnd, SendOrWait, Sends, SendFails, TypeOK

LEMMA GoType ==
    ASSUME TypeOK, NEW next \in Location, GoesTo(next)
    PROVE  requests' \in SUBSET Request /\ at' \in Location /\ unsent' \in BOOLEAN
BY DEF GoesTo, TypeOK

LEMMA KnockType ==
    ASSUME TypeOK, NEW i \in 1 .. Knocks, SendKnock(i)
    PROVE  /\ requests' \in SUBSET Request /\ at' \in Location /\ unsent' \in BOOLEAN
           /\ knocked' \in 0 .. Knocks
<1>1. Knock(i) \in Request /\ "knock" \in Location /\ "done" \in Location
      BY RequestType DEF Location
<1>2. i \in 0 .. Knocks
      BY SolverAssumption
<1>3. QED
      BY <1>1, <1>2 DEF SendKnock, Sends, SendFails, TypeOK

LEMMA InitType == Init => TypeOK
<1> SUFFICES ASSUME Init PROVE TypeOK
    OBVIOUS
<1>1. /\ at \in Location /\ signed \in BOOLEAN /\ won \in BOOLEAN
      /\ missed \in BOOLEAN /\ unsent \in BOOLEAN
      BY DEF Init, Location
<1>2. 0 \in 0 .. Knocks
      BY SolverAssumption
<1>3. requests \in SUBSET Request /\ answers \in SUBSET Answer /\ inbox \in Seq(Answer)
      BY RequestType DEF Init
<1>4. QED
      BY <1>1, <1>2, <1>3 DEF Init, TypeOK

LEMMA StepType == TypeOK /\ [Next]_vars => TypeOK'
<1> SUFFICES ASSUME TypeOK, [Next]_vars PROVE TypeOK'
    OBVIOUS
<1>r. ASSUME Receives
      PROVE  /\ Received \in Answer /\ Received.port \in Port
             /\ inbox' \in Seq(Answer) /\ missed' \in BOOLEAN
      BY <1>r, ReceivedType DEF TypeOK, Answer
<1>t. ASSUME TimesOut PROVE inbox' \in Seq(Answer) /\ missed' \in BOOLEAN
      BY <1>t, TimesOutType DEF TypeOK
<1>l. Location = {"challenge", "port1", "instructions", "phrase", "port2", "fourth",
                  "sequence", "knock", "done"}
      BY DEF Location
<1>p. "checksum" \in Port
      BY DEF Port
<1>1. CASE ReceiveChallenge
  <2>1. signed' \in BOOLEAN
        BY <1>1 DEF ReceiveChallenge, TypeOK
  <2>2. \E port \in Port, right \in BOOLEAN, next \in Location :
            SendOrEnd(ReqTo(port, Signature(right)), next)
        BY <1>1, <1>r, <1>p, <1>l, <2>1 DEF ReceiveChallenge
  <2>3. requests' \in SUBSET Request /\ at' \in Location /\ unsent' \in BOOLEAN
        BY <2>2, RequestType, SendType
  <2>4. inbox' \in Seq(Answer) /\ missed' \in BOOLEAN
        BY <1>1, <1>r, <1>t DEF ReceiveChallenge
  <2>5. QED
        BY <1>1, <2>1, <2>3, <2>4 DEF ReceiveChallenge, TypeOK, server
<1>2. CASE ReceivePort1
  <2>1. secret1' \in Text \cup {None}
        BY <1>2, <1>r, ParsedType DEF ReceivePort1, TypeOK
  <2>2. inbox' \in Seq(Answer) /\ missed' \in BOOLEAN
        BY <1>2, <1>r, <1>t DEF ReceivePort1
  <2>3. ReqTo("checksum", Signature(signed)) \in Request
        BY <1>p, RequestType DEF TypeOK
  <2>4. requests' \in SUBSET Request /\ at' \in Location /\ unsent' \in BOOLEAN
        BY <1>2, <1>l, <2>3, SendType DEF ReceivePort1
  <2>5. QED
        BY <1>2, <2>1, <2>2, <2>4 DEF ReceivePort1, TypeOK, server
<1>3. CASE ReceiveInstructions
  <2>1. asked' \in Word \cup {None} /\ forged' \in Word \cup {None}
        BY <1>3, ForcedChecksum DEF ReceiveInstructions, TypeOK
  <2>2. inbox' \in Seq(Answer) /\ missed' \in BOOLEAN
        BY <1>3, <1>r, <1>t DEF ReceiveInstructions
  <2>3. \/ GoesTo("phrase")
        \/ \E port \in Port : SendOrWait(ReqTo(port, "forged"), "phrase")
        BY <1>3, <1>r DEF ReceiveInstructions
  <2>4. requests' \in SUBSET Request /\ at' \in Location /\ unsent' \in BOOLEAN
        BY <1>l, <2>3, GoType, SendType, RequestType
  <2>5. QED
        BY <1>3, <2>1, <2>2, <2>4 DEF ReceiveInstructions, TypeOK, server
<1>4. CASE ReceivePhrase
  <2>1. phrase' \in Text \cup {None}
        BY <1>4, <1>r, ParsedType DEF ReceivePhrase, TypeOK
  <2>2. inbox' \in Seq(Answer) /\ missed' \in BOOLEAN
        BY <1>4, <1>r, <1>t DEF ReceivePhrase
  <2>3. requests' \in SUBSET Request /\ at' \in Location /\ unsent' \in BOOLEAN
        BY <1>4, <1>l, RequestType, SendType DEF ReceivePhrase
  <2>4. QED
        BY <1>4, <2>1, <2>2, <2>3 DEF ReceivePhrase, TypeOK, server
<1>5. CASE ReceivePort2
  <2>1. secret2' \in Text \cup {None}
        BY <1>5, <1>r, ParsedType DEF ReceivePort2, TypeOK
  <2>2. inbox' \in Seq(Answer) /\ missed' \in BOOLEAN
        BY <1>5, <1>r, <1>t DEF ReceivePort2
  <2>3. requests' \in SUBSET Request /\ at' \in Location /\ unsent' \in BOOLEAN
        BY <1>5, <1>l, GoType DEF ReceivePort2
  <2>4. QED
        BY <1>5, <2>1, <2>2, <2>3 DEF ReceivePort2, TypeOK, server
<1>6. CASE ReceiveFourth
  <2>1. \/ \E say \in {"ports", "other"} : SendOrEnd(ReqTo("final", say), "sequence")
        \/ GoesTo("done")
        BY <1>6 DEF ReceiveFourth
  <2>2. requests' \in SUBSET Request /\ at' \in Location /\ unsent' \in BOOLEAN
        BY <1>l, <2>1, RequestType, SendType, GoType
  <2>3. inbox' \in Seq(Answer) /\ missed' \in BOOLEAN
        BY <1>6, <1>r, <1>t DEF ReceiveFourth
  <2>4. QED
        BY <1>6, <2>2, <2>3 DEF ReceiveFourth, TypeOK, server
<1>7. CASE ReceiveSequence
  <2>1. SendKnock(1) \/ (GoesTo("done") /\ UNCHANGED knocked)
        BY <1>7 DEF ReceiveSequence
  <2>2. 1 \in 1 .. Knocks /\ knocked \in 0 .. Knocks
        BY SolverAssumption DEF TypeOK
  <2>3. /\ requests' \in SUBSET Request /\ at' \in Location /\ unsent' \in BOOLEAN
        /\ knocked' \in 0 .. Knocks
        BY <1>l, <2>1, <2>2, KnockType, GoType
  <2>4. inbox' \in Seq(Answer) /\ missed' \in BOOLEAN
        BY <1>7, <1>r, <1>t DEF ReceiveSequence
  <2>5. QED
        BY <1>7, <2>3, <2>4 DEF ReceiveSequence, TypeOK, server
<1>8. CASE ReceiveKnock
  <2>1. won' \in BOOLEAN
    <3>1. won' = (Received.say \in {"won", "phrase"}) \/ won' = won
          BY <1>8 DEF ReceiveKnock
    <3>2. (Received.say \in {"won", "phrase"}) \in BOOLEAN
          OBVIOUS
    <3>3. QED
          BY <3>1, <3>2, Zenon DEF TypeOK
  <2>2. /\ requests' \in SUBSET Request /\ at' \in Location /\ unsent' \in BOOLEAN
        /\ knocked' \in 0 .. Knocks
    <3>1. CASE won' \/ knocked = Knocks
      <4>1. GoesTo("done") /\ knocked' \in 0 .. Knocks
            BY <1>8, <3>1 DEF ReceiveKnock, TypeOK
      <4>2. QED
            BY <1>l, <4>1, GoType
    <3>2. CASE ~(won' \/ knocked = Knocks)
      <4>1. knocked + 1 \in 1 .. Knocks
            BY <3>2, SolverAssumption DEF TypeOK
      <4>2. SendKnock(knocked + 1)
            BY <1>8, <3>2 DEF ReceiveKnock
      <4>3. QED
            BY <4>1, <4>2, KnockType
    <3>3. QED
          BY <3>1, <3>2
  <2>3. inbox' \in Seq(Answer) /\ missed' \in BOOLEAN
        BY <1>8, <1>r, <1>t DEF ReceiveKnock
  <2>4. QED
        BY <1>8, <2>1, <2>2, <2>3 DEF ReceiveKnock, TypeOK, server
<1>9. ASSUME NEW q \in requests, Serve(q) PROVE TypeOK'
  <2>1. q \in Request /\ q.port \in Port /\ q.no \in 0 .. Knocks
        BY DEF TypeOK, Request
  <2>2. answers' \in SUBSET Answer
        BY <1>9, <2>1 DEF Serve, Answer, TypeOK
  <2>3. heard' \in 0 .. Knocks
        BY <1>9, <2>1, SolverAssumption DEF Serve, TypeOK
  <2>4. QED
        BY <1>9, <2>2, <2>3 DEF Serve, TypeOK, solver
<1>10. ASSUME NEW a \in answers, Arrive(a) PROVE TypeOK'
       BY <1>10 DEF Arrive, TypeOK, solver, server
<1>11. CASE Lose
       BY <1>11 DEF Lose, TypeOK, solver, server
<1>12. CASE UNCHANGED vars
       BY <1>12 DEF vars, TypeOK, solver, server
<1>13. QED
       BY <1>1, <1>2, <1>3, <1>4, <1>5, <1>6, <1>7, <1>8, <1>9, <1>10, <1>11, <1>12
       DEF Next, Solve

(* Every variable keeps its type; in particular a forged checksum fits in  *)
(* a word, and no more knocks are sent than the sequence has. *)
THEOREM TypeCorrect == Spec => []TypeOK
BY InitType, StepType, PTL DEF Spec

-----------------------------------------------------------------------------
(* The forged packet.                                                      *)

(* What send_fake_udp achieves: the forged packet always verifies, and has *)
(* the checksum asked for or, when its own was lower, the one below.       *)
THEOREM ForgedNearlyRight == Spec => []ForgedWithinOne
<1>1. Init => ForgedWithinOne
      BY DEF Init, ForgedWithinOne
<1>2. TypeOK /\ ForgedWithinOne /\ [Next]_vars => ForgedWithinOne'
  <2> SUFFICES ASSUME TypeOK, ForgedWithinOne, [Next]_vars PROVE ForgedWithinOne'
      OBVIOUS
  <2>1. words' = words
        BY DEF Next, Solve, ReceiveChallenge, ReceivePort1, ReceiveInstructions, ReceivePhrase,
               ReceivePort2, ReceiveFourth, ReceiveSequence, ReceiveKnock, Serve, Arrive, Lose,
               vars, server
  <2>2. CASE UNCHANGED <<asked, forged>>
        BY <2>1, <2>2 DEF ForgedWithinOne, Difference, UdpChecksum, Add
  <2>3. CASE /\ asked' \in Word
             /\ forged' = UdpChecksum(Difference(asked'))
    <3>1. words \in Word
          BY DEF TypeOK
    <3>2. /\ forged' = IF UdpChecksum(0) >= asked' THEN asked' ELSE asked' - 1
          /\ words + Difference(asked') + forged' \in {Mod - 1, 2 * (Mod - 1)}
          BY <2>3, <3>1, ForcedChecksum
    <3>3. QED
          BY <2>1, <3>2 DEF ForgedWithinOne, Difference, UdpChecksum, Add
  <2>4. QED
        BY <2>2, <2>3
        DEF Next, Solve, ReceiveChallenge, ReceivePort1, ReceiveInstructions, ReceivePhrase,
            ReceivePort2, ReceiveFourth, ReceiveSequence, ReceiveKnock, Serve, Arrive, Lose,
            vars, solver
<1>3. QED
      BY <1>1, <1>2, TypeCorrect, PTL DEF Spec

-----------------------------------------------------------------------------
(* The secrets the solver proceeds with.                                   *)

(* At most one datagram is about: request q, or answer a to it.            *)
Only(q, A) ==
    \/ requests = {} /\ answers = {} /\ inbox = <<>>
    \/ requests = {q} /\ answers = {} /\ inbox = <<>>
    \/ \E a \in A : requests = {} /\ answers = {a} /\ inbox = <<>>
    \/ \E a \in A : requests = {} /\ answers = {} /\ inbox = <<a>>

AnswerOf(port, say) == [port |-> port, no |-> 0, say |-> say]

Exchange(port, sent, says) == Only(ReqTo(port, sent), {AnswerOf(port, say) : say \in says})

(* As long as every receive has got its answer there is nothing about but  *)
(* the request that was sent last, or its answer.  Once a receive has not  *)
(* got one, what it was to find is missing, and stays missing.             *)
SolverInv ==
    /\ at = "challenge" => Exchange("secret", "introduction", {"challenge"})
    /\ at = "port1" => signed /\ Exchange("secret", "signature", {"port1"})
    /\ at = "instructions" /\ secret1 # None =>
           secret1 = "port1" /\ Exchange("checksum", "signature", {"instructions"})
    /\ at = "phrase" /\ secret1 # None =>
           /\ secret1 = "port1"
           /\ \/ Exchange("checksum", "signature", {"instructions"})
              \/ Exchange("checksum", "forged", {"phrase", "greeting"})
    /\ at = "port2" /\ secret1 # None /\ phrase # None =>
           secret1 = "port1" /\ phrase = "phrase" /\ Exchange("evil", "marked", {"port2"})
    /\ at = "fourth" /\ Proceeds => secret1 = "port1" /\ secret2 = "port2" /\ phrase = "phrase"
    /\ ProceedsWithSecrets
    /\ at \in {"challenge", "port1"} => secret1 = None
    /\ at \in {"challenge", "port1", "instructions", "phrase"} => phrase = None
    /\ at \in {"challenge", "port1", "instructions", "phrase", "port2"} => secret2 = None

LEMMA OnlyReceived ==
    ASSUME NEW q, NEW A, Only(q, A), Receives
    PROVE  Received \in A /\ requests = {} /\ answers = {} /\ inbox' = <<>>
<1>1. PICK a \in A : requests = {} /\ answers = {} /\ inbox = <<a>>
      BY DEF Only, Receives
<1>2. Head(<<a>>) = a /\ Tail(<<a>>) = <<>>
      OBVIOUS
<1>3. QED
      BY <1>1, <1>2 DEF Receives, Received

LEMMA OnlySent ==
    ASSUME NEW q, NEW A, NEW next, requests = {}, answers = {}, inbox' = <<>>,
           SendOrEnd(q, next) \/ SendOrWait(q, next), UNCHANGED answers
    PROVE  Only(q, A)'
BY DEF Only, SendOrEnd, SendOrWait, Sends, SendFails

(* The network keeps a single datagram single; a request that is served    *)
(* becomes an answer. *)
LEMMA OnlyMoved ==
    ASSUME NEW q, NEW A, Only(q, A),
           \/ \E r \in requests : Serve(r) /\ (answers' = answers \/ \E a \in A : answers' = answers \cup {a})
           \/ \E a \in answers : Arrive(a)
           \/ Lose
    PROVE  Only(q, A)'
<1>1. ASSUME NEW r \in requests, Serve(r),
             answers' = answers \/ \E a \in A : answers' = answers \cup {a}
      PROVE  Only(q, A)'
  <2>1. requests = {q} /\ answers = {} /\ inbox = <<>> /\ r = q
        BY <1>1 DEF Only
  <2>2. requests' = {} /\ inbox' = <<>>
        BY <1>1, <2>1 DEF Serve
  <2>3. QED
        BY <1>1, <2>1, <2>2 DEF Only
<1>2. ASSUME NEW a \in answers, Arrive(a) PROVE Only(q, A)'
  <2>1. requests = {} /\ answers = {a} /\ inbox = <<>> /\ a \in A
        BY <1>2 DEF Only
  <2>2. requests' = {} /\ answers' = {} /\ inbox' = <<a>>
        BY <1>2, <2>1 DEF Arrive
  <2>3. QED
        BY <2>1, <2>2 DEF Only
<1>3. CASE Lose
  <2>1. CASE \E r \in requests : requests' = requests \ {r} /\ UNCHANGED answers
    <3>1. requests = {q} /\ answers = {} /\ inbox = <<>> /\ requests' = {}
          BY <2>1 DEF Only
    <3>2. QED
          BY <1>3, <2>1, <3>1 DEF Lose, Only
  <2>2. CASE \E a \in answers : answers' = answers \ {a} /\ UNCHANGED requests
    <3>1. requests = {} /\ inbox = <<>> /\ answers' = {}
          BY <2>2 DEF Only
    <3>2. QED
          BY <1>3, <2>2, <3>1 DEF Lose, Only
  <2>3. QED
        BY <1>3, <2>1, <2>2 DEF Lose
<1>4. QED
      BY <1>1, <1>2, <1>3

(* What a port answers in the exchanges of the invariant.                  *)
LEMMA Served ==
    ASSUME NEW port \in Port, NEW sent, NEW says, NEW r \in requests, Serve(r),
           Exchange(port, sent, says),
           \/ port = "secret" /\ sent = "introduction" /\ says = {"challenge"}
           \/ port = "secret" /\ sent = "signature" /\ says = {"port1"}
           \/ port = "checksum" /\ sent = "signature" /\ says = {"instructions"}
           \/ port = "checksum" /\ sent = "forged" /\ says = {"phrase", "greeting"}
           \/ port = "evil" /\ sent = "marked" /\ says = {"port2"}
           \/ port = "checksum" /\ sent = "forged" /\ says = {"phrase"} /\ forged = wanted
           \/ port = "final" /\ sent = "ports" /\ says = {"sequence"}
    PROVE  \E a \in {AnswerOf(port, say) : say \in says} : answers' = answers \cup {a}
<1>1. r = ReqTo(port, sent)
      BY DEF Exchange, Only
<1>2. r.port = port /\ r.say = sent /\ r.no = 0
      BY <1>1 DEF ReqTo
<1>3. PICK say \in Text :
        /\ IF \E s \in Text : Expected(r, s) THEN Expected(r, say) ELSE say = "greeting"
        /\ answers' = answers \cup {AnswerOf(port, say)}
      BY <1>2 DEF Serve, AnswerOf
<1>4. say \in says
      BY <1>2, <1>3 DEF Expected, Text
<1>5. QED
      BY <1>3, <1>4

LEMMA ExchangeMoved ==
    ASSUME NEW port \in Port, NEW sent, NEW says, Exchange(port, sent, says),
           \/ port = "secret" /\ sent = "introduction" /\ says = {"challenge"}
           \/ port = "secret" /\ sent = "signature" /\ says = {"port1"}
           \/ port = "checksum" /\ sent = "signature" /\ says = {"instructions"}
           \/ port = "checksum" /\ sent = "forged" /\ says = {"phrase", "greeting"}
           \/ port = "evil" /\ sent = "marked" /\ says = {"port2"}
           \/ port = "checksum" /\ sent = "forged" /\ says = {"phrase"} /\ forged = wanted
           \/ port = "final" /\ sent = "ports" /\ says = {"sequence"},
           (\E r \in requests : Serve(r)) \/ (\E a \in answers : Arrive(a)) \/ Lose
    PROVE  Exchange(port, sent, says)'
<1>1. CASE \E r \in requests : Serve(r)
  <2>1. PICK r \in requests : Serve(r)
        BY <1>1
  <2>2. \E a \in {AnswerOf(port, say) : say \in says} : answers' = answers \cup {a}
        BY <2>1, Served
  <2>3. QED
        BY <2>1, <2>2, OnlyMoved DEF Exchange
<1>2. CASE (\E a \in answers : Arrive(a)) \/ Lose
      BY <1>2, OnlyMoved DEF Exchange
<1>3. QED
      BY <1>1, <1>2

LEMMA InitInv == Init => SolverInv
BY DEF Init, SolverInv, Exchange, Only, ProceedsWithSecrets, Proceeds

LEMMA StepInv == SolverInv /\ [Next]_vars => SolverInv'
<1> SUFFICES ASSUME SolverInv, [Next]_vars PROVE SolverInv'
    OBVIOUS
<1>1. CASE ReceiveChallenge
  <2>1. secret1 = None /\ secret2 = None /\ phrase = None
        BY <1>1 DEF ReceiveChallenge, SolverInv
  <2>2. ASSUME Receives, at' = "port1"
        PROVE  signed' /\ Exchange("secret", "signature", {"port1"})'
    <3>1. /\ Received = AnswerOf("secret", "challenge")
          /\ requests = {} /\ answers = {} /\ inbox' = <<>>
          BY <1>1, <2>2, OnlyReceived DEF ReceiveChallenge, SolverInv, Exchange
    <3>2. Received.say = "challenge" /\ Received.port = "secret"
          BY <3>1 DEF AnswerOf
    <3>3. signed' /\ SendOrEnd(ReqTo("secret", "signature"), "port1")
          BY <1>1, <2>2, <3>2 DEF ReceiveChallenge, Receives, TimesOut, Signature
    <3>4. QED
          BY <1>1, <3>1, <3>3, OnlySent DEF ReceiveChallenge, Exchange
  <2>3. (at' = "port1" /\ Receives) \/ at' \in {"instructions", "done"}
        BY <1>1 DEF ReceiveChallenge, SendOrEnd, Sends, SendFails
  <2>4. QED
        BY <1>1, <2>1, <2>2, <2>3 DEF ReceiveChallenge, SolverInv, ProceedsWithSecrets, Proceeds
<1>2. CASE ReceivePort1
  <2>1. secret2 = None /\ phrase = None /\ signed /\ secret1 = None
        BY <1>2 DEF ReceivePort1, SolverInv
  <2>2. ASSUME secret1' # None
        PROVE  secret1' = "port1" /\ Exchange("checksum", "signature", {"instructions"})'
    <3>1. Receives /\ secret1' = PortIn(Received)
          BY <1>2, <2>1, <2>2 DEF ReceivePort1
    <3>2. /\ Received = AnswerOf("secret", "port1")
          /\ requests = {} /\ answers = {} /\ inbox' = <<>>
          BY <1>2, <3>1, OnlyReceived DEF ReceivePort1, SolverInv, Exchange
    <3>3. secret1' = "port1"
          BY <3>1, <3>2 DEF PortIn, AnswerOf
    <3>4. SendOrEnd(ReqTo("checksum", "signature"), "instructions")
          BY <1>2, <2>1 DEF ReceivePort1, Signature
    <3>5. QED
          BY <1>2, <3>2, <3>3, <3>4, OnlySent DEF ReceivePort1, Exchange
  <2>3. at' \in {"instructions", "done"}
        BY <1>2 DEF ReceivePort1, SendOrEnd, Sends, SendFails
  <2>4. QED
        BY <1>2, <2>1, <2>2, <2>3 DEF ReceivePort1, SolverInv, ProceedsWithSecrets, Proceeds
<1>3. CASE ReceiveInstructions
  <2>1. secret2 = None /\ phrase = None
        BY <1>3 DEF ReceiveInstructions, SolverInv
  <2>2. ASSUME secret1 # None
        PROVE  /\ secret1 = "port1"
               /\ \/ Exchange("checksum", "signature", {"instructions"})'
                  \/ Exchange("checksum", "forged", {"phrase", "greeting"})'
    <3>1. secret1 = "port1" /\ Exchange("checksum", "signature", {"instructions"})
          BY <1>3, <2>2 DEF ReceiveInstructions, SolverInv
    <3>2. CASE Receives
      <4>1. /\ Received = AnswerOf("checksum", "instructions")
            /\ requests = {} /\ answers = {} /\ inbox' = <<>>
            BY <3>1, <3>2, OnlyReceived DEF Exchange
      <4>2. Received.say = "instructions" /\ Received.port = "checksum" /\ inbox # <<>>
            BY <3>2, <4>1 DEF AnswerOf, Receives
      <4>3. SendOrWait(ReqTo("checksum", "forged"), "phrase")
            BY <1>3, <4>2 DEF ReceiveInstructions, TimesOut
      <4>4. QED
            BY <1>3, <3>1, <4>1, <4>3, OnlySent DEF ReceiveInstructions, Exchange
    <3>3. CASE TimesOut
      <4>1. UNCHANGED <<requests, answers, inbox>>
            BY <1>3, <3>3 DEF ReceiveInstructions, TimesOut, Receives, GoesTo
      <4>2. QED
            BY <3>1, <4>1 DEF Exchange, Only
    <3>4. QED
          BY <1>3, <3>2, <3>3 DEF ReceiveInstructions
  <2>3. at' = "phrase"
        BY <1>3 DEF ReceiveInstructions, SendOrWait, Sends, SendFails, GoesTo
  <2>4. QED
        BY <1>3, <2>1, <2>2, <2>3 DEF ReceiveInstructions, SolverInv, ProceedsWithSecrets, Proceeds
<1>4. CASE ReceivePhrase
  <2>1. secret2 = None /\ phrase = None
        BY <1>4 DEF ReceivePhrase, SolverInv
  <2>2. ASSUME secret1 # None, phrase' # None
        PROVE  /\ secret1 = "port1" /\ phrase' = "phrase"
               /\ Exchange("evil", "marked", {"port2"})'
    <3>1. Receives /\ phrase' = PhraseIn(Received)
          BY <1>4, <2>1, <2>2 DEF ReceivePhrase
    <3>2. \/ Exchange("checksum", "signature", {"instructions"})
          \/ Exchange("checksum", "forged", {"phrase", "greeting"})
          BY <1>4, <2>2 DEF ReceivePhrase, SolverInv
    <3>3. /\ Received \in {AnswerOf("checksum", say) : say \in {"instructions", "phrase", "greeting"}}
          /\ requests = {} /\ answers = {} /\ inbox' = <<>>
          BY <3>1, <3>2, OnlyReceived DEF Exchange
    <3>4. phrase' = "phrase"
          BY <2>2, <3>1, <3>3 DEF PhraseIn, AnswerOf
    <3>5. QED
          BY <1>4, <2>2, <3>3, <3>4, OnlySent DEF ReceivePhrase, EvilPacket, SolverInv, Exchange
  <2>3. at' = "port2"
        BY <1>4 DEF ReceivePhrase, SendOrWait, Sends, SendFails
  <2>4. QED
        BY <1>4, <2>1, <2>2, <2>3 DEF ReceivePhrase, SolverInv, ProceedsWithSecrets, Proceeds
<1>5. CASE ReceivePort2
  <2>1. secret2 = None
        BY <1>5 DEF ReceivePort2, SolverInv
  <2>2. ASSUME secret1 # None, phrase # None, secret2' # None
        PROVE  secret1 = "port1" /\ phrase = "phrase" /\ secret2' = "port2"
    <3>1. Receives /\ secret2' = PortIn(Received)
          BY <1>5, <2>1, <2>2 DEF ReceivePort2
    <3>2. secret1 = "port1" /\ phrase = "phrase" /\ Received = AnswerOf("evil", "port2")
          BY <1>5, <2>2, <3>1, OnlyReceived DEF ReceivePort2, SolverInv, Exchange
    <3>3. QED
          BY <3>1, <3>2 DEF PortIn, AnswerOf
  <2>3. QED
        BY <1>5, <2>1, <2>2 DEF ReceivePort2, GoesTo, SolverInv, ProceedsWithSecrets, Proceeds
<1>6. CASE ReceiveFourth
  <2>1. at' = "done" \/ (at' = "sequence" /\ Proceeds)
        BY <1>6 DEF ReceiveFourth, SendOrEnd, Sends, SendFails, GoesTo
  <2>2. QED
        BY <1>6, <2>1 DEF ReceiveFourth, SolverInv, ProceedsWithSecrets, Proceeds
<1>7. CASE ReceiveSequence
  <2>1. at' \in {"knock", "done"}
        BY <1>7 DEF ReceiveSequence, SendKnock, Sends, SendFails, GoesTo
  <2>2. QED
        BY <1>7, <2>1 DEF ReceiveSequence, SolverInv, ProceedsWithSecrets, Proceeds
<1>8. CASE ReceiveKnock
  <2>1. at' \in {"knock", "done"}
        BY <1>8 DEF ReceiveKnock, SendKnock, Sends, SendFails, GoesTo
  <2>2. QED
        BY <1>8, <2>1 DEF ReceiveKnock, SolverInv, ProceedsWithSecrets, Proceeds
<1>9. CASE (\E q \in requests : Serve(q)) \/ (\E a \in answers : Arrive(a)) \/ Lose
  <2>1. UNCHANGED <<at, signed, secret1, secret2, phrase>>
        BY <1>9 DEF Serve, Arrive, Lose, solver
  <2>2. {"secret", "checksum", "evil"} \subseteq Port
        BY DEF Port
  <2>3. /\ Exchange("secret", "introduction", {"challenge"})
               => Exchange("secret", "introduction", {"challenge"})'
        /\ Exchange("secret", "signature", {"port1"})
               => Exchange("secret", "signature", {"port1"})'
        /\ Exchange("checksum", "signature", {"instructions"})
               => Exchange("checksum", "signature", {"instructions"})'
        /\ Exchange("checksum", "forged", {"phrase", "greeting"})
               => Exchange("checksum", "forged", {"phrase", "greeting"})'
        /\ Exchange("evil", "marked", {"port2"}) => Exchange("evil", "marked", {"port2"})'
        BY <1>9, <2>2, ExchangeMoved
  <2>4. QED
        BY <2>1, <2>3 DEF SolverInv, ProceedsWithSecrets, Proceeds
<1>10. CASE UNCHANGED vars
       BY <1>10 DEF vars, solver, SolverInv, ProceedsWithSecrets, Proceeds, Exchange, Only
<1>11. QED
       BY <1>1, <1>2, <1>3, <1>4, <1>5, <1>6, <1>7, <1>8, <1>9, <1>10 DEF Next, Solve

(* "proceed if we got everything": whatever is delayed, overtaken or lost, *)
(* the final challenge is only tried with the right ports and phrase.      *)
THEOREM ProceedsRight == Spec => []ProceedsWithSecrets
<1>1. SolverInv => ProceedsWithSecrets
      BY DEF SolverInv
<1>2. QED
      BY <1>1, InitInv, StepInv, PTL DEF Spec
-----------------------------------------------------------------------------
(* Nothing but a missed answer, a failed send or a wrong checksum makes it *)
(* fail.                                                                   *)

(* As long as every answer was got, every datagram was sent and the        *)
(* checksum is right, the request or the answer of the current receive is  *)
(* about, except in the fourth receive, which nothing was sent for; what   *)
(* was received before is there; and the server has heard every knock but  *)
(* the one on its way.                                                     *)
Quiet == requests = {} /\ answers = {} /\ inbox = <<>>

KnockReply == [port |-> "knock", no |-> knocked, say |-> IF knocked = Knocks THEN "won" ELSE "knock"]
Knocking ==
    /\ knocked >= 1
    /\ Only(Knock(knocked), {KnockReply})
    /\ heard = IF requests = {} THEN knocked ELSE knocked - 1

Early == {"challenge", "port1", "instructions"}
Good  == ~missed /\ ~unsent /\ (at \in Early \/ forged = wanted)

OnTrack ==
    /\ at \notin {"fourth", "done"} => ~Quiet
    /\ at \notin {"knock", "done"} => heard = 0
    /\ at \notin {"challenge", "port1", "done"} => secret1 = "port1"
    /\ at \in {"port2", "fourth"} => phrase = "phrase"
    /\ at = "phrase" => Exchange("checksum", "forged", {"phrase"})
    /\ at = "fourth" => secret2 = "port2" /\ Quiet
    /\ at = "sequence" => Exchange("final", "ports", {"sequence"})
    /\ at = "knock" => Knocking
    /\ at = "done" => won

TrackInv == Good => OnTrack

LEMMA TrackInit == Init => TrackInv
BY DEF Init, TrackInv, Good, OnTrack, Quiet, Early

(* Good is never regained, and while it lasts a receive gets what is about. *)
LEMMA GoodBefore ==
    ASSUME SolverInv, TypeOK, [Next]_vars, Good'
    PROVE  Good
<1>1. ~missed /\ ~unsent
      <2>1. Receives \/ TimesOut => (missed => missed')
            BY DEF Receives, TimesOut
      <2>2. Solve => Receives \/ TimesOut
            BY DEF Solve, ReceiveChallenge, ReceivePort1, ReceiveInstructions, ReceivePhrase,
                   ReceivePort2, ReceiveFourth, ReceiveSequence, ReceiveKnock
      <2>3. Solve => (unsent => unsent')
            BY DEF Solve, ReceiveChallenge, ReceivePort1, ReceiveInstructions, ReceivePhrase,
                   ReceivePort2, ReceiveFourth, ReceiveSequence, ReceiveKnock,
                   SendOrEnd, SendOrWait, SendKnock, Sends, SendFails, GoesTo
      <2>4. UNCHANGED vars \/ (\E q \in requests : Serve(q)) \/ (\E a \in answers : Arrive(a))
               => missed' = missed /\ unsent' = unsent
            BY DEF vars, Serve, Arrive
      <2>5. Lose => missed'
            BY DEF Lose
      <2>6. QED
            BY <2>1, <2>2, <2>3, <2>4, <2>5 DEF Good, Next
<1>2. at \notin Early => at' \notin Early /\ UNCHANGED <<forged, wanted>>
      BY DEF Early, Next, Solve, ReceiveChallenge, ReceivePort1, ReceiveInstructions, ReceivePhrase,
             ReceivePort2, ReceiveFourth, ReceiveSequence, ReceiveKnock, Serve, Arrive, Lose,
             SendOrEnd, SendOrWait, SendKnock, Sends, SendFails, GoesTo, vars, solver, server
<1>3. QED
      BY <1>1, <1>2 DEF Good

LEMMA GetsAnswer ==
    ASSUME OnTrack, ~missed', at \notin {"fourth", "done"}, Receives \/ TimesOut
    PROVE  Receives
BY DEF OnTrack, Quiet, TimesOut

LEMMA SendsWell ==
    ASSUME NEW q, NEW next, ~unsent', SendOrEnd(q, next) \/ SendOrWait(q, next)
    PROVE  Sends(q, next) /\ at' = next /\ ~Quiet'
BY DEF SendOrEnd, SendOrWait, Sends, SendFails, Quiet

LEMMA KnocksWell ==
    ASSUME NEW i, ~unsent', SendKnock(i)
    PROVE  /\ requests' = requests \cup {Knock(i)} /\ knocked' = i
           /\ at' = "knock" /\ ~Quiet'
BY DEF SendKnock, Sends, SendFails, Quiet

(* A request to another port than the knocked ones changes no count. *)
LEMMA NotHeard ==
    ASSUME NEW port, port # "knock", NEW sent, NEW says, Exchange(port, sent, says),
           NEW q \in requests, Serve(q)
    PROVE  heard' = heard
<1>1. q.port # "knock"
      BY DEF Exchange, Only, ReqTo
<1>2. QED
      BY <1>1 DEF Serve

LEMMA StillAbout ==
    ASSUME TypeOK, (\E q \in requests : Serve(q)) \/ (\E a \in answers : Arrive(a))
    PROVE  ~Quiet'
<1>1. CASE \E q \in requests : Serve(q)
      BY <1>1 DEF Serve, Quiet
<1>2. ASSUME NEW a \in answers, Arrive(a) PROVE ~Quiet'
      <2>1. inbox \in Seq(Answer) /\ a \in Answer /\ inbox' = Append(inbox, a)
            BY <1>2 DEF Arrive, TypeOK
      <2>2. inbox' # <<>>
            BY <2>1
      <2>3. QED
            BY <2>2 DEF Quiet
<1>3. QED
      BY <1>1, <1>2

LEMMA Texts == None \notin {"port1", "port2", "phrase"}
BY SolverAssumption

LEMMA TrackEarly ==
    ASSUME SolverInv, OnTrack, Good, Good', SolverInv',
           ReceiveChallenge \/ ReceivePort1 \/ ReceiveInstructions \/ ReceivePhrase
    PROVE  OnTrack'
<1>0. ~missed' /\ ~missed /\ ~unsent'
      BY DEF Good
<1>1. CASE ReceiveChallenge
      <2>1. Receives /\ heard' = 0
            BY <1>0, <1>1, GetsAnswer DEF ReceiveChallenge, OnTrack, server
      <2>2. at' = "port1" /\ ~Quiet'
            BY <1>0, <1>1, <2>1, SendsWell DEF ReceiveChallenge, Receives, TimesOut
      <2>3. QED
            BY <2>1, <2>2 DEF OnTrack
<1>2. CASE ReceivePort1
      <2>1. Receives /\ heard' = 0
            BY <1>0, <1>2, GetsAnswer DEF ReceivePort1, OnTrack, server
      <2>2. Received = AnswerOf("secret", "port1")
            BY <1>2, <2>1, OnlyReceived DEF ReceivePort1, SolverInv, Exchange
      <2>3. secret1' = "port1"
            BY <1>2, <2>1, <2>2 DEF ReceivePort1, Receives, TimesOut, PortIn, AnswerOf
      <2>4. at' = "instructions" /\ ~Quiet'
            BY <1>0, <1>2, SendsWell DEF ReceivePort1
      <2>5. QED
            BY <2>1, <2>3, <2>4 DEF OnTrack
<1>3. CASE ReceiveInstructions
      <2>1. Receives /\ heard' = 0 /\ secret1 = "port1" /\ secret1' = "port1"
            BY <1>0, <1>3, GetsAnswer DEF ReceiveInstructions, OnTrack, server
      <2>2. Exchange("checksum", "signature", {"instructions"})
            BY <1>3, <2>1, Texts DEF ReceiveInstructions, SolverInv
      <2>3. /\ Received = AnswerOf("checksum", "instructions")
            /\ requests = {} /\ answers = {} /\ inbox' = <<>>
            BY <2>1, <2>2, OnlyReceived DEF Exchange
      <2>4. SendOrWait(ReqTo("checksum", "forged"), "phrase") /\ UNCHANGED answers
            BY <1>3, <2>1, <2>3 DEF ReceiveInstructions, Receives, TimesOut, AnswerOf
      <2>5. Exchange("checksum", "forged", {"phrase"})' /\ at' = "phrase" /\ ~Quiet'
            BY <1>0, <2>3, <2>4, OnlySent, SendsWell DEF Exchange
      <2>6. QED
            BY <2>1, <2>5 DEF OnTrack
<1>4. CASE ReceivePhrase
      <2>1. Receives /\ heard' = 0 /\ secret1' = "port1"
            BY <1>0, <1>4, GetsAnswer DEF ReceivePhrase, OnTrack, server
      <2>2. Received = AnswerOf("checksum", "phrase")
            BY <1>4, <2>1, OnlyReceived DEF ReceivePhrase, OnTrack, Exchange
      <2>3. phrase' = "phrase"
            BY <1>4, <2>1, <2>2 DEF ReceivePhrase, Receives, TimesOut, PhraseIn, AnswerOf
      <2>4. at' = "port2" /\ ~Quiet'
            BY <1>0, <1>4, SendsWell DEF ReceivePhrase
      <2>5. QED
            BY <2>1, <2>3, <2>4 DEF OnTrack
<1>5. QED
      BY <1>1, <1>2, <1>3, <1>4

LEMMA TrackLate ==
    ASSUME TypeOK, SolverInv, OnTrack, Good, Good',
           ReceivePort2 \/ ReceiveFourth \/ ReceiveSequence \/ ReceiveKnock
    PROVE  OnTrack'
<1>0. ~missed' /\ ~missed /\ ~unsent'
      BY DEF Good
<1>1. CASE ReceivePort2
      <2>1. /\ Receives /\ at' = "fourth" /\ heard' = 0 /\ secret1' = "port1" /\ phrase' = "phrase"
            /\ Exchange("evil", "marked", {"port2"})
            BY <1>0, <1>1, GetsAnswer, Texts DEF ReceivePort2, GoesTo, OnTrack, SolverInv, server
      <2>2. /\ Received = AnswerOf("evil", "port2")
            /\ requests = {} /\ answers = {} /\ inbox' = <<>>
            BY <2>1, OnlyReceived DEF Exchange
      <2>3. secret2' = "port2"
            BY <1>1, <2>1, <2>2 DEF ReceivePort2, Receives, TimesOut, PortIn, AnswerOf
      <2>4. Quiet'
            BY <1>1, <2>2 DEF ReceivePort2, GoesTo, Quiet
      <2>5. QED
            BY <2>1, <2>3, <2>4 DEF OnTrack
<1>2. CASE ReceiveFourth
      <2>1. secret1 = "port1" /\ secret2 = "port2" /\ phrase = "phrase" /\ Quiet /\ heard' = 0
            BY <1>2 DEF ReceiveFourth, OnTrack, server
      <2>2. Proceeds /\ inbox' = <<>>
            BY <1>2, <2>1, Texts DEF ReceiveFourth, Proceeds, Quiet, Receives, TimesOut
      <2>3. /\ SendOrEnd(ReqTo("final", "ports"), "sequence") /\ secret1' = "port1"
            /\ UNCHANGED answers
            BY <1>2, <2>1, <2>2 DEF ReceiveFourth
      <2>4. Exchange("final", "ports", {"sequence"})' /\ at' = "sequence" /\ ~Quiet'
            BY <1>0, <2>1, <2>2, <2>3, OnlySent, SendsWell DEF Exchange, Quiet
      <2>5. QED
            BY <2>1, <2>3, <2>4 DEF OnTrack
<1>3. CASE ReceiveSequence
      <2>1. /\ Receives /\ heard' = 0 /\ secret1' = "port1" /\ UNCHANGED answers
            /\ Exchange("final", "ports", {"sequence"})
            BY <1>0, <1>3, GetsAnswer DEF ReceiveSequence, OnTrack, server
      <2>2. /\ Received = AnswerOf("final", "sequence")
            /\ requests = {} /\ answers = {} /\ inbox' = <<>>
            BY <2>1, OnlyReceived DEF Exchange
      <2>3. SendKnock(1)
            BY <1>3, <2>1, <2>2 DEF ReceiveSequence, Receives, TimesOut, AnswerOf
      <2>4. /\ requests' = {Knock(1)} /\ answers' = {} /\ inbox' = <<>>
            /\ knocked' = 1 /\ at' = "knock"
            BY <1>0, <2>1, <2>2, <2>3, KnocksWell
      <2>5. Knocking'
            BY <2>1, <2>4 DEF Knocking, Only
      <2>6. QED
            BY <2>1, <2>4, <2>5 DEF OnTrack, Quiet
<1>4. CASE ReceiveKnock
      <2>1. /\ Receives /\ UNCHANGED <<answers, heard, secret1>> /\ secret1 = "port1"
            /\ Knocking /\ knocked \in 0 .. Knocks
            BY <1>0, <1>4, GetsAnswer DEF ReceiveKnock, OnTrack, server, TypeOK
      <2>2. /\ Received = KnockReply
            /\ requests = {} /\ answers = {} /\ inbox' = <<>>
            BY <2>1, OnlyReceived DEF Knocking
      <2>3. heard = knocked /\ knocked >= 1
            BY <2>1, <2>2 DEF Knocking
      <2>4. CASE knocked = Knocks
            <3>1. won' = TRUE /\ at' = "done"
                  BY <1>4, <2>1, <2>2, <2>4 DEF ReceiveKnock, GoesTo, Receives, TimesOut, KnockReply
            <3>2. QED
                  BY <3>1 DEF OnTrack
      <2>5. CASE knocked # Knocks
            <3>1. Received.say = "knock"
                  BY <2>2, <2>5 DEF KnockReply
            <3>2. ~won'
                  BY <1>4, <2>1, <3>1 DEF ReceiveKnock, Receives, TimesOut
            <3>3. SendKnock(knocked + 1)
                  BY <1>4, <2>5, <3>2 DEF ReceiveKnock
            <3>4. /\ requests' = {Knock(knocked')} /\ answers' = {} /\ inbox' = <<>>
                  /\ knocked' = knocked + 1 /\ at' = "knock"
                  BY <1>0, <2>1, <2>2, <3>3, KnocksWell
            <3>5. knocked' >= 1 /\ heard' = knocked' - 1
                  BY <2>1, <2>3, <3>4
            <3>6. Knocking'
                  BY <3>4, <3>5 DEF Knocking, Only
            <3>7. QED
                  BY <2>1, <3>4, <3>6 DEF OnTrack, Quiet
      <2>6. QED
            BY <2>4, <2>5
<1>5. QED
      BY <1>1, <1>2, <1>3, <1>4

(* The server hears the knocks in their order, so that the answer is what  *)
(* the solver waits for. *)
LEMMA KnockMoved ==
    ASSUME TypeOK, Knocking,
           (\E q \in requests : Serve(q)) \/ (\E a \in answers : Arrive(a))
    PROVE  Knocking'
<1>0. knocked' = knocked /\ KnockReply' = KnockReply /\ knocked \in 0 .. Knocks
      BY DEF Serve, Arrive, solver, KnockReply, TypeOK
<1>1. ASSUME NEW q \in requests, Serve(q) PROVE Knocking'
      <2>1. requests = {q} /\ answers = {} /\ inbox = <<>> /\ q = Knock(knocked)
            BY <1>1 DEF Knocking, Only
      <2>2. q.port = "knock" /\ q.no = knocked /\ q.no = heard + 1 /\ q.no >= 1
            BY <1>0, <2>1 DEF Knocking, Knock
      <2>3. heard' = knocked
            BY <1>1, <2>2 DEF Serve
      <2>4. PICK say \in Text :
              /\ IF \E s \in Text : Expected(q, s) THEN Expected(q, say) ELSE say = "greeting"
              /\ answers' = answers \cup {[port |-> q.port, no |-> q.no, say |-> say]}
            BY <1>1 DEF Serve
      <2>5. say = IF knocked = Knocks THEN "won" ELSE "knock"
            BY <2>2, <2>4 DEF Expected, Text
      <2>6. answers' = {KnockReply'}
            BY <1>0, <2>1, <2>2, <2>4, <2>5 DEF KnockReply
      <2>7. requests' = {} /\ inbox' = <<>>
            BY <1>1, <2>1 DEF Serve
      <2>8. Only(Knock(knocked), {KnockReply})'
            BY <2>6, <2>7 DEF Only
      <2>9. QED
            BY <1>0, <2>2, <2>3, <2>7, <2>8 DEF Knocking
<1>2. ASSUME NEW a \in answers, Arrive(a) PROVE Knocking'
      <2>1. requests = {} /\ requests' = {} /\ heard' = heard
            BY <1>2 DEF Knocking, Only, Arrive, server
      <2>2. Only(Knock(knocked), {KnockReply})'
            <3>1. answers = {a} /\ inbox = <<>> /\ a = KnockReply
                  BY <1>2, <2>1 DEF Knocking, Only
            <3>2. answers' = {} /\ inbox' = <<a>>
                  BY <1>2, <3>1 DEF Arrive
            <3>3. QED
                  BY <1>0, <2>1, <3>1, <3>2 DEF Only
      <2>3. QED
            BY <1>0, <2>1, <2>2 DEF Knocking
<1>3. QED
      BY <1>1, <1>2

LEMMA TrackNetwork ==
    ASSUME TypeOK, SolverInv, OnTrack, Good,
           (\E q \in requests : Serve(q)) \/ (\E a \in answers : Arrive(a))
    PROVE  OnTrack'
<1>1. UNCHANGED <<at, signed, secret1, secret2, phrase, forged, wanted, won>>
      BY DEF Serve, Arrive, solver, server
<1>2. ~Quiet'
      BY StillAbout
<1>3. at # "fourth"
      BY DEF OnTrack, Quiet
<1>4. {"secret", "checksum", "evil", "final"} \subseteq Port
      BY DEF Port
<1>5. ASSUME NEW port, port # "knock", NEW sent, NEW says, Exchange(port, sent, says)
      PROVE  heard' = heard
      <2>1. CASE \E q \in requests : Serve(q)
            BY <1>5, <2>1, NotHeard
      <2>2. CASE \E a \in answers : Arrive(a)
            BY <2>2 DEF Arrive, server
      <2>3. QED
            BY <2>1, <2>2
<1>6. CASE at \in {"challenge", "port1", "instructions", "port2"}
      <2>1. heard' = 0
            BY <1>5, <1>6, Texts DEF SolverInv, OnTrack
      <2>2. QED
            BY <1>1, <1>2, <1>6, <2>1 DEF OnTrack
<1>7. CASE at = "phrase"
      <2>1. forged = wanted /\ Exchange("checksum", "forged", {"phrase"})
            BY <1>7 DEF Good, Early, OnTrack
      <2>2. Exchange("checksum", "forged", {"phrase"})' /\ heard' = 0
            BY <1>4, <1>5, <1>7, <2>1, ExchangeMoved DEF OnTrack
      <2>3. QED
            BY <1>1, <1>2, <1>7, <2>2 DEF OnTrack
<1>8. CASE at = "sequence"
      <2>1. Exchange("final", "ports", {"sequence"})' /\ heard' = 0
            BY <1>4, <1>5, <1>8, ExchangeMoved DEF OnTrack
      <2>2. QED
            BY <1>1, <1>2, <1>8, <2>1 DEF OnTrack
<1>9. CASE at = "knock"
      BY <1>1, <1>2, <1>9, KnockMoved DEF OnTrack
<1>10. CASE at = "done"
      BY <1>1, <1>10 DEF OnTrack
<1>11. QED
      BY <1>3, <1>6, <1>7, <1>8, <1>9, <1>10 DEF TypeOK, Location

(* It ends without success only when an answer was lost or late, when a    *)
(* datagram could not be sent - the raw packet of a solver that runs       *)
(* without privileges among them - or when the forged packet did not have  *)
(* the checksum asked for.                                                 *)
THEOREM SucceedsUnlessMissed == Spec => []FailsOnlyWhenMissed
<1>1. TypeOK /\ SolverInv /\ SolverInv' /\ TrackInv /\ [Next]_vars => TrackInv'
      <2> SUFFICES ASSUME TypeOK, SolverInv, SolverInv', TrackInv, [Next]_vars, Good'
                   PROVE  OnTrack'
          BY DEF TrackInv
      <2>1. Good /\ OnTrack
            BY GoodBefore DEF TrackInv
      <2>2. CASE Solve
            BY <2>1, <2>2, TrackEarly, TrackLate DEF Solve
      <2>3. CASE (\E q \in requests : Serve(q)) \/ (\E a \in answers : Arrive(a))
            BY <2>1, <2>3, TrackNetwork
      <2>4. ~Lose
            BY DEF Lose, Good
      <2>5. CASE UNCHANGED vars
            BY <2>1, <2>5 DEF OnTrack, Quiet, Exchange, Only, Knocking, KnockReply, vars, solver, server
      <2>6. QED
            BY <2>2, <2>3, <2>4, <2>5 DEF Next
<1>2. TrackInv => FailsOnlyWhenMissed
      BY DEF TrackInv, Good, OnTrack, FailsOnlyWhenMissed
<1>3. QED
      BY <1>1, <1>2, TrackInit, InitInv, StepInv, TypeCorrect, PTL DEF Spec

=============================================================================
