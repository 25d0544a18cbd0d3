---------------------------- MODULE PuzzleSolver ----------------------------
(***************************************************************************)
(* The puzzle solver (src/UdpScan/puzzlesolver.cpp): one thread and one    *)
(* UDP socket, which talks to four ports of a server in turn and knocks on *)
(* the ports it was told.  Each receive waits for TIMEOUT_SEC and takes    *)
(* whatever datagram is next, from any port: nothing tells a late answer   *)
(* to an earlier request from the answer that is wanted.                   *)
(*                                                                         *)
(* An action is one receive with all that follows up to the next.  The     *)
(* server and the network are external: a request gets one answer, known   *)
(* from src/UdpScan/notes.md, src/UdpScan/wireshark_bonus.pcapng and what  *)
(* the solver looks for; requests and answers are delayed, overtake each   *)
(* other and get lost, but are not duplicated.  Any send may fail: most    *)
(* end the program, two go by unnoticed - the forged packet's, and that of *)
(* the raw packet, whose socket is refused without privileges.             *)
(*                                                                         *)
(* Abstracted: texts are names; of the forged packet only the sum of its   *)
(* words, its last word and its checksum count; the ping at the end, which *)
(* waits for no answer, is left out.                                       *)
(***************************************************************************)
EXTENDS Integers, Sequences

CONSTANTS
    Mod,      \* number of 16-bit words: 65536
    Knocks,   \* length of the knock sequence
    None      \* nothing found, no checksum

ASSUME SolverAssumption ==
    /\ Mod \in Nat /\ Mod > 1
    /\ Knocks \in Nat \ {0}
    /\ None \notin Nat
    /\ None \notin {"port1", "port2", "phrase", "knock", "greeting"}

VARIABLES
    at,        \* the receive the solver waits in
    signed,    \* sig_msg holds the signature the server expects
    secret1,   \* secret_port1: the text it was read from
    secret2,   \* secret_port2
    phrase,    \* phrase: the text it was read from
    asked,     \* checksum_val: the checksum the forged packet is to have
    forged,    \* the checksum of the forged packet
    knocked,   \* knocks sent
    won,       \* a reply to a knock said Congratulations
    requests,  \* datagrams on their way to the server
    answers,   \* datagrams on their way back
    inbox,     \* the receive buffer of the socket
    heard,     \* knocks the server has heard in a row
    words,     \* sum of the words of the forged packet but the last
    wanted,    \* the checksum the server asks for
    missed,    \* history: an answer was lost, or came after its receive ended
    unsent     \* history: a datagram could not be sent

solver == <<at, signed, secret1, secret2, phrase, asked, forged, knocked, won>>
server == <<heard, words, wanted>>
vars   == <<solver, requests, answers, inbox, server, missed, unsent>>

-----------------------------------------------------------------------------
(* Checksums: ones' complement sums of words.                              *)

Word == 0 .. Mod - 1

AddUnfolded(a, b) == a + b          \* mutant: the sum is not folded

AddWrapped(a, b) == (a + b) % Mod   \* mutant: the carry is dropped

(* One turn of the loop: (sum & 0xffff) + 1 when the sum overflows. *)
Add(a, b) == IF a + b < Mod THEN a + b ELSE a + b - Mod + 1

(* udp_checksum of the packet that ends in word last.                      *)
UdpChecksum(last) == Mod - 1 - Add(words, last)

(* The word that is added to force checksum c: a 16-bit difference.        *)
Difference(c) ==
    LET csum == UdpChecksum(0) IN IF csum >= c THEN csum - c ELSE csum - c + Mod

-----------------------------------------------------------------------------
(* Texts.                                                                  *)

Port     == {"secret", "checksum", "evil", "final", "knock"}
Request  == [port : Port, no : 0 .. Knocks,
             say : {"introduction", "signature", "forged", "marked", "ports", "knock", "other"}]
Text     == {"challenge", "port1", "instructions", "phrase", "port2", "sequence",
             "knock", "won", "greeting"}
Answer   == [port : Port, no : 0 .. Knocks, say : Text]
Location == {"challenge", "port1", "instructions", "phrase", "port2", "fourth",
             "sequence", "knock", "done"}

ReqTo(port, say) == [port |-> port, say |-> say, no |-> 0]
Knock(i)         == [port |-> "knock", say |-> "knock", no |-> i]
Signature(right) == IF right THEN "signature" ELSE "other"

(* extract_port_number takes the first number after the word port: those   *)
(* of the two answers, but also one of three greetings ("an evil port ...  *)
(* a message of 4 bytes").                                                 *)
PortIn(a) ==
    IF \/ a.say \in {"port1", "port2", "knock"}
       \/ a.say = "greeting" /\ a.port \in {"secret", "evil", "final"}
    THEN a.say ELSE None

PhraseWhole(a) == a.say    \* mutant: without quotes, the whole text

(* extract_secret_phrase takes what is between quotes. *)
PhraseIn(a) ==
    IF a.say \in {"phrase", "knock"} \/ (a.say = "greeting" /\ a.port = "final")
    THEN a.say ELSE None

-----------------------------------------------------------------------------
(* main up to its first receive, or up to die: no socket, or no sendto.    *)
Init ==
    /\ \/ at = "challenge" /\ requests = {ReqTo("secret", "introduction")} /\ unsent = FALSE
       \/ at = "done" /\ requests = {} /\ unsent = TRUE
    /\ signed   = FALSE
    /\ secret1  = None /\ secret2 = None /\ phrase = None
    /\ asked    = None /\ forged = None
    /\ knocked  = 0
    /\ won      = FALSE
    /\ answers  = {}
    /\ inbox    = <<>>
    /\ heard    = 0
    /\ words \in Word /\ wanted \in Word
    /\ missed   = FALSE

-----------------------------------------------------------------------------
(* Receiving and sending.                                                  *)

(* sendto succeeds, and the solver waits in its next receive ...           *)
Sends(q, next) ==
    /\ requests' = requests \cup {q}
    /\ at' = next
    /\ UNCHANGED unsent

(* ... or fails, and it waits all the same, or ends: by die, or as         *)
(* send_knocks returns.                                                    *)
SendFails(next) ==
    /\ unsent' = TRUE
    /\ at' = next
    /\ UNCHANGED requests

SendOrEnd(q, next) == Sends(q, next) \/ SendFails("done")
SendOrWait(q, next) == Sends(q, next) \/ SendFails(next)

GoesTo(next) == at' = next /\ UNCHANGED <<requests, unsent>>

(* recvfrom: the next datagram, whoever sent it ...                        *)
Received == Head(inbox)
Receives ==
    /\ inbox # <<>>
    /\ inbox' = Tail(inbox)
    /\ UNCHANGED missed

Hangs ==    \* mutant: no SO_RCVTIMEO
    /\ inbox = <<>>
    /\ requests # {} \/ answers # {}
    /\ missed' = TRUE
    /\ UNCHANGED inbox

(* ... or -1 when SO_RCVTIMEO has passed without one.                      *)
TimesOut ==
    /\ inbox = <<>>
    /\ missed' = (missed \/ requests # {} \/ answers # {})
    /\ UNCHANGED inbox

(* handleSecretPort.  recvfrom cuts a longer text to the five bytes that   *)
(* are taken for the challenge; without one the second port is tried.      *)
ReceiveChallenge ==
    /\ at = "challenge"
    /\ \/ /\ Receives
          /\ signed' = (Received.say = "challenge")
          /\ SendOrEnd(ReqTo(Received.port, Signature(signed')), "port1")
       \/ /\ TimesOut
          /\ SendOrEnd(ReqTo("checksum", Signature(FALSE)), "instructions")
          /\ UNCHANGED signed
    /\ UNCHANGED <<secret1, secret2, phrase, asked, forged, knocked, won, answers, server>>

ReceivePort1 ==
    /\ at = "port1"
    /\ \/ Receives /\ secret1' = PortIn(Received)
       \/ TimesOut /\ UNCHANGED secret1
    /\ SendOrEnd(ReqTo("checksum", Signature(signed)), "instructions")
    /\ UNCHANGED <<signed, secret2, phrase, asked, forged, knocked, won, answers, server>>

(* checksum.  The last six bytes of any text that has them are taken for a *)
(* checksum and an address, and the forged packet goes to where the text   *)
(* came from. *)
ReceiveInstructions ==
    /\ at = "instructions"
    /\ \/ /\ Receives
          /\ IF Received.say = "challenge"
             THEN GoesTo("phrase") /\ UNCHANGED <<asked, forged>>
             ELSE /\ asked' \in Word
                  /\ Received.say = "instructions" => asked' = wanted
                  /\ forged' = UdpChecksum(Difference(asked'))
                  /\ SendOrWait(ReqTo(Received.port, "forged"), "phrase")
       \/ TimesOut /\ GoesTo("phrase") /\ UNCHANGED <<asked, forged>>
    /\ UNCHANGED <<signed, secret1, secret2, phrase, knocked, won, answers, server>>

UnmarkedPacket == ReqTo("evil", "signature")    \* mutant: the bit is not set

(* handleEvilPort sends a raw packet with the evil bit set, and a signature *)
(* that is written in the code: it does not depend on sig_msg.             *)
EvilPacket == ReqTo("evil", "marked")

(* main, i == 1, and the packet to the third port, whose socket, options   *)
(* and send are not tested: without privileges no packet leaves.           *)
ReceivePhrase ==
    /\ at = "phrase"
    /\ \/ Receives /\ phrase' = PhraseIn(Received)
       \/ TimesOut /\ UNCHANGED phrase
    /\ SendOrWait(EvilPacket, "port2")
    /\ UNCHANGED <<signed, secret1, secret2, asked, forged, knocked, won, answers, server>>

ReceivePort2 ==
    /\ at = "port2"
    /\ \/ Receives /\ secret2' = PortIn(Received)
       \/ TimesOut /\ UNCHANGED secret2
    /\ GoesTo("fourth")
    /\ UNCHANGED <<signed, secret1, phrase, asked, forged, knocked, won, answers, server>>

Proceeds == secret1 # None /\ secret2 # None /\ phrase # None

(* main, i == 3, receives without having sent; then the final challenge,   *)
(* or "MISSING REQUIRED INFORMATION". *)
ReceiveFourth ==
    /\ at = "fourth"
    /\ TimesOut \/ Receives
    /\ IF Proceeds
       THEN SendOrEnd(ReqTo("final", IF secret1 = "port1" /\ secret2 = "port2"
                                     THEN "ports" ELSE "other"), "sequence")
       ELSE GoesTo("done")
    /\ UNCHANGED <<signed, secret1, secret2, phrase, asked, forged, knocked, won, answers, server>>

(* The i-th turn of send_knocks. *)
SendKnock(i) ==
    \/ Sends(Knock(i), "knock") /\ knocked' = i
    \/ SendFails("done") /\ UNCHANGED knocked

(* The reply is split at commas.  Other texts hold no number at the start  *)
(* of a part, or none that is an open port. *)
ReceiveSequence ==
    /\ at = "sequence"
    /\ \/ /\ Receives
          /\ IF Received.say = "sequence" THEN SendKnock(1) ELSE GoesTo("done") /\ UNCHANGED knocked
       \/ TimesOut /\ GoesTo("done") /\ UNCHANGED knocked
    /\ UNCHANGED <<signed, secret1, secret2, phrase, asked, forged, won, answers, server>>

(* send_knocks: the next knock whatever the reply, unless it congratulates.*)
ReceiveKnock ==
    /\ at = "knock"
    /\ \/ Receives /\ won' = (Received.say \in {"won", "phrase"})
       \/ TimesOut /\ UNCHANGED won
    /\ IF won' \/ knocked = Knocks
       THEN GoesTo("done") /\ UNCHANGED knocked
       ELSE SendKnock(knocked + 1)
    /\ UNCHANGED <<signed, secret1, secret2, phrase, asked, forged, answers, server>>

Solve ==
    \/ ReceiveChallenge \/ ReceivePort1 \/ ReceiveInstructions \/ ReceivePhrase
    \/ ReceivePort2 \/ ReceiveFourth \/ ReceiveSequence \/ ReceiveKnock

-----------------------------------------------------------------------------
(* The server and the network.                                             *)

(* What each port answers; anything else gets the greeting. *)
Expected(q, say) ==
    \/ q.port = "secret"   /\ q.say = "introduction" /\ say = "challenge"
    \/ q.port = "secret"   /\ q.say = "signature"    /\ say = "port1"
    \/ q.port = "checksum" /\ q.say = "signature"    /\ say = "instructions"
    \/ q.port = "checksum" /\ q.say = "forged"       /\ say = "phrase" /\ forged = wanted
    \/ q.port = "evil"     /\ q.say = "marked"       /\ say = "port2"
    \/ q.port = "final"    /\ q.say = "ports"        /\ say = "sequence"
    \/ q.port = "knock" /\ q.no = heard + 1 /\ say = IF q.no = Knocks THEN "won" ELSE "knock"
    \/ q.port = "knock" /\ q.no # heard + 1 /\ say = "knock"

Serve(q) ==
    /\ requests' = requests \ {q}
    /\ \E say \in Text :
        /\ IF \E s \in Text : Expected(q, s) THEN Expected(q, say) ELSE say = "greeting"
        /\ answers' = answers \cup {[port |-> q.port, no |-> q.no, say |-> say]}
    /\ heard' = IF q.port # "knock" THEN heard
                ELSE IF q.no = heard + 1 THEN q.no ELSE 0
    /\ UNCHANGED <<solver, inbox, words, wanted, missed, unsent>>

Arrive(a) ==
    /\ answers' = answers \ {a}
    /\ inbox' = Append(inbox, a)
    /\ UNCHANGED <<solver, requests, server, missed, unsent>>

Lose ==
    /\ \/ \E q \in requests : requests' = requests \ {q} /\ UNCHANGED answers
       \/ \E a \in answers : answers' = answers \ {a} /\ UNCHANGED requests
    /\ missed' = TRUE
    /\ UNCHANGED <<solver, inbox, server, unsent>>

Next ==
    \/ Solve
    \/ \E q \in requests : Serve(q)
    \/ \E a \in answers : Arrive(a)
    \/ Lose

Spec     == Init /\ [][Next]_vars
FairSpec == Spec /\ WF_vars(Solve)

-----------------------------------------------------------------------------
(* Properties.                                                             *)

(* Every variable has its type. *)
TypeOK ==
    /\ at \in Location
    /\ signed \in BOOLEAN /\ won \in BOOLEAN /\ missed \in BOOLEAN /\ unsent \in BOOLEAN
    /\ secret1 \in Text \cup {None} /\ secret2 \in Text \cup {None}
    /\ phrase \in Text \cup {None}
    /\ asked \in Word \cup {None} /\ forged \in Word \cup {None}
    /\ knocked \in 0 .. Knocks /\ heard \in 0 .. Knocks
    /\ requests \in SUBSET Request /\ answers \in SUBSET Answer
    /\ inbox \in Seq(Answer)
    /\ words \in Word /\ wanted \in Word

(* "proceed if we got everything": the final challenge is only tried with  *)
(* the two ports and the phrase that the challenges give, never with what  *)
(* was read in a late answer to another request or in a greeting, although *)
(* no receive checks who answered. *)
ProceedsWithSecrets ==
    at \in {"sequence", "knock"} => secret1 = "port1" /\ secret2 = "port2" /\ phrase = "phrase"

(* It fails only when a datagram was lost or late, when one could not be   *)
(* sent, as the raw packet of a solver without privileges, or when the     *)
(* forged packet did not have the checksum the server asked for.           *)
FailsOnlyWhenMissed == at = "done" /\ ~won => missed \/ unsent \/ forged # wanted

(* The forged packet verifies: its words and its checksum add up to a      *)
(* multiple of the word of ones, which is what a ones' complement sum of   *)
(* ones means.  Its checksum is the one asked for, or the one below that   *)
(* when the packet's own was lower. *)
ForgedWithinOne ==
    forged # None =>
        /\ words + Difference(asked) + forged \in {Mod - 1, 2 * (Mod - 1)}
        /\ forged = IF UdpChecksum(0) >= asked THEN asked ELSE asked - 1

(* Every run of the solver ends: no receive waits for ever, also for an    *)
(* answer to what could not be sent.                                       *)
Ends == <>(at = "done")
=============================================================================
