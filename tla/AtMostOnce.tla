----------------------------- MODULE AtMostOnce -----------------------------
(***************************************************************************)
(* What servers linked without a circle promise to their clients, without  *)
(* links, hops, copies or requests: a message is sent once, comes out at   *)
(* its destination at most once, and is taken by a client as often as it   *)
(* came out.  A message may be excused, before it comes out again.         *)
(***************************************************************************)
EXTENDS Naturals

CONSTANT Msg

VARIABLES
    sent,     \* messages that were sent
    excused,  \* messages that may come out more than once
    arrived,  \* how often each has come out
    got       \* how often each was taken

Init ==
    /\ sent    = {}
    /\ excused = {}
    /\ arrived = [m \in Msg |-> 0]
    /\ got     = [m \in Msg |-> 0]

Send(m) ==
    /\ m \notin sent
    /\ sent' = sent \cup {m}
    /\ UNCHANGED <<excused, arrived, got>>

Excuse ==
    /\ excused' \in SUBSET sent /\ excused \subseteq excused'
    /\ UNCHANGED <<sent, arrived, got>>

Arrive(m) ==
    /\ m \in sent /\ (arrived[m] = 0 \/ m \in excused)
    /\ arrived' = [arrived EXCEPT ![m] = @ + 1]
    /\ UNCHANGED <<sent, excused, got>>

Get(m) ==
    /\ got[m] < arrived[m]
    /\ got' = [got EXCEPT ![m] = @ + 1]
    /\ UNCHANGED <<sent, excused, arrived>>

Next == Excuse \/ \E m \in Msg : Send(m) \/ Arrive(m) \/ Get(m)

Spec == Init /\ [][Next]_<<sent, excused, arrived, got>>
=============================================================================
