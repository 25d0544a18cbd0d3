---------------------------- MODULE PeerRegistry ----------------------------
(***************************************************************************)
(* What the connection table of the server promises, without threads,      *)
(* descriptors or handshakes: slots hold groups, a group is admitted to a  *)
(* slot only while no slot holds it, and slots are released.               *)
(***************************************************************************)
CONSTANTS Slot, Group, Nobody

VARIABLE member   \* the group of each slot, or Nobody

Init == member = [s \in Slot |-> Nobody]

(* The slot's previous group, if it had one, gives way to g. *)
Admit(s, g) ==
    /\ \A r \in Slot : member[r] # g
    /\ member' = [member EXCEPT ![s] = g]

Release(S) == member' = [s \in Slot |-> IF s \in S THEN Nobody ELSE member[s]]

Next == \/ \E s \in Slot, g \in Group : Admit(s, g)
        \/ \E S \in SUBSET Slot : Release(S)

Spec == Init /\ [][Next]_member

(* One slot per group. *)
OnePerGroup == \A r, s \in Slot : member[r] = member[s] /\ member[r] # Nobody => r = s
=============================================================================
