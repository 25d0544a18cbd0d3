--------------------------- MODULE MCMessageRouter ---------------------------
(* Bounded instances of MessageRouter. *)
EXTENDS MessageRouter, TLC

CONSTANTS ga, gb

(* Two messages for the client's own group and one for a group that        *)
(* connects. *)
Mixed == {[to |-> Me, no |-> 1], [to |-> Me, no |-> 2], [to |-> ga, no |-> 3]}

Symmetry == Permutations(Thread) \cup Permutations(Fd)
=============================================================================
