------------------------- MODULE MCConnectionTable -------------------------
(* Bounded instances of ConnectionTable. *)
EXTENDS ConnectionTable, TLC

Symmetry == Permutations(Conn) \cup Permutations(Group \ {MyGroup})
=============================================================================
