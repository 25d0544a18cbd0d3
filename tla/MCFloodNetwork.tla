--------------------------- MODULE MCFloodNetwork ---------------------------
(* Bounded instances of FloodNetwork: topologies and messages.             *)
EXTENDS FloodNetwork

CONSTANTS A, B, C, D, E

(* A square: two ways from A to D, and a circle for floods to run in; E    *)
(* hangs off D, by a link that comes up late.  One message goes across to  *)
(* E, one to a neighbour of its sender.                                    *)
Square   == {{A, B}, {A, C}, {B, D}, {C, D}}
LateLink == {{D, E}}
ToEAndC  == {[from |-> A, to |-> E, no |-> 1], [from |-> D, to |-> C, no |-> 1]}

(* A star round B: a message from one end to another, and an end that is   *)
(* on no way between them.                                                 *)
Star     == {{A, B}, {B, C}, {B, D}}
AToC     == {[from |-> A, to |-> C, no |-> 1]}

(* A triangle with a circle to run in.                                     *)
Triangle == {{A, B}, {B, C}, {A, C}}
OneToD   == {[from |-> A, to |-> D, no |-> 1]}

NoLink   == {}
=============================================================================
