---------------------------- MODULE MCLockedSend ----------------------------
(* LockedSend for two servers, and a peer of the second one that has       *)
(* stopped reading; the clients are those of the first server.             *)
EXTENDS LockedSend

CONSTANTS A, B, D, c1, c2

MCPeers == [s \in {A, B} |-> IF s = A THEN B :> 4 ELSE A :> 4 @@ D :> 5]
MCQueue == [s \in {A, B} |-> IF s = A THEN <<c1, c2>> ELSE <<>>]
=============================================================================
