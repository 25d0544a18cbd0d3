\* A message through the middle of a star, whose links fall and come up again.
SPECIFICATION FairSpec
CONSTANTS
    A = A
    B = B
    C = C
    D = D
    E = E
    Node = {A, B, C, D}
    Msg <- AToC
    Links <- NoLink
    MayRise <- Star
    MayFall <- Star
    Asking = {A, B, C, D}
    MaxHops = 2
    Room = 2
INVARIANTS OnceOnTree
PROPERTIES StoredReachesPeer DeliversOnce
CHECK_DEADLOCK FALSE
