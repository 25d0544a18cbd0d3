\* A message across a square to a server that is not there yet, and one to a
\* neighbour.
SPECIFICATION FairSpec
CONSTANTS
    A = A
    B = B
    C = C
    D = D
    E = E
    Node = {A, B, C, D, E}
    Msg <- ToEAndC
    Links <- Square
    MayRise <- LateLink
    MayFall <- NoLink
    Asking = {E}
    MaxHops = 3
    Room = 3
INVARIANTS TypeOK LoopFree
PROPERTIES PromisesKept FloodsEnd
CHECK_DEADLOCK FALSE
