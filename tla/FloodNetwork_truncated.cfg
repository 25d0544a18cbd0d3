\* A message so long that only one hop fits beside it.
SPECIFICATION Spec
CONSTANTS
    A = A
    B = B
    C = C
    D = D
    E = E
    Node = {A, B, C, D}
    Msg <- OneToD
    Links <- Triangle
    MayRise <- NoLink
    MayFall <- NoLink
    Asking = {A, B, C, D}
    MaxHops = 3
    Room = 1
INVARIANTS LoopFree
CHECK_DEADLOCK FALSE
