\* One frame fits on a connection; two rounds, one command, two clients.
SPECIFICATION FairSpec
CONSTANTS
    A = A
    B = B
    D = D
    c1 = c1
    c2 = c2
    None = None
    Server = {A, B}
    Deaf = {D}
    Client = {c1, c2}
    Peers <- MCPeers
    Queue <- MCQueue
    Dest = {B, D, None}
    Cap = 1
    MaxRounds = 2
    MaxAsk = 1
INVARIANTS TypeOK StopsOnlyInJam
PROPERTIES Answered
CHECK_DEADLOCK FALSE
