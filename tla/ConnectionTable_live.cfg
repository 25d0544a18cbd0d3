\* Liveness, with thread creation allowed to fail.
SPECIFICATION FairSpec
CONSTANTS
    Fd = {3, 4}
    Conn = {c1, c2}
    Group = {me, ga}
    MyGroup = me
    NoGroup = NoGroup
    Addr = {a1}
    None = None
    MaxServers = 2
    SpawnMayFail = TRUE
PROPERTIES DescriptorsReleased
CHECK_DEADLOCK FALSE
