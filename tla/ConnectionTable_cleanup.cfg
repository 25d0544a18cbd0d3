\* Three connections on two descriptors: every descriptor is reused.
SPECIFICATION Spec
CONSTANTS
    Fd = {3, 4}
    Conn = {c1, c2, c3}
    Group = {me, ga}
    MyGroup = me
    NoGroup = NoGroup
    Addr = {a1}
    None = None
    MaxServers = 2
    SpawnMayFail = FALSE
INVARIANT CleanupErasesOwn
CHECK_DEADLOCK FALSE
