\* Three connections on two descriptors: every descriptor is reused.
SPECIFICATION Spec
CONSTANTS
    Fd = {3, 4}
    Conn = {c1, c2, c3}
    Group = {ga, gb}
    MyGroup = me
    NoGroup = NoGroup
    Addr = {a1}
    None = None
    MaxServers = 2
    SpawnMayFail = FALSE
SYMMETRY Symmetry
INVARIANTS TypeOK UniqueGroups GroupsRegistered DescriptorsHeld
PROPERTIES FreedWithConnection LeftByRenameOrMixUp Refinement
CHECK_DEADLOCK FALSE
