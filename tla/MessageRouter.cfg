\* Two peer threads and the client, three messages.
SPECIFICATION Spec
CONSTANTS
    ga = ga
    gb = gb
    Thread = {t1, t2}
    Fd = {f1, f2}
    Group = {ga, gb}
    Me = me
    Msg <- Mixed
    None = None
SYMMETRY Symmetry
INVARIANTS TypeOK OnePlace ReadsInOrder
PROPERTIES DeliveredUnlessLost EmptiedOnlyByAnother
CHECK_DEADLOCK FALSE
