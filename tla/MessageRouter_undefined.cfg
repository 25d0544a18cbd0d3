\* Two requesters of one queue.
SPECIFICATION Spec
CONSTANTS
    ga = ga
    gb = gb
    Thread = {t1, t2}
    Fd = {f1, f2}
    Group = {ga, gb}
    Me = me
    Msg <- Mixed
    None = None
SYMMETRY Symmetry
INVARIANTS NeverUndefined
CHECK_DEADLOCK FALSE
