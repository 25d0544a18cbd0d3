\* The times of the code in units of 30 seconds; searches of 4 and of 6 minutes.
SPECIFICATION Spec
CONSTANTS
    A = A
    B = B
    KA = 2
    GM = 3
    SR = 6
    CC = 4
    Silence = 10
    Search = {0, 8, 12}
INVARIANTS TypeOK SilentDropped
PROPERTIES LivingKept
CHECK_DEADLOCK FALSE
