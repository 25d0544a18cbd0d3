SPECIFICATION FairSpec
CONSTANTS
    Mod = 4
    Knocks = 2
    None = None
INVARIANTS TypeOK ProceedsWithSecrets FailsOnlyWhenMissed ForgedWithinOne
PROPERTY Ends
CHECK_DEADLOCK FALSE
