\* Two clients, two commands each, a buffer of three bytes; any garbage.
SPECIFICATION FairSpec
CONSTANTS
    Conn = {c1, c2}
    Fd = {4, 5}
    Listen = 3
    Std = {0}
    Backlog = 5
    Size = 3
    Lengths = {0, 1, 2}
    MaxOut = 2
    MaxAsk = 2
    None = None
INVARIANTS TypeOK SelectSeesAll SelectNeverFails AllHandled NothingOlder
PROPERTIES Answered Released
CHECK_DEADLOCK FALSE
