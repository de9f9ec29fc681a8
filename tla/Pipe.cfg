SPECIFICATION FairSpec
CONSTANTS
    p1 = p1
    p2 = p2
    Proc = {p1, p2}
    First = p1
    Size = 2
    MaxCount = 3
    MaxBytes = 5
    MaxFds = 2
INVARIANTS InOrder SleeperNotFreed NoLostWakeup RefcountsExact
PROPERTIES IsByteStream SleepersSeeEnd
CHECK_DEADLOCK FALSE
