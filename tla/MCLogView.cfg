SPECIFICATION Spec
CONSTANTS
    p1 = p1
    p2 = p2
    Polls <- MCPolls
    CAPACITY = 2
    PageLength = 2
    MaxEntries = 4
    MaxPushes = 2
    MaxFailures = 1
    MaxOpenings = 1
INVARIANTS
    TypeOK
    ShownOnce
    MissedOnlyIfOverrun
PROPERTIES
    KeptIsShown
CHECK_DEADLOCK FALSE
