SPECIFICATION Spec
CONSTANTS
    w1 = w1
    w2 = w2
    Workers <- MCWorkers
    MAX_FINISHED_JOBS = 1
    Size = 1
    MaxJobs = 4
    MaxCalls = 2
    MaxLeft = 1
INVARIANTS
    TypeOK
    OrderMatchesRecords
    HeldExactlyOnce
    OneUploadAtATime
    RealTimeFIFO
    DoneIsComplete
PROPERTIES
    RetentionIsExact
    ImplementsService
CHECK_DEADLOCK FALSE
