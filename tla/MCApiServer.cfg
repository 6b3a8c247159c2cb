SPECIFICATION ApiSpec
CONSTANTS
    c1 = c1
    c2 = c2
    visit = visit
    a1 = a1
    a2 = a2
    token = token
    wrong = wrong
    ApiToken = token
    OtherTokens = {wrong}
    Calls <- MCCalls
    Addresses = {a1, a2}
    Dongles = {a1}
    CONCURRENCY = 1
    Kinds <- MCKinds
    Allowlists <- MCAllowlists
    Backends <- MCBackends
INVARIANTS
    TypeOK
    FlagIsTheSweep
    TrafficBounded
    OnlyTokenHoldersAct
    ReadableWasAllowed
    VerdictIsOrderless
PROPERTIES
    EveryRequestEnds
    ImplementsSweeps
CHECK_DEADLOCK FALSE
