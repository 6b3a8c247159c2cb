SPECIFICATION Spec
CONSTANTS
    a1 = a1
    a2 = a2
    o1 = o1
    Ips <- MCIps
    Origins <- MCOrigins
    MaxTokens = 3
    MaxCrashes = 2
INVARIANTS
    TypeOK
    ConfigNeverTorn
    TokenIsForever
    AnsweredSurvives
PROPERTY ImplementsDurable
CHECK_DEADLOCK FALSE
