SPECIFICATION Spec
CONSTANTS
    c1 = c1
    c2 = c2
    Clients <- MCClients
    Uploader = c1
    READ_RETRIES = 3
    UPLOAD_RETRIES = 2
    MaxTokens = 2
    MaxResets = 1
INVARIANTS
    TypeOK
    FailsOnlyOnTrouble
PROPERTY EveryCallEnds
CHECK_DEADLOCK FALSE
