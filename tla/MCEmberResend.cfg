SPECIFICATION Spec
CONSTANTS
    c1 = c1
    c2 = c2
    Clients <- MCClients
    Uploader = c1
    READ_RETRIES = 3
    UPLOAD_RETRIES = 2
    MaxTokens = 3
    MaxResets = 1
INVARIANT RepairedIsResent
CHECK_DEADLOCK FALSE
