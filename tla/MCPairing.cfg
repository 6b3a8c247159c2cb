SPECIFICATION Spec
CONSTANTS
    t1 = t1
    t2 = t2
    t3 = t3
    o1 = o1
    o2 = o2
    Tabs <- MCTabs
    Origins <- MCOrigins
    OriginOf <- MCOriginOf
    Paired = {}
    MaxRequests = 2
    MaxBannerPolls = 2
    MaxClicks = 2
SYMMETRY SameOrigin
INVARIANTS
    TypeOK
    ReleaseNeedsConsent
PROPERTIES
    ImplementsGrant
CHECK_DEADLOCK FALSE
