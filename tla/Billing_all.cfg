SPECIFICATION FairSpec
CONSTANTS
    e1 = e1
    e2 = e2
    e3 = e3
    f0 = f0
    s1 = s1
    g2 = g2
    v1 = v1
    v2 = v2
    v3 = v3
    NoTier = NoTier
    Free = f0
    Tiers <- ThreeTiers
    Events <- ThreeEvents
    Foreign <- NoTenant
    Calls <- ThreeCalls
    Scenarios <- Mixed
    MaxFaults = 1
INVARIANT MirrorHolds
INVARIANT PauseExplained
PROPERTY EventsAreInbox
PROPERTY WindowCloses
CHECK_DEADLOCK FALSE
