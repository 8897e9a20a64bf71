SPECIFICATION Spec
CONSTANTS
    c1 = c1
    c2 = c2
    c3 = c3
    c4 = c4
    d1 = d1
    d2 = d2
    l1 = l1
    l2 = l2
    None = None
    Devices <- TwoDevices
    Links <- TwoLinks
    Calls <- TwoCalls
    Scenarios <- Forced
    MaxFaults = 0
INVARIANT NextRefreshFails
CHECK_DEADLOCK FALSE
