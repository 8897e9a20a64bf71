SPECIFICATION FairSpec
CONSTANTS
    c1 = c1
    v1 = v1
    v2 = v2
    k1 = k1
    k2 = k2
    r1 = r1
    r2 = r2
    r3 = r3
    NoKey = NoKey
    Customers <- OneCustomer
    Visits <- OneVisit
    Refs <- OneRef
    Owner <- OwnedByC1
    VisitPoints <- PointsPerVisit
    Requests <- ThreeRequests
    Operations <- LockCalls
    Openings = {0}
INVARIANT NobodyStuck
PROPERTY RequestsEnd
