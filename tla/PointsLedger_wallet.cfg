SPECIFICATION Spec
CONSTANTS
    c1 = c1
    v1 = v1
    v2 = v2
    k1 = k1
    k2 = k2
    r1 = r1
    r2 = r2
    r3 = r3
    NoKey = NoKey
    Customers <- OneCustomer
    Visits <- TwoVisits
    Refs <- TwoRefs
    Owner <- OwnedByC1
    VisitPoints <- PointsPerVisit
    Requests <- ThreeRequests
    Operations <- WalletCalls
    Openings = {0, 2}
SYMMETRY RequestSymmetry
INVARIANT DriftNeedsOverlap
INVARIANT DebtIsDeducted
INVARIANT CreditedAtMostOnce
INVARIANT BackfillComplete
