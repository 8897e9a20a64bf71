SPECIFICATION Spec
CONSTANTS
    m1 = m1
    m2 = m2
    c1 = c1
    c2 = c2
    w1 = w1
    w2 = w2
    NoMsg = NoMsg
    Messages <- TwoMessages
    Customers <- OneCustomer
    Workers <- TwoWorkers
    Recipient <- ToC1
    Promo <- OneMessage
    Staff <- Nobody
    Movers <- OneCustomer
    AckKinds <- NoAcks
    Plan <- Unlimited
    WarmupCap = 1
    Attempts = 2
    MaxMishaps = 0
SYMMETRY WorkerSymmetry
INVARIANT OptOutStopsQueue
