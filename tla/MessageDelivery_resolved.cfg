SPECIFICATION FairSpec
CONSTANTS
    m1 = m1
    m2 = m2
    c1 = c1
    c2 = c2
    w1 = w1
    w2 = w2
    NoMsg = NoMsg
    Messages <- TwoMessages
    Customers <- TwoCustomers
    Workers <- OneWorker
    Recipient <- ToEach
    Promo <- TwoMessages
    Staff <- Nobody
    Movers <- Nobody
    AckKinds <- LateAcks
    Plan = 1
    WarmupCap = 1
    Attempts = 2
    MaxMishaps = 1
\* Every message may have ended and no customer be left to act.
CHECK_DEADLOCK FALSE
PROPERTY EventuallyAllResolved
INVARIANT DeliveriesBounded
