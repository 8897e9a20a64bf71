SPECIFICATION Spec
CONSTANTS
    c1 = c1
    c2 = c2
    c3 = c3
    k1 = k1
    k2 = k2
    g1 = g1
    w1 = w1
    w2 = w2
    r1 = r1
    r2 = r2
    r3 = r3
    Grantees <- OneGrantee
    Nobody = Nobody
    Nothing = Nothing
    Customers <- ThreeCustomers
    Coupons <- TwoCoupons
    Cards <- OneCard
    Rewards <- TwoRewards
    Calls <- ThreeCalls
    Operations <- CouponCalls
    RewardKind <- KindOfReward
    Stock <- OneEach
    Cashback <- CashbackOfOne
    Face <- FaceOfTwo
    Price = 1
SYMMETRY CallSymmetry
INVARIANT CouponSpentOnce
