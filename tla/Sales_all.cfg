SPECIFICATION Spec
CONSTANTS
    e1 = e1
    e2 = e2
    e3 = e3
    e4 = e4
    p1 = p1
    t1 = t1
    t2 = t2
    Nobody = Nobody
    Walkin = Walkin
    People <- OnePerson
    Trades <- TwoTrades
    Calls <- FourCalls
    Scenarios <- Mixed
    PerDay = 2
    Milestone = 2
    MaxFaults = 2
    MaxDays = 1
PROPERTY TradesAreInbox
INVARIANT LostSaleExplained
INVARIANT DailyLimit
INVARIANT MilestoneOnce
PROPERTY CheckInsSpaced
CHECK_DEADLOCK FALSE
