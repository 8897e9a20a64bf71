SPECIFICATION FairSpec
CONSTANTS
    e1 = e1
    e2 = e2
    e3 = e3
    e4 = e4
    Customers <- TwoCustomers
    Chunk = 1
    Attempts = 2
    Quota = 3
    MaxDeaths = 1
    Calls <- FourCalls
    Scenarios <- Mixed
INVARIANT LaunchedAllQueued
INVARIANT RepeatNeedsExcuse
INVARIANT NeverUnderreports
PROPERTY ScheduledGoesOut
CHECK_DEADLOCK FALSE
