SPECIFICATION DashboardSpec
CONSTANTS
    None = None
    Mode <- MCMode
    Transactions <- MCTransactions
    Vhosts = {"site"}
    DefaultThreshold = 5
    BucketSeconds = 2
    BucketCount = 2
    RetentionSeconds = 4
    FirstTick = 17
    LastTick = 25
    MaxEvents = 2
CHECK_DEADLOCK FALSE
INVARIANTS
    ChartsAgree
    VerdictIsTrue
