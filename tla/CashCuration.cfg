SPECIFICATION FairSpec
CONSTANTS
    N = 5
    Dates <- MCDates
    AmountOf <- MCAmountOf
    Closing <- MCClosing
    MaxDay = 3
    BatchSize = 3
    Paces <- MCPaces
    MaxCrashes = 2
    MaxReplays = 2
INVARIANT NoDoubleCount
INVARIANT Converges
INVARIANT ReplayRepairs
PROPERTY EventuallyCurated
CHECK_DEADLOCK FALSE
