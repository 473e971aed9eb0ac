SPECIFICATION PollerSpec
CONSTANTS
    r1 = r1
    r2 = r2
    Refs <- MCRefs
    Place <- MCPlace
    PageSize = 1
    Overlap = 1
    Lag = 0
    MaxAttempts = 1
    MaxTime = 3
    MaxFaults = 0
    MaxCrashes = 0
    MaxBackfills = 0
INVARIANT NothingSkipped
CHECK_DEADLOCK FALSE
