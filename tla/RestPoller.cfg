SPECIFICATION FairPollerSpec
CONSTANTS
    r1 = r1
    r2 = r2
    Refs <- MCRefs
    Place <- MCPlace
    PageSize = 1
    Overlap = 1
    Lag = 1
    MaxAttempts = 2
    MaxTime = 3
    MaxFaults = 1
    MaxCrashes = 1
    MaxBackfills = 1
INVARIANT WatermarkCovers
PROPERTY EventuallyDelivered
CHECK_DEADLOCK FALSE
