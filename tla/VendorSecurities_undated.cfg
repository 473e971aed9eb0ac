SPECIFICATION Spec
CONSTANTS
    k1 = k1
    k2 = k2
    Keys <- MCKeys
    MaxStamp = 2
    LogLen = 3
    Logs <- MCUpdates
    BatchSize = 2
CHECK_DEADLOCK FALSE
INVARIANT RawIsNewest
