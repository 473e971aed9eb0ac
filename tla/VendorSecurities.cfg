SPECIFICATION Spec
CONSTANTS
    k1 = k1
    k2 = k2
    Keys <- MCKeys
    MaxStamp = 2
    LogLen = 3
    Logs <- MCLogs
    BatchSize = 2
INVARIANT RawKeepsUp
INVARIANT CuratedKeepsUp
INVARIANT UndatedNeverDisplaces
INVARIANT TiersAgree
CHECK_DEADLOCK FALSE
