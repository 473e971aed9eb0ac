SPECIFICATION FairSpec
CONSTANTS
    MaxKey = 2
    MaxVersion = 2
    MaxName = 2
    Extracts <- MCExtracts
    MaxDrops = 3
    MaxFaults = 1
INVARIANT MergeIsDifference
INVARIANT IndexIsTopic
PROPERTY RemovedOnlyWhenAbsent
PROPERTY EventuallyTaken
CHECK_DEADLOCK FALSE
