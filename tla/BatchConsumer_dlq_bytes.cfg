SPECIFICATION Spec
CONSTANTS
    p1 = p1
    p2 = p2
    Partitions <- MCPartitions
    LogLen = 2
    Contents <- MCContents
    BatchSize = 2
    MaxLives = 2
    MaxStoreFaults = 1
    MaxBrokerFaults = 1
CHECK_DEADLOCK FALSE
INVARIANT DlqHoldsOriginalBytes
