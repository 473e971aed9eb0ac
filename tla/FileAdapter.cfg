SPECIFICATION FairSpec
CONSTANTS
    good = good
    better = better
    mismatch = mismatch
    rejects = rejects
    None = None
    MaxName = 2
    Contents <- MCContents
    Sound <- MCSound
    Size <- MCSize
    Rejected <- MCRejected
    RejectLimit = 2
    Feeds <- MCFeeds
    MaxArrivals = 3
    MaxFaults = 2
    MaxSecond = 2
INVARIANT ManifestClosesTheCycle
INVARIANT FiledIsOnTheBus
INVARIANT OneProductionPerFault
INVARIANT EvidenceIsKept
PROPERTY EveryDeliverySettles
CHECK_DEADLOCK FALSE
