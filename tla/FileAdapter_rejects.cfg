SPECIFICATION Spec
CONSTANTS
    good = good
    better = better
    mismatch = mismatch
    rejects = rejects
    None = None
    MaxName = 2
    Contents <- MCContents
    Sound <- MCSound
    Size <- MCSize
    Rejected <- MCRejected
    RejectLimit = 3
    Feeds <- MCFeeds
    MaxArrivals = 3
    MaxFaults = 2
    MaxSecond = 2
CHECK_DEADLOCK FALSE
INVARIANT RejectsAreRecoverable
