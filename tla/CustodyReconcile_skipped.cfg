SPECIFICATION ReconcileSpec
CONSTANTS
    Feed <- MCFeedMalformed
    Accounts <- MCAccounts
    Master <- MCMaster
    EmbeddedCusip <- MCEmbedded
    NoId = "none"
    Late <- MCLate
    BatchSize = 2
    MaxCrashes = 1
    MaxCalls = 1
CHECK_DEADLOCK FALSE
INVARIANT SkippedIsReported
