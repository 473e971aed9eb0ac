SPECIFICATION ReconcileSpec
CONSTANTS
    Feed <- MCFeed
    Accounts <- MCAccounts
    Master <- MCMaster
    EmbeddedCusip <- MCEmbedded
    NoId = "none"
    Late <- MCLate
    BatchSize = 2
    MaxCrashes = 1
    MaxCalls = 1
INVARIANT AcknowledgedIsCurated
INVARIANT CorrectionWins
INVARIANT NoFalseAlarm
INVARIANT SameReason
CHECK_DEADLOCK FALSE
