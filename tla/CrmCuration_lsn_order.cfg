SPECIFICATION Spec
CONSTANTS
    c1 = c1
    c2 = c2
    a1 = a1
    None = None
    Clients <- MCClients
    Accounts <- MCAccounts
    MaxLsn = 5
    Histories <- MCHistories
    Rank <- MCDigitRank
    BatchSize = 2
    Paces <- MCSinkFirst
    MaxCrashes = 1
INVARIANT NewestClientIsEmbedded
CHECK_DEADLOCK FALSE
