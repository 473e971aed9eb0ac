SPECIFICATION Spec
CONSTANTS
    c1 = c1
    c2 = c2
    a1 = a1
    None = None
    Clients <- MCClients
    Accounts <- MCAccounts
    MaxLsn = 5
    Histories <- MCHistories
    Rank <- MCRank
    BatchSize = 2
    Paces <- MCAnyPace
    MaxCrashes = 1
INVARIANT ConvergesInAnyOrder
CHECK_DEADLOCK FALSE
