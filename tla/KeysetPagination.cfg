SPECIFICATION FairSpec
CONSTANTS
    Null = Null
    None = None
    Store <- MCStore
    DayLength <- MCDayLength
    Rows <- MCRows
    Collection <- MCCollection
    Fields <- MCFields
    Value <- MCValue
    TypeOf <- MCTypeOf
    Statuses <- MCStatuses
    Lists <- MCLists
    Query <- MCQuery
    Document <- MCDocument
    Asked <- MCAsked
    Clients <- MCClients
    MaxLimit = 2
    Limits <- MCLimits
    MaxWrites = 2
INVARIANT OneOrder
INVARIANT Complete
INVARIANT WholeDays
PROPERTY WalksEnd
