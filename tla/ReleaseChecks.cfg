SPECIFICATION ChecksSpec
CONSTANTS
    Topics <- MCTopics
    Manifests = "batches"
    Custody = "custody"
    CollectionOf <- MCCollectionOf
    Curated = "positions"
    Registry <- MCRegistry
    Pairs = {"known"}
    Resolvable = {"known"}
    MaxAge <- MCMaxAge
    CycleAge = 1
    MaxTime = 3
    MaxDead = 1
    MaxFaults = 1
INVARIANT PassIsEarned
INVARIANT AlarmIsEarned
