SPECIFICATION ArchiveSpec
CONSTANTS
    p = p
    q = q
    h1 = h1
    h2 = h2
    Troubles = {{}, {"sync"}}
    MaxRecords = 3
    MaxKills = 2
    Peer = {p, q}
    Genome = {h1, h2}
    Source <- CrossedFrom
    Holder <- CachedAt
    PerPeer = 1
    Budgets <- RunBudgets
    Hash = {h1, h2}
    MaxBundles = 2
    MaxAwaiting = 1
    Horizon = TRUE
    TierKills = 1
INVARIANTS
    
    QueueIsTrue
    StoredStays
PROPERTIES GapCloses
CHECK_DEADLOCK FALSE
