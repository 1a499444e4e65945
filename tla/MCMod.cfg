SPECIFICATION ModParts
CONSTANTS
    Org = {1}
    MaxTrips = 3
    Faults = {"drop", "load", "crash"}
    MaxFaults = 1
    World = {"A", "B"}
    Followed = {"A"}
    SaveKeep = 1
    MaxDeferrals = 1
    Hosts = {{"shared"}, {"short"}}
    MaxLost = 1
    MaxQueuedFrames = 4
    MaxDeliveries = 1
    MaxCloses = 2
    MaxLoads = 2
INVARIANTS
    OneCopyKept
    SavesAreSound
    FirstIsItsOwn
PROPERTIES
    DestroyedOnCustody
    OffersResolve
    DeferredIsSaved
    ModSettles
CHECK_DEADLOCK FALSE
