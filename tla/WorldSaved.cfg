SPECIFICATION WorldSaveSpec
CONSTANTS
    World = {"A"}
    Followed = {"A"}
    SaveKeep = 1
    MaxDeferrals = 1
    Hosts = {{}}
    MaxLost = 1
INVARIANT SavedIsLoaded
CHECK_DEADLOCK FALSE
