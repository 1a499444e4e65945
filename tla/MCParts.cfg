SPECIFICATION PartsSpec
CONSTANTS
    a = a
    b = b
    Peer = {a, b}
    SaveFaults = {"write"}
    MaxSlots = 3
    MaxConns = 2
    Preferences <- Asked
    Kinds = {"hole", "offline", "here"}
    MaxWidth = 3
    MaxHeight = 2
    FixedLimit = 3
    Hysteresis = 1
    MinLimit = 1
    MaxLimit = 2
    MinSamples = 2
    Window = 1
    Budgets = {1, 2}
    QueueMax = 1
    MaxExtra = 1
    Proc = {1, 2, 3}
    OneBreaks = TRUE
    MaxGames = 3
    MaxKills = 2
    Root = {"r1", "r2"}
    Together = 1
    MaxIdentities = 2
    MaxCredentials = 2
    MaxPerAddress = 1
    StoreFaults = {"write", "sync"}
    MaxMishaps = 3
INVARIANTS
    MapSound
    AddressesRetired
    ExhaustedMeansAll
    OneWalk
    GateHolds
    RecordsAreTrue
    OneIdentityEach
PROPERTIES
    MapKept
    LiveKeepsItsSlot
SYMMETRY PeerSymmetry
CHECK_DEADLOCK FALSE
