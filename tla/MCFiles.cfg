SPECIFICATION FilesSpec
CONSTANTS
    n1 = n1
    n2 = n2
    Ids = {n1, n2}
    FaultSets <- Disks
    MaxLines <- Lines
    PassFaults = {"read"}
    MetricsWindow = 1
    LastDay = 4
    MetricsKills = 1
    Measured = {"g1", "g2"}
    BrainDisks <- WholeAndNot
    MaxBuckets = 2
    MaxBrainLines = 3
    MaxBrainKills = 2
    Key <- Keys
    Span = 3
    MaxTime = 10
    Receiver = {n1, n2}
    HopWindow = 0
    CorrelationWindow = 0
    ScanEvery = 2
    MaxOffers = 2
    MaxRepeats = 1
    Prints <- Colliding
    MinSlots = 4
INVARIANTS
    CrashSafe
    LogMirrorsMemory
    EveryDayOnce
    MeasurementsKept
    HopsAreDeliveries
    ShardIsSet
PROPERTY RecordedOnce
SYMMETRY FilesSymmetry
CHECK_DEADLOCK FALSE
