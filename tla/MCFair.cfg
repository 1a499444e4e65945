SPECIFICATION FairParts
CONSTANTS
    a = a
    b = b
    c = c
    m1 = m1
    m2 = m2
    NoPeer = NoPeer
    Peer = {a, b}
    Mig = {m1}
    Home <- OneWay
    Rerouting = TRUE
    MaxReroutes = 1
    MaxRestarts = 1
    FrameCeiling = 8
    ByteCeiling = 8
    LargeSizes = {1, 3}
    Backlog = 10
    MaxControl = 2
    MaxDelay = 1
    Modes = {"coalesce", "admin", "claims"}
    MaxChanges = 3
    Queue = 2
    MaxFrames = 2
    ControlBurst = 2
    MaxElsewhere = 2
INVARIANTS
    NeverShed
    WriterKeepsFaith
PROPERTIES
    SentResolves
    EveryExportEnds
    JourneysKept
    LinkDrains
    LastStateArrives
    WriterGetsOn
CHECK_DEADLOCK FALSE
