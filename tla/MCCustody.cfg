SPECIFICATION Spec
CONSTANTS
    a = a
    b = b
    c = c
    m1 = m1
    m2 = m2
    NoPeer = NoPeer
    Peer = {a, b, c}
    Mig = {m1}
    Home <- OneWay
    Rerouting = TRUE
    MaxReroutes = 2
    MaxRestarts = 1
INVARIANTS
    AtMostOnePlace
    NoSilentLoss
    AckMeansDelivered
    OnlyTheCurrentAttempt
    NoRetryInAChain
CONSTRAINT RestartsSoon
SYMMETRY PeerSymmetry
