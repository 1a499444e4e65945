SPECIFICATION LinkedSpec
CONSTANTS
    a = a
    b = b
    c = c
    m1 = m1
    m2 = m2
    NoPeer = NoPeer
    Peer = {a, b}
    Mig = {m1, m2}
    Home <- Crossing
    Rerouting = TRUE
    MaxReroutes = 0
    MaxRestarts = 0
PROPERTIES
    SentResolves
