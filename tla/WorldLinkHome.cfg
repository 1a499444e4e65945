SPECIFICATION Spec
CONSTANTS
    Org = {1}
    MaxTrips = 2
    Faults = {"crash"}
    MaxFaults = 1
PROPERTY HomecomersStay
