SPECIFICATION Spec
CONSTANTS
    a = a
    b = b
    Nodes = {a}
    Peers <- PeersNone
    NumChains = 2
    Keep <- KeepFastTwo
    Backward = FALSE
    NoHash = NoHash
    MaxTime = 1
    MaxBirths = 5
PROPERTIES
    PruningKeepsBounds
CHECK_DEADLOCK FALSE
