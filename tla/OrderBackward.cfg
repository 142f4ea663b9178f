SPECIFICATION DiscSpec
CONSTANTS
    a = a
    b = b
    c = c
    Nodes = {a}
    Peers <- PeersNone
    NumChains = 2
    Keep <- KeepFastOne
    Backward = TRUE
    Script <- NoScript
    NoHash = NoHash
    MaxTime = 2
    MaxBirths = 6
    HopLimit = 2
    ForwardCap = 1
    MaxStarts = 2
CHECK_DEADLOCK FALSE
INVARIANTS OrderSoundDespiteClock
