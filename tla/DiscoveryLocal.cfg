SPECIFICATION RoutedSpec
CONSTANTS
    a = a
    b = b
    c = c
    Nodes = {a}
    Peers <- PeersNone
    NumChains = 2
    Keep <- KeepFastOne
    Backward = FALSE
    Script <- NoScript
    NoHash = NoHash
    MaxTime = 2
    MaxBirths = 6
    HopLimit = 2
    ForwardCap = 1
    MaxStarts = 2
    Ranges <- RangesOne
    Setups <- SetupsOne
    Hints <- HintsNone
    MaxLearned = 0
CHECK_DEADLOCK FALSE
INVARIANTS
    OrderSound
    NodeMonotone
    HonestChainsVerify
