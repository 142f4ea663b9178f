SPECIFICATION Spec
CONSTANTS
    a = a
    b = b
    Nodes = {a, b}
    Peers <- PeersAB
    NumChains = 1
    Keep <- KeepTwo
    Backward = TRUE
    NoHash = NoHash
    MaxTime = 1
    MaxBirths = 4
INVARIANTS
    TypeOK
    DagInv
    Causal
    BackEdgesTruthful
    RingsContiguous
    PinnedOrPending
    ChainMonotone
PROPERTIES
    PendingUntilPinned
    
CHECK_DEADLOCK FALSE
