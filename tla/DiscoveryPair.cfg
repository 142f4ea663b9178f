SPECIFICATION RoutedSpec
CONSTANTS
    a = a
    b = b
    c = c
    Nodes = {a, b}
    Peers <- PeersMutual
    Script <- ScriptPair
    NumChains = 1
    Keep <- KeepTwo
    Backward = FALSE
    NoHash = NoHash
    MaxTime = 0
    MaxBirths = 6
    HopLimit = 2
    ForwardCap = 1
    MaxStarts = 1
    Ranges <- RangesOne
    Setups <- SetupsOne
    Hints <- HintsNone
    MaxLearned = 0
ACTION_CONSTRAINT
    Scripted
CHECK_DEADLOCK FALSE
INVARIANTS
    DiscInv
    HonestChainsVerify
