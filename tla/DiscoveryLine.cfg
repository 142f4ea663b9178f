SPECIFICATION RoutedSpec
CONSTANTS
    a = a
    b = b
    c = c
    Nodes = {a, b, c}
    Peers <- PeersLine
    Script <- ScriptLine
    NumChains = 1
    Keep <- KeepFour
    Backward = FALSE
    NoHash = NoHash
    MaxTime = 1
    MaxBirths = 10
    HopLimit = 2
    ForwardCap = 1
    MaxStarts = 1
    Ranges <- MCRanges
    Setups <- MCSetups
    Hints <- MCHints
    MaxLearned = 1
ACTION_CONSTRAINTS
    Scripted
    Varied
CHECK_DEADLOCK FALSE
INVARIANTS
    ProvedEnclose
    HonestChainsVerify
    FloodBounded
    HopsWereLinked
PROPERTIES
    ImplementsDiscovery
