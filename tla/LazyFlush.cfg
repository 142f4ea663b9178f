SPECIFICATION NodeSpec
CONSTANTS
    Me = 1
    PubKey <- MCPubKey
    Peers = {2}
    Ids = {1, 2}
    Chains = {0, 1}
    Keeps = {1}
    Keep <- MCKeep
    PeerTips <- MCPeerTips
    Validities <- MCValidities
    MaxTimed = 2
    MaxBirths = 4
    SnapshotVersion = 3
    EventRecs <- MCEventRecs
    ClockRecs <- MCClockRecs
    NbrRecs <- MCNbrRecs
    Tables <- MCTables
    Encode <- MCEncode
    Decode <- MCDecode
    Profiles <- MCProfiles
    Readable <- ReadableAs
    MapSize = 2
    MaxMapSize = 3
    Slack = 1
    MaxFaults = 1
    NoCall = NoCall
PROPERTY LossWindowBounded
