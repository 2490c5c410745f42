SPECIFICATION Spec
CONSTANTS
    k1 = k1
    k2 = k2
    k3 = k3
    c1 = c1
    c2 = c2
    w1 = w1
    w2 = w2
    Nobody = Nobody
    NoEntry = NoEntry
    NoCall = NoCall
    Key = {k1, k2, k3}
    Copy = {1}
    Worker = {w1, w2}
    Client = {c1}
    Calls <- ReadAheadCalls
    Size <- UnitSize
    CacheSize = 2
    NumGroups = 3
    GroupOf <- LayerOf
    Flags = {"Coalescing", "ForwardAware"}
    Adjacent <- FirstTwoAdjacent
    Unreadable = {k2}
    DeviceKeys = {k2}
    MaxBatch = 8
INVARIANTS
    EveryReadHasAnOwner
PROPERTIES
    DemandFailsOnlyOnRead
    PredictionsEvictedLast
SYMMETRY Threads
