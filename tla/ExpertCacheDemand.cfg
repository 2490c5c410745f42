SPECIFICATION Spec
CONSTANTS
    k1 = k1
    k2 = k2
    k3 = k3
    c1 = c1
    c2 = c2
    w1 = w1
    w2 = w2
    Nobody = Nobody
    NoEntry = NoEntry
    NoCall = NoCall
    Key = {k1, k2, k3}
    Copy = {1, 2}
    Worker = {w1}
    Client = {c1, c2}
    Calls <- DemandCalls
    Size <- MixedSize
    CacheSize = 2
    NumGroups = 2
    GroupOf <- TwoGroups
    Flags = {}
    Adjacent = {}
    Unreadable = {k1}
    DeviceKeys = {}
    MaxBatch = 8
INVARIANTS
    AccountingExact
    NoDanglingPointer
    GhostsExact
    PinnedFitsCache
PROPERTIES
    ExhaustedMeansBusy
SYMMETRY Threads
