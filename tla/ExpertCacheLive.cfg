SPECIFICATION FairSpec
CONSTANTS
    k1 = k1
    k2 = k2
    k3 = k3
    c1 = c1
    c2 = c2
    w1 = w1
    w2 = w2
    Nobody = Nobody
    NoEntry = NoEntry
    NoCall = NoCall
    Key = {k1, k2}
    Copy = {1}
    Worker = {w1}
    Client = {c1, c2}
    Calls <- SleepCalls
    Size <- UnitSize
    CacheSize = 1
    NumGroups = 1
    GroupOf <- OneGroup
    Flags = {}
    Adjacent = {}
    Unreadable = {k2}
    DeviceKeys = {}
    MaxBatch = 8
PROPERTIES
    AwaitedReadsSettle
    CallsReturn
    StopDrains
