SPECIFICATION WavesSpec
CONSTANTS
    Expert = {1, 2, 3}
    Device = {1, 2}
    NoDevice = NoDevice
    Unplaced = Unplaced
    GroupDevice <- OneLayer
    FallbackOf <- Hash
    SupportedSets <- Supported
    HostSlots = 2
    MaximumDemandWave = 2
INVARIANTS
    ComputedOnce
    LeasesOutliveWork
    WaitsHoldOnlyTheWave
PROPERTIES
    ContractHonoured
    WavesArePinned
    Returns
CHECK_DEADLOCK FALSE
