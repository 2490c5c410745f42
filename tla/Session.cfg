SPECIFICATION Spec
CONSTANTS
    Token = {1, 2}
    Retained = 3
    Layers = 2
    Models <- AllModels
    Greedy <- Likely
    Prompts <- ShortAndChunked
    ContextLimit = 5
    ChunkSize = 2
    BlockSize = 3
    MaximumNew = 5
    Careless = FALSE
    NoPosition = NoPosition
INVARIANTS
    CachesMatchPosition
    DraftInStep
PROPERTIES
    SpeculationIsExact
    FailedUntilReset
    GenerateReturns
CHECK_DEADLOCK FALSE
