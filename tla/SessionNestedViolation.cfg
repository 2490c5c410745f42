SPECIFICATION Spec
CONSTANTS
    Token = {1, 2}
    Retained = 3
    Layers = 2
    Models <- AllModels
    Greedy <- Likely
    Prompts <- ShortAndChunked
    ContextLimit = 6
    ChunkSize = 2
    BlockSize = 2
    MaximumNew = 5
    Careless = TRUE
    NoPosition = NoPosition
PROPERTIES
    FailedUntilReset
CHECK_DEADLOCK FALSE
