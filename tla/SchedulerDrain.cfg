SPECIFICATION FairSpec
CONSTANTS
    w1 = w1
    w2 = w2
    c1 = c1
    c2 = c2
    Nobody = Nobody
    Sessions = {1, 2}
    Workers = {w1, w2}
    Callers = {c1}
    ModelOf <- OneLoadedModel
    ContextLength = 0
    UseStagedDecode = TRUE
    Submissions <- OverlapBatches
    DirectCalls <- NoCalls
    MayThrow = FALSE
    MaxBatches = 3
    MaxDirectCalls = 0
    MaxThreads = 6
    NumThreads = 2
CHECK_DEADLOCK FALSE
PROPERTIES
    DestructorReturns
    AcceptedAnswered
