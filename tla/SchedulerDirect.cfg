SPECIFICATION Spec
CONSTANTS
    w1 = w1
    w2 = w2
    c1 = c1
    c2 = c2
    Nobody = Nobody
    Sessions = {1, 2}
    Workers = {w1, w2}
    Callers = {c1, c2}
    ModelOf <- OneLoadedModel
    ContextLength = 2
    UseStagedDecode = TRUE
    Submissions <- FailingBatches
    DirectCalls <- DirectPasses
    MayThrow = FALSE
    MaxBatches = 2
    MaxDirectCalls = 2
    MaxThreads = 6
    NumThreads = 2
SYMMETRY ThreadsSym
CHECK_DEADLOCK FALSE
INVARIANTS
    NoCircularWait
PROPERTIES
    ContextRespected
    FailedUntilReset
