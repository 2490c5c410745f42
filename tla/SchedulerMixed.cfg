SPECIFICATION Spec
CONSTANTS
    w1 = w1
    w2 = w2
    c1 = c1
    c2 = c2
    Nobody = Nobody
    Sessions = {1, 2, 3, 4}
    Workers = {w1, w2}
    Callers = {c1, c2}
    ModelOf <- TwoLoadedModels
    ContextLength = 0
    UseStagedDecode = TRUE
    Submissions <- MixedBatches
    DirectCalls <- NoCalls
    MayThrow = TRUE
    MaxBatches = 2
    MaxDirectCalls = 0
    MaxThreads = 3
    NumThreads = 2
SYMMETRY ThreadsSym
CHECK_DEADLOCK FALSE
INVARIANTS
    AnswersComplete
    BudgetExact
    ReservationExact
    WorkConserving
PROPERTIES
    SerialService
