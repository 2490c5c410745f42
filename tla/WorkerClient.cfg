SPECIFICATION Spec
CONSTANTS
    Token = {1, 2}
    Conversations <- Talk
    Ids = {1, 2}
    AnyId = AnyId
    ContextLimit = 4
    MaximumNew = 2
    NoRequest = NoRequest
    MaximumCalls = 2
    MaximumInterrupts = 1
INVARIANTS
    InStep
    ConversationIsExact
    CancelHitsItsTarget
CHECK_DEADLOCK FALSE
PROPERTIES
    CallsEnd
