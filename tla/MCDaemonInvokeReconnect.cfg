SPECIFICATION HandlerSpec
CONSTANTS
    MaxConn = 2
    Request = {r1}
    Invocation = {i1, i2}
    CancelId = {}
    MaxSession = 1
    MaxInFlight = 2
    MaxRecords = 2
    Kinds = {"prompt"}
    Unmanaged = FALSE
    Expiry <- NoExpiry
    MaxGateOps = 1
    None = None
INVARIANTS
    AnswersReachRequest
    BudgetExact
PROPERTIES
    InvokesEnd
CHECK_DEADLOCK FALSE
