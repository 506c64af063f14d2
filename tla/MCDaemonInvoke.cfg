SPECIFICATION Spec
CONSTANTS
    MaxConn = 1
    Request = {r1, r2}
    Invocation = {i1, i2}
    CancelId = {k1}
    MaxSession = 1
    MaxInFlight = 2
    MaxRecords = 2
    Kinds = {"control"}
    Unmanaged = FALSE
    Expiry <- FullExpiry
    MaxGateOps = 0
    None = None
SYMMETRY Symmetry
INVARIANTS
    CancellationHonoured
    LeaseKept
PROPERTIES
    NoStartAfterClose
CHECK_DEADLOCK FALSE
