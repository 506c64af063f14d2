SPECIFICATION FairSpec
CONSTANTS
    MaxSock = 2
    Req = {1, 2}
    Gated = {1}
    MaxGate = 2
    MaxAnswer = 1
    MaxPending = 2
    MaxTombstones = 1
    MaxAttempts = 1
INVARIANTS
    RequestsAccounted
    HonestDaemonKept
PROPERTIES
    InvokeResolves
CHECK_DEADLOCK FALSE
