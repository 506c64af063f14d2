SPECIFICATION LoopSpec
CONSTANTS
    d1 = d1
    d2 = d2
    WorkDir = {d1, d2}
    Identity = {i1}
    DirOf <- MCDirOf
    Session = {s1, s2}
    Hold = {h1}
    MaxSessions = 1
    None = None
INVARIANTS
    PoolConsistent
PROPERTIES
    HoldOutlivesSession
    PoolEnds
CHECK_DEADLOCK FALSE
