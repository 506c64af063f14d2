SPECIFICATION Spec
CONSTANTS
    Desc = {d1, d2}
    MaxBind = 3
    MaxGen = 2
    MaxRoute = 2
    MaxQueue = 2
INVARIANTS
    RepublishedFrameAccepted
CHECK_DEADLOCK FALSE
