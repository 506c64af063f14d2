SPECIFICATION Spec
CONSTANTS
    w1 = w1
    w2 = w2
    Workspace = {w1, w2}
    Candidate <- MCCandidate
    Entry = {e1, e2}
    Lease = {l1, l2, l3}
    MaxWorkspaces = 2
    MaxActiveWorkspaces = 1
    None = None
SYMMETRY Symmetry
INVARIANTS
    LeasesAccounted
    ExclusiveAlone
PROPERTIES
    StaleForever
    
    ImplementsFence
