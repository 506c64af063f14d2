SPECIFICATION ServiceSpec
CONSTANTS
    man1 = man1
    man2 = man2
    Services = {"bot", "daemon"}
    Releases <- TwoReleases
    MaxTx = 2
    MaxRev = 4
    MaxCrash = 2
    AppReleases = {r1, r2}
    NoRelease = NoRelease
    MaxFault = 3
    MaxOpened = 3
INVARIANTS
    
    LifecycleAgrees

    
    
CHECK_DEADLOCK FALSE
