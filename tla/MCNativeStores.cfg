SPECIFICATION NativeSpec
CONSTANTS
    NoFile = NoFile
    Publishers = {p1, p2}
    Reader = r
    Facts = {f1, f2}
    MaxGeneration = 2
    MaxOpen = 4
    MaxInvFault = 2
    Managers = {m1, m2}
    MaxTemp = 2
    MaxWrites = 3
    MaxCtlFault = 3
    Installers = {s1, s2}
    Chunks = 1
    MaxSvcOpen = 2
    MaxPublish = 2
    MaxSvcFault = 2
    Services = {a, b}
    Applications = {app}
    Shawls = {shawl}
    Nothing = Nothing
    MaxInstall = 3
    MaxDirs = 2
    MaxArtFault = 1
SYMMETRY Symmetry
INVARIANTS
    InventoryNeverRollsBack
    ControlKeepsTold
    ServiceStoreDurable
    
    CollectionRecoverable
CHECK_DEADLOCK FALSE
