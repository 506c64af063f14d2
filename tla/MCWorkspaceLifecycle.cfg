\* Two operations at once over two generations, three started in all; two
\* binds; two step failures, crashes or power losses.
SPECIFICATION Spec
CONSTANTS
    Tasks = {t1, t2}
    BootTask = t1
    Contents = {c1}
    Staged = staged
    Shipped = FALSE
    MaxGen = 2
    MaxEpoch = 2
    MaxOps = 3
    MaxFault = 2
INVARIANTS
    TerminalBars
    InvokeRoutesToPointer
    
    NoOrphanLease
CHECK_DEADLOCK FALSE
