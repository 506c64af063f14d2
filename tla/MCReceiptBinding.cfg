SPECIFICATION FairSpec
CONSTANTS
    main = main
    Workspace = {main}
    BindingId = {b1, b2}
    BindAuthority <- TwoAuthorities
    Inventory <- OneInventory
    Admission = {a1}
    Entry = {e1}
    MaxSocket = 1
    MaxBindings = 2
    Poller = Poller
    Missing = Missing
    Failed = Failed
    None = None
INVARIANTS
    ReceiptsAgree
PROPERTIES
    ProofsMoveForward
    
CHECK_DEADLOCK FALSE
