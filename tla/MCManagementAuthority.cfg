SPECIFICATION AuthoritySpec
CONSTANTS
    Keys = {k1, k2}
    Ops = {"tokens-attest", "mapping-rollback"}
    Genesis = genesis
    NoTx = noTx
    MaxSeq = 3
    MaxFault = 2
    Inputs = {a, b}
    Nobody = nobody
    MaxGenFault = 2
INVARIANTS
    AuthorityRecorded
    SuffixReplayable
PROPERTIES
    FrozenAfterClose
    AuthoritySettles
CHECK_DEADLOCK FALSE
