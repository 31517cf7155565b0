SPECIFICATION Spec
CONSTANTS
    k = k
    Key = {k}
    Revision = {1, 2}
    Hash = {1, 2}
    None = None
    Configs <- MCConfigs
    Client = {c1, c2}
    MaxCalls = 2
SYMMETRY Symmetry
INVARIANTS
    EntryIsBest
    Converged
    AckedIsReplicated
PROPERTY GetSeesAcked
CHECK_DEADLOCK FALSE
