SPECIFICATION Spec
CONSTANTS
    Dir <- MCDir
    Root = "/"
    Parent <- MCParent
    Blank <- MCBlank
    Client = {c1, c2}
    MaxPuts = 2
    None = None
    Initial <- MCInitial
    Configs <- SafetyConfigs
SYMMETRY Symmetry
INVARIANTS
    CallsAreOwed
    PutsAreNotLost
    DirtyIsKnownAbove
    SaveIsDurable
    SavedTreeLoads
PROPERTIES
    NoRollback
CHECK_DEADLOCK FALSE
