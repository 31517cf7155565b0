SPECIFICATION FairSpec
CONSTANTS
    Dir <- MCDir
    Root = "/"
    Parent <- MCParent
    Blank <- MCBlank
    Client = {c1, c2}
    MaxPuts = 2
    None = None
    Initial <- MCInitial
    Configs <- LivenessConfigs
PROPERTIES
    AutosavePersists
    CallsReturn
CHECK_DEADLOCK FALSE
