SPECIFICATION Spec
CONSTANTS
    BlockLen = 1
    Configs <- MCConfigs
INVARIANTS
    BlobsAreWhole
    ImportsAreClean
    ReadsAreRight
    RefsAreStored
    
    AnsweredIsDurable
    CacheIsFresh
PROPERTY
    ImportEnds
CHECK_DEADLOCK FALSE
