SPECIFICATION Spec
CONSTANTS
    n1 = n1
    n2 = n2
    Replica = {n1, n2}
    Name = {1, 2, 3, 4}
    First <- MCFirst
    Buckets = {0, 1}
    Bucket <- MCBucket
    MaxShardLevel = 1
    PromotionThreshold = 1
    None = None
    Configs <- MCConfigs
SYMMETRY MCSymmetry
INVARIANTS
    ReplicasAgree
    LikeAFlatDir
    PagesAreComplete
PROPERTY SyncKeepsNewest
CHECK_DEADLOCK FALSE
