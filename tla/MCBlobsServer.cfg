SPECIFICATION FairSpec
CONSTANTS
    p1 = p1
    p2 = p2
    p3 = p3
    b1 = b1
    b2 = b2
    s1 = s1
    s2 = s2
    s3 = s3
    Blob = {b1, b2}
    Peer = {p1, p2, p3}
    StoreName = {s1, s2, s3}
    Store = {s1, s2}
    Wildcard = Wildcard
    Chunks = 2
    None = None
    Configs <- MCConfigs
INVARIANTS
    AckedIsPinned
    AckedIsStoredIfAlone
    NoGarbage
PROPERTIES
    AckedDownloadsWhole
    CallsReturn
