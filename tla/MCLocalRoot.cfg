SPECIFICATION Spec
CONSTANTS
    Client = {c1, c2}
    Name = {n1, n2}
    MaxState = 2
    MaxCrashes = 1
    None = None
SYMMETRY Symmetry
INVARIANTS
    RecordedIsStored
    AckedIsOnDisk
    HeadPinIsExact
    SnapshotPinsAreExact
CHECK_DEADLOCK FALSE
