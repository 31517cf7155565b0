SPECIFICATION FairSpec
CONSTANTS
    c1 = c1
    c2 = c2
    c3 = c3
    Dir = {1, 2}
    Content = {c1, c2, c3}
    Key = {k}
    None = None
    Inputs <- MCInputs
    Inherits = FALSE
INVARIANTS
    KeepsLive
    ReportIsExact
PROPERTIES
    Terminates
CHECK_DEADLOCK FALSE
