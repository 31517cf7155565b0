SPECIFICATION Spec
CONSTANTS
    c1 = c1
    c2 = c2
    c3 = c3
    Dir = {1, 2}
    Content = {c1, c2, c3}
    Key = {k}
    None = None
    Inputs <- MCInputs
    Inherits = FALSE
INVARIANTS
    SkippedIsKept
CHECK_DEADLOCK FALSE
