SPECIFICATION FairSpec
CONSTANTS
    Blob = {3, 67}
    Context = {1, 2}
    Task = {t1, t2}
    Pinner = {"pinner"}
    PinnerOf <- Same
    PayloadHash <- Total
    MaxRevision = 1
    None = None
PROPERTIES
    ImplementsPinSet
    CallsAnswer
