SPECIFICATION StoreSpec
CONSTANTS
    Key = {k1}
    Revision = {1, 2}
    Hash = {1, 2}
    None = None
    Writer = {w1}
    Torn = Torn
    ReadErrors = FALSE
INVARIANTS
    TornOrBest
PROPERTIES
    ImplementsRegistry
