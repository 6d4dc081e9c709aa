CONSTANTS
    k1 = k1
    k2 = k2
    p = p
    empty = empty
    short = short
    long = long
    torn = torn
    None = None
    Gone = Gone
    Keys <- MCKeys
    Pending <- MCPending
    Contents <- MCContents
    Size <- MCSize
    MaxBytes = 3
    MaxRows = 2
SPECIFICATION Spec
INVARIANTS
    ServedIsWhole
    WithinBudget
PROPERTIES
    ImplementsWriteOnce
