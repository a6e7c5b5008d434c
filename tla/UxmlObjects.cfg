SPECIFICATION MCSpec
CONSTANTS
    a = a
    b = b
    Names = {a, b}
    Refs = {r1, r2}
    StackSize = 3
    MaxLeaves = 1
    MaxLen = 4
    MaxParses = 2
    Later <- MCLater
    Queries <- MCQueries
SYMMETRY Symmetry
INVARIANTS
    TypeOK
    DocumentRight
    TreeHeld
    FaultsExplained
CHECK_DEADLOCK FALSE
