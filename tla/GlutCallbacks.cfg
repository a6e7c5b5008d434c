\* The program ends with the script's error or at the first undefined access.
SPECIFICATION Spec
CONSTANTS
    Closures = {c1, c2}
    Parameters = {p1, p2}
    Ids = {1, 2}
    MaxCalls = 6
SYMMETRY Sym
INVARIANTS
    
    
    RefsExact
CHECK_DEADLOCK FALSE
