SPECIFICATION Spec
CONSTANTS
    Objs = {o1, o2, o3}
    Handles = {h1, h2, h3}
    Null = Null
SYMMETRY Symmetry
INVARIANTS
    ListExact
    HeldResultsSound
    AccessesSound
PROPERTIES
    DisposeFreesOwn
\* The script ends, or stops at its first fault.
CHECK_DEADLOCK FALSE
