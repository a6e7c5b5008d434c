SPECIFICATION LiveSpec
CONSTANTS
    Procs = {p1, p2, p3}
    NoPid = NoPid
    NoFile = NoFile
INVARIANTS
    ExclusionUnlessHazard
    LockSound
PROPERTIES
    ImplementsLease
    StaleRecovered
