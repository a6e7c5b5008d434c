SPECIFICATION Spec
CONSTANTS
    Procs = {p1, p2, p3}
    NoPid = NoPid
    NoFile = NoFile
PROPERTIES
    StaleUnlinkOnlyStale
