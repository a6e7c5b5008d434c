SPECIFICATION CurlSpec
CONSTANTS
    StringOptions = {"URL"}
    ListOptions = {"QUOTE"}
    Contents = {0, 2}
    Chunks = {1, 2}
    MaxAllocs = 5
    MaxExecs = 2
    MaxServed = 2
INVARIANTS
    MemoryRight
    LatestKept
    UploadWhole
    FaultsExplained
CHECK_DEADLOCK FALSE
