SPECIFICATION MCSpec
CONSTANTS
    StackSize = 3
    MaxLen = 4
    MaxTagged = 5
    Sizes = {0, 1, 2}
    ShortMax = 1
    MaxRuns = 2
    Later <- MCLater
    MaxParses = 2
INVARIANTS
    StackExact
    ParseRight
    ReportExact
    RendersText
    FaultsExplained
PROPERTIES
    WalksInTurn
CHECK_DEADLOCK FALSE
