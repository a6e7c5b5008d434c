\* A script makes two objects at most and asks once.
SPECIFICATION RequestSpec
CONSTANTS
    Chars <- MCChars
    Forms <- MCForms
    PairLists <- MCPairLists
INVARIANTS
    QueryRight
    CrashesExplained
CHECK_DEADLOCK FALSE
