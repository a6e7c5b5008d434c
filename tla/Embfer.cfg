\* The process stops at the first access that is undefined.
SPECIFICATION Spec
CONSTANTS
    Objs = {o1, o2}
    Tags <- MCTags
    Chars <- MCChars
    Docs <- MCDocs
    MaxClosures = 4
INVARIANTS
    LosslessScan
    TableAgrees
    FaultsExplained
CHECK_DEADLOCK FALSE
