\* A process stops after its last request.
SPECIFICATION Spec
CONSTANTS
    Names = {"v"}
    Values = {"x", "y"}
    Places = {"/srv"}
    MaxDirectives = 3
    MaxRequests = 2
INVARIANTS
    ScriptSeesConfig
    AnswersTell
    ProcessExplained
CHECK_DEADLOCK FALSE
