SPECIFICATION SettingsLiveSpec
CONSTANTS
    DataBits = {7, 9}
    StopBits = {1, 3}
    Parities = {0, 2}
    FlowControls = {3, 4}
    Speeds = {0, 4800, 12345}
    FirstConfigs <- MCConfigs
    MaxCalls = 2
INVARIANTS
    ShadowTrue
PROPERTIES
    ChangesOwn
    RestoresMark
    DrainReturns
