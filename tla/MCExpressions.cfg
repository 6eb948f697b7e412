SPECIFICATION Spec
CONSTANTS
    Tasks = {"expression", "number", "call", "chain", "window", "array", "depth"}
    Contents <- MCContents
    MaxWindows = 3
INVARIANTS
    RewritesKeepMeaning
    RefusedAndNormal
    NumbersAsWritten
    CallsKeepModifiers
    ChainsKeepItems
    WindowsNeverOverridden
    ArraysMirrorQueries
    DepthLimitExact
CHECK_DEADLOCK FALSE
