SPECIFICATION Spec
CONSTANTS
    Tasks = {"number"}
    Contents <- MCContents
    MaxWindows = 3
INVARIANT IntegersAreExact
CHECK_DEADLOCK FALSE
