SPECIFICATION Spec
CONSTANTS
    Names = {"a", "2"}
    MaxNumber = 2
    MaxInt = 100
    WindowNames = {"w"}
    MaxFrames = 5
    MaxEvents = 3
INVARIANTS
    ParametersNumbered
    WindowsScoped
