SPECIFICATION Spec
CONSTANTS
    Options <- MCOptions
    MaxOptions = 4
    MinInt <- MCMinInt
    MaxInt <- MCMaxInt
INVARIANTS
    SetOperationsKeepMeaning
    GroupingSetsMultiplyOut
    SequencesAreRanges
    TextIsCodePoints
    ExtentsEnclose
CHECK_DEADLOCK FALSE
