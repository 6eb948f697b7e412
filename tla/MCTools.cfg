SPECIFICATION ToolsSpec
CONSTANTS
    MaxLines = 5
    N = 3
    Workers = {w1, w2}
    MaxPrint = 1
    Batches <- MCBatches
    Files <- MCFiles
    Trees <- MCTrees
    Unstorable = {"bad"}
    Subsets <- MCSubsets
    Limits = {0, 1}
    MaxRuns = 3
INVARIANTS
    FilesReadBack
    TreesCompared
    VerdictsJustified
    CorpusConverges
    TotalsExact
PROPERTIES
    RegenerateKeeps
    ToolsEnd
CHECK_DEADLOCK FALSE
