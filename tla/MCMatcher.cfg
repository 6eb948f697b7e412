SPECIFICATION Spec
CONSTANTS
    Matchers <- MCMatchers
    Kind <- MCKind
    Children <- MCChildren
    Memoized <- MCMemoized
    TopLevel = "TopLevelStatement"
    Tokens <- MCTokens
    Inputs <- MCInputs
    LeafMatch <- MCLeafMatch
    Sem <- MCSem
    Rest <- MCRest
    MaxAfterSelect = 2
INVARIANTS
    AnswersAreSem
    CacheIsSound
    MatchAllIsSem
PROPERTY
    MaxAndCacheGrow
