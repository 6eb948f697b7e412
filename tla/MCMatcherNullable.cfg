SPECIFICATION FairSpec
CONSTANTS
    Matchers <- MCMatchers
    Kind <- MCKind
    Children <- MCChildren
    Memoized <- MCMemoized
    TopLevel = "StatementOpt"
    Tokens <- MCTokens
    Inputs <- MCInputs
    LeafMatch <- MCLeafMatch
    Sem <- MCSem
    Rest <- MCRest
    MaxAfterSelect = 2
PROPERTY
    Termination
