SPECIFICATION FairSpec
CONSTANTS
    Parsers = {p1, p2, p3}
    Loaders = {l1}
INVARIANT
    Initialised
PROPERTIES
    OneAnswerForAll
    AllReturn
