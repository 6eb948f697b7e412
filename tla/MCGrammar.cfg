SPECIFICATION Spec
CONSTANT
    MaxPieces = 3
INVARIANTS
    GrammarsParseAsWritten
    MatchersAreGrammar
