SPECIFICATION FairSpec
CONSTANTS
    Texts <- MCTexts
    MaxPieces = 5
INVARIANTS
    SpansTile
    StatementsComplete
PROPERTY
    Termination
