SPECIFICATION FairSpec
CONSTANTS
    Sources <- MCSources
    IsKeyword <- MCIsKeyword
    MaxMixed = 3
    MaxFocused = 5
INVARIANTS
    TokensAreText
    LiteralsWellFormed
PROPERTY
    Termination
