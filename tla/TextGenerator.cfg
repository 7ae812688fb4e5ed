SPECIFICATION Spec
CONSTANTS
    ContextSize = 5
    BatchSize = 2
    PromptSize = {0, 1, 3, 4, 5, 6}
    MaxTokens = {0, 1, 9}
    Piece <- AllPieces
INVARIANT KeepsLimits
INVARIANT StreamIsFaithful
PROPERTY Terminates
