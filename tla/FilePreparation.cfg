SPECIFICATION PrepareSpec
CONSTANTS
    Input <- MCInput
    MaxLines = 4
    MaxSize = 2
    MaxWindow = 3
    MaxByteLimit = 3
    ContextSize = 4
    BatchSize = 3
    TokenCounts = {1, 3, 4}
INVARIANT ChunkerInv
INVARIANT EveryLineIsCovered
INVARIANT BatchesFit
INVARIANT VectorsFollowTexts
PROPERTY PreparationEnds
