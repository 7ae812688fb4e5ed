SPECIFICATION RetrievalSpec
CONSTANTS
    File <- MCFile
    ScanOrder <- MCScanOrder
    Content <- MCContent
    Id <- MCId
    Text <- MCText
    TextChunks <- MCTextChunks
    Unit <- NoUnits
    UnitChunks <- NoUnitChunks
    UnitSymbols <- NoUnitSymbols
    Parses <- NoParses
    Semantic = FALSE
    Edits <- MCEdits
    MaxGeneration = 3
    TopK = 2
    NoFile = NoFile
    NoText = NoText
    NoDoc = NoDoc
    NoUnit = NoUnit
    NoVectors = NoVectors
    Torn = Torn
    f1 = f1
    a = a
    b = b
    c = c
    x = x
    y = y
INVARIANT SettledQueryIsExact
