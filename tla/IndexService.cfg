SPECIFICATION Spec
CONSTANTS
    File <- MCFile
    ScanOrder <- MCScanOrder
    Content <- MCContent
    Id <- MCId
    Text <- MCText
    TextChunks <- MCTextChunks
    Unit <- MCUnit
    UnitChunks <- MCUnitChunks
    Parses <- MCParses
    Semantic = TRUE
    Edits <- MCEdits
    MaxGeneration = 2
    NoFile = NoFile
    NoText = NoText
    NoDoc = NoDoc
    NoUnit = NoUnit
    NoVectors = NoVectors
    Torn = Torn
    f1 = f1
    f2 = f2
    a = a
    b = b
    x = x
    y = y
    z = z
    ua = ua
    ub = ub
INVARIANT ActiveVectorsMatchChunks
INVARIANT SymbolsFollowDocuments
INVARIANT UpdateReachesTree
PROPERTY PublishesWhatIsCommitted
