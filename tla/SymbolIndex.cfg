SPECIFICATION Spec
CONSTANTS
    File <- MCFile
    Unit <- MCUnit
    Broken <- MCBroken
    Query <- MCQuery
    MaxEdits = 3
    Here = Here
    NoUnit = NoUnit
    Elsewhere = Elsewhere
INVARIANTS
    VisitorMatchesSource
    TableIsExact
    GraphAnswers
PROPERTY
    CleanUpdatesSucceed
