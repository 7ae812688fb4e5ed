SPECIFICATION Spec
CONSTANTS
    Task = {s1, p1}
    Streaming = {s1}
    Capacity = 1
    MaxTokens = 2
INVARIANT SinkOutlivesTask
INVARIANT StreamShape
INVARIANT DoneMeansComplete
PROPERTY NoTokenAfterAWithheldOne
PROPERTY EveryRequestEnds
PROPERTY ShutdownCompletes
