SPECIFICATION Spec
CONSTANTS
    a = a
    b = b
    c = c
    none = none
    Client = {a, b}
    None = none
    Asks <- AnyRequest
    PollAlways = TRUE
    QueueLen = 1
    MaxSamples = 2
    MaxOwed = 1
    MaxAir = 2
    Prompt = FALSE
SYMMETRY AnyClient
INVARIANTS
    TypeOK
    FeedContiguous
    ResultsInTurn
    AnswerFits
PROPERTIES
    DroppedForCause
    ImplementsFeed
CHECK_DEADLOCK FALSE
