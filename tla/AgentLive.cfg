SPECIFICATION FairSpec
CONSTANTS
    a = a
    b = b
    c = c
    none = none
    Client = {a, b}
    None = none
    Asks <- Roles
    PollAlways = FALSE
    QueueLen = 1
    MaxSamples = 1
    MaxOwed = 1
    MaxAir = 1
    Prompt = FALSE
PROPERTIES
    Answered
    ShutdownCompletes
    FeedRecovers
CHECK_DEADLOCK FALSE
