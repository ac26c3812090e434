SPECIFICATION InRangeSpec
CONSTANTS
    a = a
    b = b
    c = c
    none = none
    Client = {a}
    None = none
    Asks <- Subscribers
    PollAlways = TRUE
    QueueLen = 1
    MaxSamples = 1
    MaxOwed = 1
    MaxAir = 1
    Prompt = TRUE
PROPERTIES
    LinkComesBack
CHECK_DEADLOCK FALSE
