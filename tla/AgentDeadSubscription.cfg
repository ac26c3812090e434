SPECIFICATION Spec
CONSTANTS
    a = a
    b = b
    c = c
    none = none
    Client = {a, b}
    None = none
    Asks <- Duo
    PollAlways = FALSE
    QueueLen = 1
    MaxSamples = 1
    MaxOwed = 1
    MaxAir = 1
    Prompt = TRUE
INVARIANTS
    NoDeadSubscription
CHECK_DEADLOCK FALSE
