SPECIFICATION Spec
CONSTANTS
    a = a
    b = b
    c = c
    none = none
    Client = {a, b}
    None = none
    Asks <- Commands
    PollAlways = FALSE
    QueueLen = 1
    MaxSamples = 0
    MaxOwed = 1
    MaxAir = 1
    Prompt = FALSE
INVARIANTS
    ReplyIsOwn
CHECK_DEADLOCK FALSE
