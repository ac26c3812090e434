SPECIFICATION FairSpec
CONSTANTS
    ConnectRetries = 2
    WriteRetries = 3
    Wanted = 2
    MaxLinks = 3
    MaxOwed = 2
    MaxAir = 2
INVARIANTS
    TypeOK
    SubscriptionIsCurrent
    NeverOnHalfOpen
    EndsDisconnected
PROPERTIES
    CallsAreAsSeen
    RunEnds
CHECK_DEADLOCK FALSE
