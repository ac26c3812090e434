SPECIFICATION Spec
CONSTANTS
    a = a
    b = b
    c = c
    none = none
    Proc = {a, b, c}
    None = none
    Overlap = FALSE
INVARIANTS
    TypeOK
    SoleAgent
    PathsAreTheAgents
    NoLitter
PROPERTIES
    NoTheft
    RefusedForCause
    ImplementsService
CHECK_DEADLOCK FALSE
