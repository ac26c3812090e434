SPECIFICATION Spec
CONSTANTS
    a = a
    b = b
    c = c
    none = none
    Proc = {a, b, c}
    None = none
    Overlap = TRUE
INVARIANTS
    SoleAgent
CHECK_DEADLOCK FALSE
