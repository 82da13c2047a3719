CONSTANTS
    Requests = {r1, r2}
    Tokens = {k1, k2}
    NoToken = NoToken
    Idle = 1
    Absolute = 3
    LastTick = 5
SPECIFICATION Spec
CHECK_DEADLOCK FALSE
INVARIANTS
    EndedStaysEnded
    IdleLimit
PROPERTIES
    ActiveStays
