CONSTANTS
    Handlers = {h1, h2}
    Limit = 2
    Minute = 2
    LastTick = 2
    Burst = 3
SPECIFICATION Spec
SYMMETRY Interchangeable
CHECK_DEADLOCK FALSE
INVARIANTS
    WithinLimit
