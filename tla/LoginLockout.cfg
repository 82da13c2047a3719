CONSTANTS
    Attempts = {a1, a2}
    States = {s1, s2, s3}
    NoState = NoState
    MaxFailures = 2
    Window = 1
    LastTick = 2
    Burst = 2
SPECIFICATION Spec
SYMMETRY Interchangeable
CHECK_DEADLOCK FALSE
INVARIANTS
    SpentMeansLockedAlone
    EntriesAreFailures
PROPERTIES
    RefusedWhenDue
