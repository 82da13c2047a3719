CONSTANTS
    Tokens = {t1, t2}
    NoToken = NoToken
    Commitments = {c1}
    Notes = {n1}
    NoItem = NoItem
    MaxCalls = 2
    MaxTurns = 3
SPECIFICATION Spec
SYMMETRY Interchangeable
INVARIANTS
    SettledStaysOff
    TurnsPaired
    NothingHangs
PROPERTY
    KeptSignedIn
