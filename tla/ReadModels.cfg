CONSTANTS
    Requests = {r1, r2}
    Interactions = {i1, i2}
    Commitments = {c1}
    Accounts = {acme, globex}
    NoAccount = NoAccount
    Unassigned = Unassigned
    NoChunk = NoChunk
    NoNote = NoNote
    Nobody = Nobody
    Faults = TRUE
    Readers = {q1}
    NoHint = NoHint
SPECIFICATION ReadSpec
SYMMETRY Interchangeable
INVARIANTS
    OwnHistoryOnly
    UnmatchedShownWhole
    SplitOnlyIfResolvedTwice
