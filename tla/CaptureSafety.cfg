CONSTANTS
    Requests = {r1, r2}
    Interactions = {i1, i2}
    Commitments = {c1, c2}
    Accounts = {acme, globex}
    NoAccount = NoAccount
    Unassigned = Unassigned
    NoChunk = NoChunk
    NoNote = NoNote
    Nobody = Nobody
    Faults = TRUE
SPECIFICATION Spec
SYMMETRY Interchangeable
INVARIANTS
    TypeOK
    NullIffUnmatched
    NoOrphanChunk
    ThreadAgreement
    CapturesNeverContend
PROPERTIES
    StatusesOnlyAdvance
    ThreadLandsWhole
    OvertakingFails
    InteractionLogSpec
