CONSTANTS
    Requests = {r1, r2, r3}
    Interactions = {i1, i2}
    Commitments = {}
    Accounts = {acme}
    NoAccount = NoAccount
    Unassigned = Unassigned
    NoChunk = NoChunk
    NoNote = NoNote
    Nobody = Nobody
    Faults = TRUE
    PoolSize = 2
SPECIFICATION FairPoolSpec
INVARIANTS
    PoolTypeOK
    IndexFollowsResolution
    NoThreadStuck
    OnlyTheLoopDeadlocks
PROPERTIES
    LockedOutFails
    EverySessionEnds
