CONSTANTS
    Requests = {r1, r2, r3}
    Interactions = {i1}
    Commitments = {c1}
    Accounts = {acme, globex}
    NoAccount = NoAccount
    Unassigned = Unassigned
    NoChunk = NoChunk
    NoNote = NoNote
    Nobody = Nobody
    Faults = FALSE
SPECIFICATION Spec
INVARIANTS
    ThreadAgreement
