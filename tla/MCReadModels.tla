---------------------------- MODULE MCReadModels ----------------------------
(* ReadModels for TLC: requests, reads, notes, commitments and accounts are *)
(* each interchangeable.                                                    *)
EXTENDS ReadModels, TLC

Interchangeable ==
    Permutations(Requests) \cup Permutations(Readers) \cup
    Permutations(Interactions) \cup Permutations(Commitments) \cup
    Permutations(Accounts)
=============================================================================
