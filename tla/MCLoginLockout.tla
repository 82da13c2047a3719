---------------------------- MODULE MCLoginLockout ----------------------------
(* LoginLockout for TLC: attempts are alike, and so are the state objects.    *)
EXTENDS LoginLockout, TLC

Interchangeable == Permutations(Attempts) \cup Permutations(States)
=============================================================================
