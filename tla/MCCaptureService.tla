--------------------------- MODULE MCCaptureService ---------------------------
(***************************************************************************)
(* Instances of CaptureService for TLC.  The actors, ids and accounts are  *)
(* model values; the handlers treat them alike, so they may be permuted    *)
(* where no liveness property is checked.                                  *)
(***************************************************************************)
EXTENDS CaptureService, TLC

Interchangeable ==
    Permutations(Requests) \cup Permutations(Interactions)
        \cup Permutations(Commitments) \cup Permutations(Accounts)
=============================================================================
