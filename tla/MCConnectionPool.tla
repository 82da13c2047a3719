--------------------------- MODULE MCConnectionPool ---------------------------
(* ConnectionPool for TLC.  The run checks liveness, so no symmetry.        *)
EXTENDS ConnectionPool, TLC
=============================================================================
