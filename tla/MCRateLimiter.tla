---------------------------- MODULE MCRateLimiter ----------------------------
(* RateLimiter for TLC: which handler is which makes no difference.          *)
EXTENDS RateLimiter, TLC

Interchangeable == Permutations(Handlers)
=============================================================================
