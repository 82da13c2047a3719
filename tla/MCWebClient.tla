---------------------------- MODULE MCWebClient ----------------------------
(* WebClient for TLC: session tokens are interchangeable.                   *)
EXTENDS WebClient, TLC

Interchangeable == Permutations(Tokens)
=============================================================================
