--------------------------- MODULE MCRateLimiter ---------------------------
(* Instances of RateLimiter for TLC: a few requests, one or two addresses. *)
EXTENDS RateLimiter, TLC

Symmetry == Permutations(Handler)
=============================================================================
