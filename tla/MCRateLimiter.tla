---------------------------- MODULE MCRateLimiter ----------------------------
(***************************************************************************)
(* RateLimiter for TLC.  Calls are interchangeable until they are made.    *)
(***************************************************************************)
EXTENDS RateLimiter, TLC

Symmetry == Permutations(Calls)
==============================================================================
