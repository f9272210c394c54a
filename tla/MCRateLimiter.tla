---------------------------- MODULE MCRateLimiter ----------------------------
(* Small instances of RateLimiter.                                         *)
EXTENDS RateLimiter, TLC

CONSTANTS k1, k2, k3

ThreeKeys == {k1, k2, k3}

KeySymmetry == Permutations(Keys)
=============================================================================
