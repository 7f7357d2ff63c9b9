----------------------------- MODULE MCLimiter -----------------------------
(* Instances of Limiter for TLC; smaller limits, the same comparisons.     *)
EXTENDS Limiter, TLC

Symmetry == Permutations(Attempts)
=============================================================================
