----------------------------- MODULE MCSessions -----------------------------
(* Instances of Sessions for TLC.  Only the initial password is special.   *)
EXTENDS Sessions, TLC

Symmetry == Permutations(Requests) \cup Permutations(Passwords \ {Initial})
=============================================================================
