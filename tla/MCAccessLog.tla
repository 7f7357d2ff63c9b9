---------------------------- MODULE MCAccessLog ----------------------------
(***************************************************************************)
(* An instance of AccessLog for TLC.  One binary digit is enough for texts *)
(* that are not in the order of time: ".1Z" < "Z".                         *)
(***************************************************************************)
EXTENDS AccessLog
=============================================================================
