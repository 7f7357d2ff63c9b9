------------------------------ MODULE MCFiles ------------------------------
(***************************************************************************)
(* Instances of Files for TLC.  Requests, contents and texts are           *)
(* interchangeable; ids are numbers handed out in order, and paths are only*)
(* compared, so permuting the model values maps behaviours to behaviours.  *)
(***************************************************************************)
EXTENDS Files, TLC

Symmetry == Permutations(Requests) \cup Permutations(Contents)
                \cup Permutations(Paths) \cup Permutations(Texts)

(* With two subscriptions one of the requests waits: idle, or about to take*)
(* fileMu.  Two requests past that point are explored around one of them.  *)
(* A text has no file; beside it, requests come one at a time.             *)
Waiting(r) == req[r].pc \in {"idle", "lock", "dlock"}
Slice ==
    /\ Cardinality(DOMAIN db.subs) <= 1 \/ \E r \in Requests : Waiting(r)
    /\ (\E s \in DOMAIN db.subs : IsTextSub(db, s)) => \E r \in Requests : req[r] = Idle
=============================================================================
