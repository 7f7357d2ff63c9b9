---------------------------- MODULE MCDownloads ----------------------------
(***************************************************************************)
(* Instances of Downloads for TLC.  One instance is the union of two: one  *)
(* subscription that moves between two contents up to twice, and two       *)
(* subscriptions that share one content.  Everything the invariants say is *)
(* about one subscription and its files or one file and its subscriptions, *)
(* so Slice leaves out the states that have both dimensions at once; TLC   *)
(* checks them too when a step leads there, but does not go on from them.  *)
(***************************************************************************)
EXTENDS Downloads, TLC

Symmetry == Permutations(Requests) \cup Permutations(Contents)
                \cup Permutations(Paths) \cup Permutations(Texts)
                \cup Permutations(Visitors)

InPlay == (blobs \cup {req[r].content : r \in Requests}) \ {None}

OneSubscription ==
    /\ db.subSeq <= 1
    /\ \A s \in DOMAIN db.subs :
          db.subs[s].type = "file" /\ db.subs[s].revision + db.subs[s].fetches <= 3

OneContent ==
    /\ Cardinality(InPlay) <= 1
    /\ db.fileSeq <= 1
    /\ \A s \in DOMAIN db.subs : db.subs[s].revision <= 1 /\ db.subs[s].fetches <= 1

Slice == OneSubscription \/ OneContent
=============================================================================
