---------------------------- MODULE MCLifecycle ----------------------------
(***************************************************************************)
(* An instance of Lifecycle for TLC.  A start finds an empty directory, a  *)
(* database of 1.0.1 with a text, or one of 1.1.1 with two subscriptions:  *)
(* one publishes one of two files, or none, and may have published both    *)
(* before; the other one publishes the second file.                        *)
(***************************************************************************)
EXTENDS Lifecycle

CONSTANTS c1, c2, p1, p2, t1

WithText == [CreateSubscription(EmptyDB, p1, t1, TRUE) EXCEPT !.subs[1].fetches = 1]

TwoSubscriptions ==
    LET files == CreateFile(CreateFile(EmptyDB, c1), c2)
    IN  CreateFileSubscription(CreateFileSubscription(files, p1, 1, TRUE), p2, 2, TRUE)

(* The first subscription has had m downloads of the first file and n of   *)
(* the second one, and publishes f; the second one has had a download.     *)
WithFiles(f, m, n) ==
    LET total(g, s) == IF s = 2 THEN g - 1 ELSE IF g = 1 THEN m ELSE n
        pairs == {k \in {1, 2} \X {1, 2} : total(k[1], k[2]) > 0}
    IN  [TwoSubscriptions EXCEPT
            !.subs[1] = [@ EXCEPT !.file = f, !.enabled = f # NoFile, !.fetches = m + n],
            !.subs[2].fetches = 1,
            !.files[1].downloads = m,
            !.files[2].downloads = n + 1,
            !.stats = [k \in pairs |-> total(k[1], k[2])],
            !.logs = [k \in {<<j[2], j[1]>> : j \in pairs} |-> total(k[2], k[1])]]

Olds ==
    {[schema |-> NoSchema, db |-> EmptyDB], [schema |-> Schema101, db |-> WithText]}
    \cup {[schema |-> Schema111, db |-> WithFiles(f, m, n)] : f \in {0, 1, 2}, m, n \in 0 .. 1}
=============================================================================
