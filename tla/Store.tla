------------------------------- MODULE Store -------------------------------
(***************************************************************************)
(* The SQLite database behind sub-manager: the tables of store.go that     *)
(* subscriptions, uploaded files and access counters live in, and one      *)
(* operator for every statement or transaction that changes them.          *)
(*                                                                         *)
(* The pool holds a single connection (SetMaxOpenConns(1), store.go:106),  *)
(* so statements and transactions are serialised and each one is a pure    *)
(* function from a database to a database.  Op(d, ...) is the database     *)
(* after the statement has committed, CanOp(d, ...) says when SQLite and   *)
(* expectOne accept it: the WHERE clause selects a row and no UNIQUE or    *)
(* FOREIGN KEY constraint is violated.  A rejected statement or a rolled   *)
(* back transaction leaves d alone.                                        *)
(*                                                                         *)
(* Left out: names, download names, IP addresses and time stamps.  A       *)
(* content stands for everything derived from an upload's bytes: md5,      *)
(* sha256, size, storage key and content type.                             *)
(***************************************************************************)
EXTENDS Naturals, FiniteSets

CONSTANTS
    Contents,   \* what can be uploaded, up to equality of the digests
    Paths,      \* the subscription paths an administrator picks from
    Texts       \* the contents of text subscriptions

NoFile == 0     \* COALESCE(file_id, 0): AUTOINCREMENT ids start at 1
NoText == ""    \* the content column of a file subscription

FileRow == [content : Contents, downloads : Nat]

SubRow == [path : Paths, type : {"text", "file"}, text : Texts \cup {NoText},
           file : Nat, enabled : BOOLEAN,
           fetches : Nat, current : Nat, revision : Nat]

(* Tables are functions on the keys of their rows.  access_logs is kept as *)
(* the number of log rows of each (subscription, file) pair; fileSeq and   *)
(* subSeq are SQLite's AUTOINCREMENT counters.                             *)
Tables(d) ==
    /\ DOMAIN d = {"files", "subs", "stats", "logs", "fileSeq", "subSeq"}
    /\ d.files \in [DOMAIN d.files -> FileRow]
    /\ d.subs \in [DOMAIN d.subs -> SubRow]
    /\ d.stats \in [DOMAIN d.stats -> Nat]
    /\ d.logs \in [DOMAIN d.logs -> Nat]
    /\ DOMAIN d.files \subseteq Nat
    /\ DOMAIN d.subs \subseteq Nat
    /\ DOMAIN d.stats \subseteq Nat \X Nat
    /\ DOMAIN d.logs \subseteq Nat \X Nat
    /\ d.fileSeq \in Nat
    /\ d.subSeq \in Nat

Empty == [x \in {} |-> x]

EmptyDB == [files |-> Empty, subs |-> Empty, stats |-> Empty, logs |-> Empty,
            fileSeq |-> 0, subSeq |-> 0]

----------------------------------------------------------------------------
(* Queries and small helpers.                                              *)

Put(f, k, v) == [x \in DOMAIN f \cup {k} |-> IF x = k THEN v ELSE f[x]]
Without(f, K) == [x \in DOMAIN f \ K |-> f[x]]
Count(f, k) == IF k \in DOMAIN f THEN f[k] ELSE 0

FilesWith(d, c) == {f \in DOMAIN d.files : d.files[f].content = c}
Uses(d, f) == {s \in DOMAIN d.subs : d.subs[s].file = f}
SubsAt(d, p) == {s \in DOMAIN d.subs : d.subs[s].path = p}
Servable(d, p) == {s \in SubsAt(d, p) : d.subs[s].enabled}
IsFileSub(d, s) == s \in DOMAIN d.subs /\ d.subs[s].type = "file"
IsTextSub(d, s) == s \in DOMAIN d.subs /\ d.subs[s].type = "text"
PathFree(d, p, s) == SubsAt(d, p) \subseteq {s}

----------------------------------------------------------------------------
(* files                                                                   *)

(* Mutants: a plain INTEGER PRIMARY KEY hands out the largest id plus one  *)
(* and so gives the id of a deleted row to the next one.                   *)
NextFileIdReusing(d) ==
    CHOOSE n \in 1 .. d.fileSeq + 1 :
        (\A f \in DOMAIN d.files : f < n) /\ (n = 1 \/ n - 1 \in DOMAIN d.files)
NextSubIdReusing(d) ==
    CHOOSE n \in 1 .. d.subSeq + 1 :
        (\A s \in DOMAIN d.subs : s < n) /\ (n = 1 \/ n - 1 \in DOMAIN d.subs)

NextFileId(d) == d.fileSeq + 1
NextSubId(d) == d.subSeq + 1

CanCreateFile(d, c) == FilesWith(d, c) = {}

CreateFile(d, c) ==
    [d EXCEPT !.files = Put(@, NextFileId(d), [content |-> c, downloads |-> 0]),
              !.fileSeq = @ + 1]

(* Mutant: neither NOT EXISTS in the statement nor ON DELETE RESTRICT.     *)
CanDeleteFileUnchecked(d, f) == f \in DOMAIN d.files

CanDeleteFile(d, f) == f \in DOMAIN d.files /\ Uses(d, f) = {}

(* access_logs.file_id is ON DELETE SET NULL: the log rows of f become     *)
(* rows without a file.                                                    *)
Unfiled(logs, f) ==
    LET key(k) == IF k[2] = f THEN <<k[1], NoFile>> ELSE k
    IN  [k \in {key(j) : j \in DOMAIN logs} |->
            IF k[2] = NoFile THEN Count(logs, k) + Count(logs, <<k[1], f>>)
            ELSE logs[k]]

DeleteFile(d, f) ==
    [d EXCEPT !.files = Without(@, {f}),
              !.stats = Without(@, {k \in DOMAIN @ : k[1] = f}),
              !.logs = Unfiled(@, f)]

----------------------------------------------------------------------------
(* subscriptions                                                           *)

NewSub(p, type, t, f, e) ==
    [path |-> p, type |-> type, text |-> t, file |-> f, enabled |-> e,
     fetches |-> 0, current |-> 0, revision |-> 0]

InsertSub(d, row) ==
    [d EXCEPT !.subs = Put(@, NextSubId(d), row), !.subSeq = @ + 1]

WithSubs(d, rows) == [d EXCEPT !.subs = rows]
SetSub(d, s, row) == WithSubs(d, [d.subs EXCEPT ![s] = row])

CanCreateSubscription(d, p) == SubsAt(d, p) = {}
CreateSubscription(d, p, t, e) == InsertSub(d, NewSub(p, "text", t, NoFile, e))

CanCreateFileSubscription(d, p, f) == SubsAt(d, p) = {} /\ f \in DOMAIN d.files
CreateFileSubscription(d, p, f, e) == InsertSub(d, NewSub(p, "file", NoText, f, e))

CanUpdateSubscription(d, s, p) == IsTextSub(d, s) /\ PathFree(d, p, s)
UpdateSubscription(d, s, p, t, e) ==
    SetSub(d, s, [d.subs[s] EXCEPT !.path = p, !.text = t, !.enabled = e])

(* Mutant: the statement trusts the handler's earlier check.               *)
CanUpdateFileSubscriptionUnchecked(d, s, p, e) == IsFileSub(d, s) /\ PathFree(d, p, s)

CanUpdateFileSubscription(d, s, p, e) ==
    /\ IsFileSub(d, s)
    /\ d.subs[s].file # NoFile \/ ~e
    /\ PathFree(d, p, s)
UpdateFileSubscription(d, s, p, e) ==
    SetSub(d, s, [d.subs[s] EXCEPT !.path = p, !.enabled = e])

(* Mutant: a new file that keeps the old revision.                         *)
RepointedSameRevision(row, f) == [row EXCEPT !.file = f, !.current = 0]

Repointed(row, f) == [row EXCEPT !.file = f, !.current = 0, !.revision = @ + 1]

(* Mutant: uploading the same content again starts a new count.            *)
ReplaceSubscriptionFileAlways(d, s, f) == SetSub(d, s, Repointed(d.subs[s], f))

CanReplaceSubscriptionFile(d, s, f) == IsFileSub(d, s) /\ f \in DOMAIN d.files
ReplaceSubscriptionFile(d, s, f) ==
    SetSub(d, s, IF d.subs[s].file = f THEN d.subs[s] ELSE Repointed(d.subs[s], f))

(* Mutant: only one of the associated subscriptions follows the new file.  *)
ReplaceFirstAssociation(d, old, new) ==
    IF old = new \/ Uses(d, old) = {} THEN d
    ELSE LET s == CHOOSE s \in Uses(d, old) : TRUE
         IN  SetSub(d, s, Repointed(d.subs[s], new))

(* One transaction: both rows must exist, equal ids change nothing, and a  *)
(* file without associations is errNoFileAssociations.                     *)
CanReplaceFileAssociations(d, old, new) ==
    /\ {old, new} \subseteq DOMAIN d.files
    /\ old = new \/ Uses(d, old) # {}
ReplaceFileAssociations(d, old, new) ==
    IF old = new THEN d
    ELSE WithSubs(d, [s \in DOMAIN d.subs |->
            IF d.subs[s].file = old THEN Repointed(d.subs[s], new) ELSE d.subs[s]])

(* Mutant: detaching forgets to start a new revision.                      *)
DetachSameRevision(d, s) ==
    SetSub(d, s, [d.subs[s] EXCEPT !.file = NoFile, !.enabled = FALSE, !.current = 0])

CanDetachSubscriptionFile(d, s) == IsFileSub(d, s)
DetachSubscriptionFile(d, s) ==
    SetSub(d, s, [d.subs[s] EXCEPT !.file = NoFile, !.enabled = FALSE,
                                   !.current = 0, !.revision = @ + 1])

CanDeleteSubscription(d, s) == s \in DOMAIN d.subs

(* Mutant: the statistics of the subscription are not cascaded.            *)
DeleteSubscriptionKeepingStats(d, s) ==
    [d EXCEPT !.subs = Without(@, {s}),
              !.logs = Without(@, {k \in DOMAIN @ : k[1] = s})]

DeleteSubscription(d, s) ==
    [d EXCEPT !.subs = Without(@, {s}),
              !.stats = Without(@, {k \in DOMAIN @ : k[2] = s}),
              !.logs = Without(@, {k \in DOMAIN @ : k[1] = s})]

CanSetSubscriptionEnabled(d, s) == s \in DOMAIN d.subs
SetSubscriptionEnabled(d, s, e) == SetSub(d, s, [d.subs[s] EXCEPT !.enabled = e])

CanBatchUpdateContent(d, S) == S # {} /\ \A s \in S : IsTextSub(d, s)
BatchUpdateContent(d, S, t) ==
    WithSubs(d, [s \in DOMAIN d.subs |->
        IF s \in S /\ d.subs[s].type = "text" THEN [d.subs[s] EXCEPT !.text = t]
        ELSE d.subs[s]])

----------------------------------------------------------------------------
(* access counters                                                         *)

(* Mutants: the counter of the current file compares only the file, or     *)
(* nothing at all, with what the request loaded.                           *)
CountsAsCurrentByFile(row, f, revision) == row.type = "file" /\ f # NoFile /\ row.file = f
CountsAsCurrentAlways(row, f, revision) == row.type = "file"

(* file_id = ? is never true for a NULL file_id.                           *)
CountsAsCurrent(row, f, revision) ==
    row.type = "file" /\ f # NoFile /\ row.file = f /\ row.revision = revision

CanRecordAccess(d, s, f) == s \in DOMAIN d.subs /\ f \in DOMAIN d.files \cup {NoFile}

(* One transaction of three or four statements; f = NoFile for a text      *)
(* subscription.  revision is the one the request loaded, not d's.         *)
RecordAccess(d, s, f, revision) ==
    LET row == d.subs[s]
        one == IF CountsAsCurrent(row, f, revision) THEN 1 ELSE 0
    IN  [files |-> IF f = NoFile THEN d.files
                   ELSE [d.files EXCEPT ![f].downloads = @ + 1],
         subs |-> [d.subs EXCEPT ![s].fetches = @ + 1, ![s].current = @ + one],
         stats |-> IF f = NoFile THEN d.stats
                   ELSE Put(d.stats, <<f, s>>, Count(d.stats, <<f, s>>) + 1),
         logs |-> Put(d.logs, <<s, f>>, Count(d.logs, <<s, f>>) + 1),
         fileSeq |-> d.fileSeq, subSeq |-> d.subSeq]

ClearAccessLogs(d, s) == [d EXCEPT !.logs = Without(@, {k \in DOMAIN @ : k[1] = s})]

----------------------------------------------------------------------------
(* What the schema and the statements keep true of every database.         *)

IdsBelowSequence(d) ==
    /\ DOMAIN d.files \subseteq 1 .. d.fileSeq
    /\ DOMAIN d.subs \subseteq 1 .. d.subSeq

ContentsUnique(d) ==
    \A f, g \in DOMAIN d.files : d.files[f].content = d.files[g].content => f = g

PathsUnique(d) ==
    \A s, t \in DOMAIN d.subs : d.subs[s].path = d.subs[t].path => s = t

ReferencesResolve(d) ==
    /\ \A s \in DOMAIN d.subs : d.subs[s].file \in DOMAIN d.files \cup {NoFile}
    /\ \A k \in DOMAIN d.stats : k[1] \in DOMAIN d.files /\ k[2] \in DOMAIN d.subs
    /\ \A k \in DOMAIN d.logs : k[1] \in DOMAIN d.subs /\ k[2] \in DOMAIN d.files \cup {NoFile}

TextHasNoFile(d) ==
    \A s \in DOMAIN d.subs : d.subs[s].type = "text" =>
        d.subs[s].file = NoFile /\ d.subs[s].current = 0

Consistent(d) ==
    /\ IdsBelowSequence(d)
    /\ ContentsUnique(d)
    /\ PathsUnique(d)
    /\ ReferencesResolve(d)
    /\ TextHasNoFile(d)

(* A current count is part of the count of its file and subscription.      *)
CurrentInHistory(d) ==
    \A s \in DOMAIN d.subs : d.subs[s].current <= Count(d.stats, <<d.subs[s].file, s>>)

(* The accesses that the counters f with keys in P add up to, numbered for *)
(* each counter.                                                           *)
Accesses(f, P) == UNION {{k} \X (1 .. f[k]) : k \in DOMAIN f \cap P}
Total(f, P) == Cardinality(Accesses(f, P))

(* The statistics of a subscription, and its logs, add up to no more than  *)
(* its fetches, and those of a file to no more than its downloads.         *)
CountersAddUp(d) ==
    /\ \A s \in DOMAIN d.subs : /\ Total(d.stats, Nat \X {s}) <= d.subs[s].fetches
                               /\ Total(d.logs, {s} \X Nat) <= d.subs[s].fetches
    /\ \A f \in DOMAIN d.files : Total(d.stats, {f} \X Nat) <= d.files[f].downloads
=============================================================================
