----------------------------- MODULE Lifecycle -----------------------------
(***************************************************************************)
(* The process from start to stop, and what an upgrade does to a database  *)
(* of an older version (cmd/server/main.go, New, OpenStore and migrate).   *)
(*                                                                         *)
(* Every start runs all statements of migrate.  Each one commits by itself,*)
(* except those that initialise current_fetch_count, and the process may   *)
(* stop or a statement fail at any of them; the next start then finds a    *)
(* schema between two versions.  The pool has a single connection: until   *)
(* the last row of PRAGMA table_info has been read, or while a transaction *)
(* is open, no other statement can run.                                    *)
(*                                                                         *)
(* Then the process serves: accesses are recorded and files replaced, as   *)
(* far as the counter is concerned, until it is asked to stop.  Left out:  *)
(* the other tables' rows, which no statement of migrate reads or writes.  *)
(***************************************************************************)
EXTENDS Store, Sequences

CONSTANTS
    OldDatabases,  \* what a first start may find: schema and rows
    Visitors,      \* concurrent public requests
    MaxFetches,    \* bound: fetch_count of a subscription
    MaxRevision    \* bound: file_revision

VARIABLES
    schema,   \* the tables, columns and indexes there are, and the settings row
    db,       \* the rows; a column not in schema stands at its default
    process,  \* program counter and locals of main and migrate; history: broken,
              \* whether this start was killed or has misread a table_info
    conn,     \* what holds the connection: nothing, open rows, a transaction
    serving,  \* downloads in progress, with what they have loaded
    counted   \* history: what the current count of a subscription should be

vars == <<schema, db, process, conn, serving, counted>>

----------------------------------------------------------------------------
(* The statements of migrate.  needs: the tables and columns a statement   *)
(* names; a column is added if table_info does not list it, everything else*)
(* is IF NOT EXISTS, INSERT OR IGNORE, or checks for itself.               *)

Creates(x, needs) == [makes |-> x, needs |-> needs, column |-> FALSE]
Adds(x, table) == [makes |-> x, needs |-> {table}, column |-> TRUE]

BaseTables == <<
    Creates("settings", {}),
    Creates("subscriptions", {}),
    Creates("files", {}),
    Creates("idx_files_md5", {"files"}),
    Creates("access_logs", {}),
    Creates("idx_access_logs_subscription_time", {"access_logs"}),
    Creates("idx_access_logs_client_ip", {"access_logs"}),
    Creates("sessions", {}) >>

Columns == <<
    Adds("subscriptions.type", "subscriptions"),
    Adds("subscriptions.file_id", "subscriptions"),
    Adds("subscriptions.download_name", "subscriptions"),
    Adds("subscriptions.file_revision", "subscriptions"),
    Adds("access_logs.file_id", "access_logs") >>

FileTables == <<
    Creates("idx_subscriptions_type", {"subscriptions.type"}),
    Creates("idx_subscriptions_file", {"subscriptions.file_id"}),
    Creates("idx_access_logs_file_time", {"access_logs.file_id"}),
    Creates("file_subscription_stats", {}) >>

Counter == "subscriptions.current_fetch_count"

CounterAndSettings == <<
    Creates(Counter, {"subscriptions.type", "subscriptions.file_id",
                      "file_subscription_stats"}),
    Creates("settings row", {"settings"}) >>

(* Mutant: the counter is initialised before the table it is read from has *)
(* been created.                                                           *)
CounterBeforeFileTables == BaseTables \o Columns \o CounterAndSettings \o FileTables

Statements == BaseTables \o Columns \o FileTables \o CounterAndSettings

Everything == {Statements[i].makes : i \in DOMAIN Statements}

ASSUME LifecycleAssumption ==
    \A old \in OldDatabases : Tables(old.db) /\ old.schema \subseteq Everything \ {Counter}

(* Releases before this one: 1.0.1 without files (app_test.go:703), 1.1.1  *)
(* without counts since the last update (CHANGELOG.md, store.go:251).      *)
NoSchema == {}
Schema101 == {BaseTables[i].makes : i \in DOMAIN BaseTables \ {3, 4}}
                \cup {"settings row"}
Schema111 == Everything \ {Counter, "subscriptions.file_revision"}

----------------------------------------------------------------------------

PCs == {"down", "run", "rows", "alter", "tx", "open", "up", "draining"}

Starting == {"run", "rows", "alter", "tx", "open"}

NoDownload == [sub |-> 0, file |-> NoFile, revision |-> 0]

ProcessRow == [pc : PCs, at : DOMAIN Statements, found : BOOLEAN, broken : BOOLEAN]

LTypeOK ==
    /\ Tables(db)
    /\ schema \subseteq Everything
    /\ process \in ProcessRow
    /\ conn \in {"free", "rows", "tx"}
    /\ serving \in [Visitors -> [sub : Nat, file : Nat, revision : Nat]]
    /\ counted \in [DOMAIN db.subs -> Nat]

(* What the README promises to begin with: the total of the current file.  *)
Promised(d, s) == IF d.subs[s].type = "file" THEN Count(d.stats, <<d.subs[s].file, s>>) ELSE 0

At(pc) == process.pc = pc
Goto(pc) == process' = [process EXCEPT !.pc = pc]
Down(broken) == process' = [pc |-> "down", at |-> 1, found |-> FALSE, broken |-> broken]
Current == Statements[process.at]

Init ==
    /\ \E old \in OldDatabases : schema = old.schema /\ db = old.db
    /\ process = [pc |-> "down", at |-> 1, found |-> FALSE, broken |-> FALSE]
    /\ conn = "free"
    /\ serving = [v \in Visitors |-> NoDownload]
    /\ counted = [s \in DOMAIN db.subs |-> Promised(db, s)]

NextStatement ==
    process' = IF process.at = Len(Statements) THEN [process EXCEPT !.pc = "open"]
               ELSE [process EXCEPT !.pc = "run", !.at = @ + 1, !.found = FALSE]

(* main up to OpenStore and its pragmas.                                   *)
Launch ==
    /\ At("down")
    /\ process' = [process EXCEPT !.pc = "run", !.broken = FALSE]
    /\ UNCHANGED <<schema, db, conn, serving, counted>>

(* CREATE ... IF NOT EXISTS, and INSERT OR IGNORE of the settings.         *)
CreateMissing ==
    /\ At("run") /\ ~Current.column /\ Current.makes # Counter
    /\ conn = "free"
    /\ Current.needs \subseteq schema
    /\ schema' = schema \cup {Current.makes}
    /\ NextStatement
    /\ UNCHANGED <<db, conn, serving, counted>>

(* addColumnIfMissing asks for table_info; the rows keep the connection.   *)
Inspect ==
    /\ At("run") /\ Current.column
    /\ conn = "free"
    /\ conn' = "rows"
    /\ Goto("rows")
    /\ UNCHANGED <<schema, db, serving, counted>>

(* Mutant: names are compared with another column of table_info.           *)
ReadTableInfoOfTypes ==
    /\ At("rows")
    /\ conn' = "free"
    /\ Goto("alter")
    /\ UNCHANGED <<schema, db, serving, counted>>

(* The loop over the rows: the Next that returns FALSE gives the connection*)
(* back.  It does so on an error as well, and rows.Err is not looked at, so*)
(* a column whose row was not reached looks like one that is not there.    *)
(* (An error of Scan ends the start: Kill.)                                *)
ReadTableInfo ==
    /\ At("rows")
    /\ conn' = "free"
    /\ \E found \in BOOLEAN :
        /\ found => Current.makes \in schema
        /\ IF found THEN NextStatement
           ELSE process' = [process EXCEPT !.pc = "alter",
                                           !.broken = Current.makes \in schema]
    /\ UNCHANGED <<schema, db, serving, counted>>

(* Mutant: the definition is taken for the name.                           *)
AddColumnMisnamed ==
    /\ At("alter")
    /\ conn = "free"
    /\ Current.needs \subseteq schema
    /\ schema' = schema \cup {"TEXT"}
    /\ NextStatement
    /\ UNCHANGED <<db, conn, serving, counted>>

AddColumn ==
    /\ At("alter")
    /\ conn = "free"
    /\ Current.needs \subseteq schema
    /\ Current.makes \notin schema
    /\ schema' = schema \cup {Current.makes}
    /\ NextStatement
    /\ UNCHANGED <<db, conn, serving, counted>>

(* migrateCurrentFetchCount: the transaction, and whether the column       *)
(* exists.                                                                 *)
BeginCounter ==
    /\ At("run") /\ Current.makes = Counter
    /\ conn = "free"
    /\ conn' = "tx"
    /\ process' = [process EXCEPT !.pc = "tx", !.found = Counter \in schema]
    /\ UNCHANGED <<schema, db, serving, counted>>

(* UPDATE subscriptions SET current_fetch_count = COALESCE(...)            *)
(* WHERE type = 'file'.                                                    *)
WithFirstCount(d, s) ==
    IF d.subs[s].type = "file"
    THEN [d.subs[s] EXCEPT !.current = Count(d.stats, <<d.subs[s].file, s>>)]
    ELSE d.subs[s]

WithFirstCounts(d) == WithSubs(d, [s \in DOMAIN d.subs |-> WithFirstCount(d, s)])

(* Mutant: no transaction, so the process may stop after ALTER TABLE.      *)
CommitCounterOrStop ==
    /\ At("tx")
    /\ conn' = "free"
    /\ schema' = schema \cup {Counter}
    /\ \/ /\ db' = IF process.found THEN db ELSE WithFirstCounts(db)
          /\ NextStatement
       \/ Down(TRUE) /\ UNCHANGED db
    /\ UNCHANGED <<serving, counted>>

(* Mutant: a statement of the transaction is run on s.db instead of tx, and*)
(* waits for the connection tx has.                                        *)
CommitCounterOnPool ==
    /\ At("tx")
    /\ conn = "free"
    /\ Current.needs \subseteq schema
    /\ schema' = schema \cup {Counter}
    /\ db' = IF process.found THEN db ELSE WithFirstCounts(db)
    /\ NextStatement
    /\ UNCHANGED <<conn, serving, counted>>

(* ALTER TABLE and UPDATE, unless the column exists, and COMMIT.           *)
CommitCounter ==
    /\ At("tx")
    /\ Current.needs \subseteq schema
    /\ conn' = "free"
    /\ schema' = schema \cup {Counter}
    /\ db' = IF process.found THEN db ELSE WithFirstCounts(db)
    /\ NextStatement
    /\ UNCHANGED <<serving, counted>>

(* A statement SQLite refuses: a table or column it names is missing, or   *)
(* the column to add exists.  New returns the error and main exits.        *)
Refused ==
    /\ \/ At("run") /\ ~Current.column /\ Current.makes # Counter /\ conn = "free"
       \/ At("alter") /\ conn = "free"
       \/ At("tx") /\ ~process.found
    /\ \/ ~(Current.needs \subseteq schema)
       \/ At("alter") /\ Current.makes \in schema
    /\ Down(process.broken)
    /\ conn' = "free"
    /\ UNCHANGED <<schema, db, serving, counted>>

(* The rest of New, none of which changes the database; main listens.      *)
Listen ==
    /\ At("open")
    /\ Goto("up")
    /\ UNCHANGED <<schema, db, conn, serving, counted>>

StartStep ==
    \/ CreateMissing
    \/ Inspect
    \/ ReadTableInfo
    \/ AddColumn
    \/ BeginCounter
    \/ CommitCounter
    \/ Refused
    \/ Listen

----------------------------------------------------------------------------
(* Serving.                                                                *)

(* publicSubscription loads the row.                                       *)
BeginDownload(v, s) ==
    /\ At("up")
    /\ serving[v] = NoDownload
    /\ db.subs[s].enabled
    /\ db.subs[s].type = "file" => db.subs[s].file # NoFile
    /\ serving' = [serving EXCEPT ![v] =
          [sub |-> s, file |-> db.subs[s].file, revision |-> db.subs[s].revision]]
    /\ UNCHANGED <<schema, db, process, conn, counted>>

(* RecordAccess; requests in progress go on while the server shuts down.   *)
RecordDownload(v) ==
    LET q == serving[v]
    IN  /\ At("up") \/ At("draining")
        /\ q # NoDownload
        /\ CanRecordAccess(db, q.sub, q.file)
        /\ db.subs[q.sub].fetches < MaxFetches
        /\ db' = RecordAccess(db, q.sub, q.file, q.revision)
        /\ counted' = IF q.file # NoFile /\ q.revision = db.subs[q.sub].revision
                      THEN [counted EXCEPT ![q.sub] = @ + 1] ELSE counted
        /\ serving' = [serving EXCEPT ![v] = NoDownload]
        /\ UNCHANGED <<schema, process, conn>>

(* The visitor has gone, or gets an error.                                 *)
DropDownload(v) ==
    /\ serving[v] # NoDownload
    /\ serving' = [serving EXCEPT ![v] = NoDownload]
    /\ UNCHANGED <<schema, db, process, conn, counted>>

Replace(s, f) ==
    /\ At("up")
    /\ CanReplaceSubscriptionFile(db, s, f)
    /\ db.subs[s].revision < MaxRevision
    /\ db' = ReplaceSubscriptionFile(db, s, f)
    /\ counted' = IF db.subs[s].file = f THEN counted ELSE [counted EXCEPT ![s] = 0]
    /\ UNCHANGED <<schema, process, conn, serving>>

Detach(s) ==
    /\ At("up")
    /\ CanDetachSubscriptionFile(db, s)
    /\ db.subs[s].revision < MaxRevision
    /\ db' = DetachSubscriptionFile(db, s)
    /\ counted' = [counted EXCEPT ![s] = 0]
    /\ UNCHANGED <<schema, process, conn, serving>>

Enable(s) ==
    /\ At("up")
    /\ db.subs[s].type = "file" => db.subs[s].file # NoFile
    /\ db' = SetSubscriptionEnabled(db, s, TRUE)
    /\ UNCHANGED <<schema, process, conn, serving, counted>>

----------------------------------------------------------------------------
(* Stopping.                                                               *)

Idle == serving = [v \in Visitors |-> NoDownload]

(* SIGINT or SIGTERM: Shutdown closes the listener and waits.              *)
Signal ==
    /\ At("up")
    /\ Goto("draining")
    /\ UNCHANGED <<schema, db, conn, serving, counted>>

(* Mutant: Shutdown with a context that does not end.                      *)
CloseWhenIdle ==
    /\ At("draining")
    /\ Idle
    /\ Down(FALSE)
    /\ UNCHANGED <<schema, db, conn, serving, counted>>

(* No request is left, or ten seconds are over: Close, and main returns.   *)
Close ==
    /\ At("draining")
    /\ Down(FALSE)
    /\ serving' = [v \in Visitors |-> NoDownload]
    /\ UNCHANGED <<schema, db, conn, counted>>

(* The process is killed or exits with an error; what is not committed is  *)
(* rolled back.                                                            *)
Kill ==
    /\ ~At("down")
    /\ Down(TRUE)
    /\ conn' = "free"
    /\ serving' = [v \in Visitors |-> NoDownload]
    /\ UNCHANGED <<schema, db, counted>>

Next ==
    \/ Launch
    \/ StartStep
    \/ \E v \in Visitors, s \in DOMAIN db.subs : BeginDownload(v, s)
    \/ \E v \in Visitors : RecordDownload(v) \/ DropDownload(v)
    \/ \E s \in DOMAIN db.subs, f \in DOMAIN db.files : Replace(s, f)
    \/ \E s \in DOMAIN db.subs : Detach(s) \/ Enable(s)
    \/ Signal
    \/ Close
    \/ Kill

Spec == Init /\ [][Next]_vars

(* Statements return and the timer of ten seconds fires; nothing is assumed*)
(* of visitors.                                                            *)
FairSpec == Spec /\ WF_vars(StartStep) /\ WF_vars(Close)

----------------------------------------------------------------------------

(* Once the column exists, the count of every file subscription is what the*)
(* README says: the total of its current file at the upgrade plus what has *)
(* been recorded for its revision since, zero after a change of the file,  *)
(* no matter how often the upgrade was broken off and the process started  *)
(* (README.md:50, store.go:251).                                           *)
CountsSurviveUpgrade ==
    Counter \in schema =>
        \A s \in DOMAIN db.subs : IsFileSub(db, s) => db.subs[s].current = counted[s]

(* From any release, and after any stop on the way, every statement finds  *)
(* the tables and columns it names, and a server that listens has all of   *)
(* them (store.go:133).                                                    *)
SchemaInOrder ==
    /\ process.pc \in {"run", "alter", "tx"} => Current.needs \subseteq schema
    /\ process.pc \in {"open", "up", "draining"} => schema = Everything

(* A start ends in a server that listens, also after any number of starts  *)
(* that were broken off or refused, unless this very start is killed or    *)
(* misreads a table_info: no statement waits for the connection its own    *)
(* caller holds (store.go:106, 239), and none is refused because an earlier*)
(* start has carried it out already (store.go:268).                        *)
StartEnds ==
    process.pc \in Starting ~> process.pc = "up" \/ (process.pc = "down" /\ process.broken)

(* A stop ends, whatever the visitors do (main.go:73).                     *)
StopEnds == process.pc = "draining" ~> process.pc = "down"
=============================================================================
