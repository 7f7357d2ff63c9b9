----------------------------- MODULE AccessLog -----------------------------
(***************************************************************************)
(* The access log of a subscription: accesses are recorded, the daily      *)
(* clean-up (cleanupLoop, app.go:194) removes what is older than the       *)
(* retention period, an administrator changes the period, clears the log,  *)
(* or reads it page by page (subscriptionLogs, AccessLogs).                *)
(*                                                                         *)
(* The loop reads the period in one statement and deletes in another.  A   *)
(* page takes two statements as well: COUNT decides whether there is a     *)
(* next page, SELECT with LIMIT and OFFSET gives its rows.  Everything     *)
(* else happens in between, and between the pages.                         *)
(*                                                                         *)
(* Left out: the columns that are only shown.  The filters of the page add *)
(* the same condition to both statements; log is what they leave.  The     *)
(* loop's purge of sessions is in Sessions.                                *)
(***************************************************************************)
EXTENDS Times, FiniteSets

CONSTANTS
    Seconds,   \* bound: the seconds the clock shows
    Day,       \* seconds of a day
    Retentions,\* values of log_retention_days, 0 to keep for ever
    Default,   \* the one a new database starts with (config.go:36)
    PageSize,  \* rows of a page: 50
    MaxLogs,   \* bound: rows ever inserted into access_logs
    Watched    \* the ids ExpiredAreRemoved is about

ASSUME AccessLogAssumption ==
    /\ Seconds \subseteq Int
    /\ Day \in Nat \ {0}
    /\ Retentions \subseteq Nat
    /\ Default \in Retentions
    /\ PageSize \in Nat \ {0}
    /\ MaxLogs \in Nat
    /\ Watched \subseteq 1 .. MaxLogs

VARIABLES
    now,        \* the clock: it runs on, and may be set back
    log,        \* the time of each row of access_logs
    seq,        \* its AUTOINCREMENT counter
    retention,  \* settings.log_retention_days
    clean,      \* program counter and locals of cleanupLoop
    walk        \* an administrator reading the log from its first page on

vars == <<now, log, seq, retention, clean, walk>>

(* days: the period the run works with; saved is a history, the period in  *)
(* the settings when it began.                                             *)
CleanRow == [pc : {"load", "delete", "wait"}, days : Retentions, saved : Retentions]

(* page and pages: where the reader is.  Histories: unseen, what was there *)
(* at the start and has not been shown yet; late, the number of rows       *)
(* recorded between the two statements of the page.                        *)
WalkRow == [pc : {"idle", "count", "list", "end"}, page : Nat, pages : Nat,
            unseen : SUBSET Nat, late : Nat]

NoWalk == [pc |-> "idle", page |-> 0, pages |-> 0, unseen |-> {}, late |-> 0]

Between(pc) == [pc |-> pc, days |-> Default, saved |-> Default]

TypeOK ==
    /\ now \in Instants(Seconds)
    /\ seq \in 0 .. MaxLogs
    /\ log \in [DOMAIN log -> Instants(Seconds)]
    /\ DOMAIN log \subseteq 1 .. seq
    /\ retention \in Retentions
    /\ clean \in CleanRow
    /\ walk \in WalkRow

Init ==
    /\ now \in Instants(Seconds)
    /\ log = [i \in {} |-> now]
    /\ seq = 0
    /\ retention = Default
    /\ clean = Between("load")
    /\ walk = NoWalk

----------------------------------------------------------------------------

Clock ==
    /\ now' \in Instants(Seconds)
    /\ UNCHANGED <<log, seq, retention, clean, walk>>

(* The INSERT of RecordAccess, with the time of its transaction.           *)
Record ==
    /\ seq < MaxLogs
    /\ seq' = seq + 1
    /\ log' = [i \in DOMAIN log \cup {seq + 1} |-> IF i = seq + 1 THEN now ELSE log[i]]
    /\ walk' = IF walk.pc = "list" THEN [walk EXCEPT !.late = @ + 1] ELSE walk
    /\ UNCHANGED <<now, retention, clean>>

(* clearSubscriptionLogs.                                                  *)
Clear ==
    /\ log' = [i \in {} |-> now]
    /\ UNCHANGED <<now, seq, retention, clean, walk>>

(* Mutant: a negative period is not refused.                               *)
SaveRetentionUnchecked(d) ==
    /\ retention' \in {d, -1}
    /\ UNCHANGED <<now, log, seq, clean, walk>>

(* updateSettings, with a period that passes its check.                    *)
SaveRetention(d) ==
    /\ retention' = d
    /\ UNCHANGED <<now, log, seq, clean, walk>>

----------------------------------------------------------------------------
(* cleanupLoop.                                                            *)

(* Mutant: the period of the configuration, not of the settings.           *)
LoadSettingsOfConfig ==
    /\ clean.pc = "load"
    /\ clean' = [pc |-> "delete", days |-> Default, saved |-> retention]
    /\ UNCHANGED <<now, log, seq, retention, walk>>

(* Store.Settings at the beginning of a run.                               *)
LoadSettings ==
    /\ clean.pc = "load"
    /\ clean' = [pc |-> "delete", days |-> retention, saved |-> retention]
    /\ UNCHANGED <<now, log, seq, retention, walk>>

Cutoff(d) == dbTime(Back(now, d * Day))

Expired(d) == {i \in DOMAIN log : d > 0 /\ Before(dbTime(log[i]), Cutoff(d))}

CleanupLogs ==
    /\ clean.pc = "delete"
    /\ log' = [i \in DOMAIN log \ Expired(clean.days) |-> log[i]]
    /\ clean' = Between("wait")
    /\ UNCHANGED <<now, seq, retention, walk>>

(* Mutant: the loop ends with the first run that fails.                    *)
FailCleanupForGood ==
    /\ clean.pc \in {"load", "delete"}
    /\ clean' = Between("stopped")
    /\ UNCHANGED <<now, log, seq, retention, walk>>

(* An error of a statement is logged and ends the run, not the loop.       *)
FailCleanup ==
    /\ clean.pc \in {"load", "delete"}
    /\ clean' = Between("wait")
    /\ UNCHANGED <<now, log, seq, retention, walk>>

Ticker ==
    /\ clean.pc = "wait"
    /\ clean' = Between("load")
    /\ UNCHANGED <<now, log, seq, retention, walk>>

(* The process ends, at whatever statement the loop and the reader are; a  *)
(* start begins with a run.                                                *)
Restart ==
    /\ clean' = Between("load")
    /\ walk' = NoWalk
    /\ UNCHANGED <<now, log, seq, retention>>

----------------------------------------------------------------------------
(* Reading the log.                                                        *)

(* Mutant: the page is ordered by the id, the clean-up by the time.        *)
ListedBeforeById(i, j) == i > j

(* ORDER BY requested_at DESC, id DESC.                                    *)
ListedBefore(i, j) ==
    \/ Before(dbTime(log[j]), dbTime(log[i]))
    \/ dbTime(log[j]) = dbTime(log[i]) /\ i > j

Ahead(i) == {j \in DOMAIN log : ListedBefore(j, i)}

(* LIMIT pageSize OFFSET (page - 1) * pageSize.                            *)
Page(n) ==
    {i \in DOMAIN log : Cardinality(Ahead(i)) \in (n - 1) * PageSize .. n * PageSize - 1}

OpenLog ==
    /\ walk.pc = "idle"
    /\ walk' = [NoWalk EXCEPT !.pc = "count", !.page = 1, !.unseen = DOMAIN log]
    /\ UNCHANGED <<now, log, seq, retention, clean>>

(* SELECT COUNT: the total, rounded up to pages.                           *)
CountLogs ==
    /\ walk.pc = "count"
    /\ walk' = [walk EXCEPT !.pc = "list",
                    !.pages = (Cardinality(DOMAIN log) + PageSize - 1) \div PageSize]
    /\ UNCHANGED <<now, log, seq, retention, clean>>

(* SELECT: the rows of the page, and a link to the next one if there were  *)
(* more pages when they were counted; the reader follows it.               *)
ListLogs ==
    /\ walk.pc = "list"
    /\ LET unseen == walk.unseen \ Page(walk.page)
       IN  walk' = IF walk.page < walk.pages
                   THEN [NoWalk EXCEPT !.pc = "count", !.page = walk.page + 1,
                                       !.unseen = unseen]
                   ELSE [NoWalk EXCEPT !.pc = "end", !.unseen = unseen, !.late = walk.late]
    /\ UNCHANGED <<now, log, seq, retention, clean>>

(* The reader has finished, gives up, or gets an error.                    *)
CloseLog ==
    /\ walk.pc # "idle"
    /\ walk' = NoWalk
    /\ UNCHANGED <<now, log, seq, retention, clean>>

Next ==
    \/ Clock
    \/ Record
    \/ Clear
    \/ \E d \in Retentions : SaveRetention(d)
    \/ LoadSettings
    \/ CleanupLogs
    \/ FailCleanup
    \/ Ticker
    \/ Restart
    \/ OpenLog
    \/ CountLogs
    \/ ListLogs
    \/ CloseLog

Spec == Init /\ [][Next]_vars

(* The ticker fires, the loop's next statement returns, and neither fails  *)
(* every time; the process is up long enough for that.                     *)
FairSpec ==
    /\ Spec
    /\ WF_vars(Ticker)
    /\ SF_vars(LoadSettings)
    /\ SF_vars(CleanupLogs)

----------------------------------------------------------------------------

(* Whoever follows the links from the first page to the last has seen every*)
(* access that was there at the start and still is, whatever was recorded  *)
(* and removed on the way: new accesses push rows back, onto pages still to*)
(* come, and the clean-up takes rows from the end of the listing.  Only    *)
(* what is recorded between the two statements of the last page can push   *)
(* as many rows beyond it (README.md:20, store.go:639).                    *)
NothingSkipped ==
    walk.pc = "end" =>
        Cardinality(walk.unseen \cap DOMAIN log) <= walk.late

(* The pages show times to the second, and a later one is never listed     *)
(* below an earlier one, although the texts SQLite sorts by are not in the *)
(* order of time (app.go:112, store.go:871).                               *)
ListedByTime ==
    \A i, j \in DOMAIN log : log[i].s > log[j].s => ListedBefore(i, j)

(* The clean-up removes an access only if it is older, to the second, than *)
(* the period that was saved when its run began; so once a run has begun   *)
(* after 0 was saved, nothing is removed until another period is saved     *)
(* (README.md:202, settings.html:17).                                      *)
RemovedAsSaved ==
    [][\A i \in DOMAIN log \ DOMAIN log' :
          clean.pc = "delete" /\ clean'.pc = "wait" =>
              clean.saved > 0 /\ log[i].s <= now.s - clean.saved * Day]_vars

(* Liveness, under FairSpec: an access that is older than the period is    *)
(* removed, unless the period, or the clock, is changed (README.md:202).   *)
Overdue(i) ==
    /\ i \in DOMAIN log
    /\ retention > 0
    /\ log[i].s < now.s - retention * Day

ExpiredAreRemoved == \A i \in Watched : Overdue(i) ~> ~Overdue(i)
=============================================================================
