# sub-manager, specified and checked

sub-manager is a single Go process that publishes *subscriptions*: short public
paths that answer with a text or with an uploaded file. One administrator
logs in, edits the subscriptions, uploads files into a content-addressed store,
and watches access counters and logs. State lives in one SQLite database and in
one directory of blobs. This directory holds TLA+ models of the parts that keep
state, the TLC configurations that check them on small instances, and proofs of
the most important invariants for instances of every size.

Paths below are relative to the repository; `store.go` and the other bare names
are files of `internal/app/`.

## 1. Inventory

| component | state | operations | how it interacts |
|---|---|---|---|
| **Store** (`store.go`) | tables `settings`, `sessions`, `files`, `subscriptions`, `file_subscription_stats`, `access_logs` | one method per statement or transaction | one connection (`SetMaxOpenConns(1)`), so statements are serialised; a handler's sequence of statements is not |
| **File storage** (`filestore.go`) | blobs named by sha256, staged uploads in `.tmp` | `Stage`, `Commit`, `Discard`, `Remove`, `Open`; the sweep at start | called by the file handlers; knows nothing of the rows |
| **Uploads and files** (`handlers_files.go`) | `App.fileMu`, locals of each request | create, replace, replace all, associate, detach, delete | orders Store statements and file operations; holds `fileMu` for part of them |
| **Subscription administration** (`handlers.go`) | locals of each request | create, edit, toggle, batch edit, delete, clear logs | load a row, decide, then one statement |
| **Public downloads** (`handlers.go`, `handlers_files.go`) | locals of each request | `publicSubscription`, `publicFileSubscription` | row, file row, blob, `RecordAccess`, body: five steps and no lock |
| **Sessions and password** (`auth.go`, `handlers.go`) | `settings.password_hash`, `session_version`, `must_change_password`; `sessions`; the browser's cookie | login, logout, change of password, `requireAdmin`, `requireCSRF`, purge | reads in one statement what it acts on in a later one, with bcrypt in between |
| **Settings and trusted proxies** (`clientip.go`, `handlers.go`) | `settings.trusted_proxies`; the parsed list behind an `RWMutex` | `updateSettings`, `resolve`, `isTrustedPeer` | stored in one step and put into effect in another |
| **Login limiter** (`app.go`) | failure window, count and lock per address, behind a mutex | `allowed`, `fail`, `success` | asked before and told after the slow comparison |
| **Access log** (`store.go`, `handlers.go`) | times of the rows of `access_logs`; the page a reader is on | record, clear, `AccessLogs` (count, then list a page) | pages are separate requests; rows come and go in between |
| **Clean-up loop** (`app.go`) | `settings.log_retention_days`; its place in the loop | at start and every 24 hours: delete old logs, purge sessions | reads the retention period, then deletes |
| **Migration** (`store.go`) | the schema | `migrate` at every start | tables, added columns, one initialisation; the pool's only connection |
| **Process** (`cmd/server/main.go`) | starting, serving, draining, down | start, stop | a stop waits ten seconds for requests, a kill ends them where they are |
| configuration, helpers, templates, script, packaging | none | | |

What is hard here:

* **Interleaving.** Every request is a goroutine. Statements are atomic,
  handlers are not, and only uploads and deletions of files share a lock, which
  covers part of each of them.
* **Two stores without a transaction across them.** A row in `files` and the
  blob it names are written and removed one after the other; either step may
  fail and the process may stop between them.
* **Decisions on loaded rows.** Toggle, edit, change of password, login and the
  clean-up act on what an earlier statement read.
* **Late arrivals.** A download is recorded after its subscription has moved
  on, once or several times, perhaps back to the same file.
* **Cascades.** Deleting a row changes up to three other tables, while
  counters in four tables are meant to agree.
* **Times as texts.** `RFC3339Nano` drops trailing zeros, and SQLite compares
  the texts: within a second their order is not the order in time.
* **Upgrades broken off.** Each statement of the migration commits by itself;
  the next start finds whatever the last one left.
* **Errors after effects.** A statement whose context is cancelled can report
  an error and yet have committed.

`PROJECT.json` lists each hazard at its line with the properties that would
catch it, or says why none does.

## 2. The models

```
  Store <-- Files <-- Downloads           Library (Files and Downloads implement it)
    ^  ^
    |  Lifecycle                          Times <-- AccessLog

  StoreProofs <-- FilesProofs <-- DownloadsProofs
    ^
    LifecycleProofs

  Sessions, Limiter, Proxies stand alone; SessionsProofs, LimiterProofs,
  ProxiesProofs, AccessLogProofs and the four above extend what they are about.
```

An arrow leads from a module to one it extends.

### Store

A database is a record of tables; a table is a function from keys to rows. Each
statement or transaction of `store.go` is a pair of operators: `CanOp(d, ...)`
says when SQLite and `expectOne` accept it (the WHERE clause finds its row, no
UNIQUE or FOREIGN KEY constraint is violated), `Op(d, ...)` is the database
afterwards, cascades included. Values that no property distinguishes are left
out: names, download names, addresses, times. A *content* stands for all that
follows from an upload's bytes (both digests, size, storage key). Log rows are
counted per (subscription, file). `Consistent` is what the schema and the
statements keep true.

### Files

The administrator's requests. `req[r]` holds a request's program counter and
locals; one action is one statement, one file operation or one acquisition of
`fileMu` together with the locals it sets. The steps of an upload:

| step | code | pc afterwards |
|---|---|---|
| `BeginCreate`, `BeginReplace`, `BeginReplaceAll` | checks of the handler, then `Stage` | `lock` |
| `LookupUpload` / `FailLookup` | `fileMu.Lock`, `FileByDigests` | `commit` / done |
| `Commit` / `FailCommit` | `FileStorage.Commit` | `insert`, or `attach` for known content / done |
| `InsertFile` / `FailInsert` | `CreateFile`, second `FileByDigests`, unlock | `attach` / done |
| `AttachNew`, `AttachReplace`, `AttachReplaceAll` / `FailAttach` | the statement that uses the file | done |

A deletion is `BeginDelete`, `LookupDelete` or `RefuseDelete`, `DeleteRow` or
`FailDeleteRow`, `RemoveBlob`. `toggleSubscription` and the file branch of
`updateSubscription` decide on the row they loaded and so take two steps.
Handlers whose single statement repeats every check take one (`CreateText`,
`UpdateText`, `BatchContent`, `DetachFile`, `DropSubscription`). `Crash` and
`Restart` stop and start the process anywhere. `orphan` is history: the
subscription a request had loaded has been deleted since.

A step that fails is an action of its own. `FailInsert`, `FailAttach`,
`FailDeleteRow` include the outcome in which the statement took effect and the
error came afterwards; `FailCommit` the one in which the renamed blob could not
be removed again.

### Downloads

Composes Files with visitors. A download goes through `BeginFetch`
(`SubscriptionByPath`), `LookupFile`, `OpenBlob`, `Record`, `Send`, with
`AbandonFetch` for errors; all administrator actions interleave. `served` is a
history variable: the accesses recorded under each revision of each
subscription. Nothing reads it but the properties.

### Library

The abstract specification: contents are listed, links serve a listed content
or nothing; add, remove, publish, switch, withdraw, retire, each in one step,
and a content can leave only while no link serves it. Files implements it with
`listed` = the contents of rows whose blob is there and `serves` = what a
subscription's row leads to. Ids, locks, pending requests, orphan blobs,
failures and restarts all disappear in the mapping; that they do is the point.

### Sessions

`settings` is the row with the password, the version and the must-change flag;
`sessions` maps tokens to version and expiry; `proved` is a history variable:
the password the owner of a token had shown. `Login` reads and compares,
`CreateSession` inserts with the version read; an admin request is
`LoadSession`, `LoadSettings` (the two statements of `requireAdmin`), then
`Logout`, or `CheckChange` and `ChangePassword`, or `Leave` for everything that
touches neither table. `Expire` is time passing `expires_at`, `Purge` the daily
deletion, `Restart` a start including the statement that seeds the settings.
Expiry is decided by comparing texts, so within the second in which a session
ends it may be refused, accepted again, and refused: `Expire` may change
`expired` either way until `over`, when that second has passed, and
`RefusedStaysRefused` begins there.

### Limiter

`attempts` is the map of `loginLimiter` with its windows and locks, `try` the
logins being compared, `now` a clock. The three operations of the limiter are
atomic as under its mutex; `Ask` and `fail`/`success` are separated by a
comparison that takes at least one tick. The comparisons with `>`, `>=` and
`<` are those of the code.

### Proxies

`stored` and `configured` are the list in the database and the one in force;
`Save` and `Apply` are the two steps of `updateSettings`. A request takes one
step per read lock: `LookAtPeer`, perhaps `LookAtDefault`, `LookAtHop` for each
hop. `Client` is the rule of the repository's README for one list, stated
without the walk. `seen` is a history variable: the lists in force since the
request arrived; `started` the environment list, chosen at the start. A list of prefixes is modelled by the set of addresses it
contains, which is all that `isTrusted` asks of it.

### Times and AccessLog

`Times` is what `dbTime` writes and how SQLite compares it. An instant is a
second and the digits of a fraction; its text is the second, the digits up to
the last one that is not zero, and a letter that compares above every digit.

`AccessLog` gives each log row its time. `Record`, `Clear` and `SaveRetention`
are the requests that change what the loop and the reader see; `LoadSettings`,
`CleanupLogs`, `FailCleanup` and `Ticker` are `cleanupLoop`; `OpenLog`,
`CountLogs`, `ListLogs` a reader following the links from page to page, each
page a COUNT and a SELECT. The clock runs on and may be set back. `saved` (the
period when the run began), `unseen` and `late` (what the reader has not been
shown, what was recorded between the two statements of a page) are history.

### Lifecycle

The statements of `migrate` as a list: what each one creates and what it names.
`Launch` starts the process; `CreateMissing`, `Inspect`, `ReadTableInfo`,
`AddColumn` and `BeginCounter`, `CommitCounter` carry out a statement of each
kind, `Refused` is one SQLite rejects, and `Kill` stops the process at any of
them. `conn` is what holds the only connection: the rows of `table_info` until
`rows.Next` has returned FALSE, a transaction, or nothing; a statement run while
something else holds it would wait for ever. `ReadTableInfo` may miss a column
that is there, for `rows.Err` is not looked at; `broken` is history: this start
has been killed or has missed one. Then `Listen`, downloads and changes of files as far as
`current_fetch_count` goes, `Signal`, and `Close` when the requests are done or
ten seconds are over. `counted` is a history variable: the count the README
promises. It shares the statements of `Store` with `Files`.

## 3. What TLC checks

| run | question | properties |
|---|---|---|
| `files` | do overlapping, failing, interrupted uploads and deletions keep rows and blobs together? do subscriptions that share files move together and under new revisions? can a request act on another subscription than the one it loaded? does all of it look like atomic steps on a library? | `TypeOK`, `RowHasBlob`, `UploadKeepsItsId`, `NoStrayUpload`, `RequestKeepsItsSubscription`, `ImplementsLibrary`, `NewFileNewRevision`, `ReplaceAllOrNone`, `OnlyTogglesEnableEmpty` |
| `downloads` | what happens to a download whose subscription changes under it? do the counters of files, pairs, subscriptions and logs agree, cascades included? | `DTypeOK`, `CurrentCountExact`, `CurrentFetchSucceeds`, `CountersAgree`, `NoDanglingRow`, `SameFileKeepsCount` |
| `live` | is every administrator's request answered, so that no path leaves `fileMu` locked? | `RequestsEnd` |
| `sessions` | who is accepted, and until when? | `TypeOK`, `SessionsProvePassword`, `RefusedStaysRefused`, `SessionsEndForAReason` |
| `limiter` | what do overlapping logins get past the limiter? | `TypeOK`, `GuessesPerWindow`, `OnlyOverlapsLiftLocks` |
| `access_log` | does a reader miss a row, is a row listed out of time, does the clean-up remove what it should keep or keep what it should remove? | `TypeOK`, `NothingSkipped`, `ListedByTime`, `RemovedAsSaved`, `ExpiredAreRemoved` |
| `lifecycle` | does every statement of the migration find what it names, from any release and after any stop? are counts initialised once? does a start that is not itself broken off go through, and does a stop end? | `LTypeOK`, `SchemaInOrder`, `CountsSurviveUpgrade`, `StartEnds`, `StopEnds` |
| `proxies` | does the hop-by-hop walk compute the documented rule, and what can it answer while the list changes? | `TypeOK`, `SteadyListRule`, `ReportersWereTrusted` |

Four runs end in a violation, each of something the repository says of itself:

* `enabled_without_file`: `toggleSubscription` writes the negation of the flag
  it loaded. Overtaken by a detachment it enables a subscription that has no
  file, which the form says is disabled (visitors get 404).
  `OnlyTogglesEnableEmpty` shows that it is the only way to get there.
* `overtaken_change`: of two overlapping changes of the password the later one
  is carried out although the first has invalidated its session and replaced
  the password it was asked for.
* `failure_lifts_lock`: a login let in before a lock and failing just after the
  window has ended replaces the limiter's entry, lock included. The lock of 15
  minutes then lasts as long as one password comparison.
* `saved_not_effective`: two saves stored in one order and applied in the other
  leave the resolver with a list that is not the stored one, until the next
  save or start. (The run leaves out saves that fail after being stored, which
  would be a shorter way to the same state.)

The counterexamples are finite and depend on no fairness.

Not runs, but visible in the models:

* After `saveUploadedFile` has returned, nothing is locked, so when the
  statement that uses the file fails and the handler answers that the upload is
  kept in the file list, another request may have deleted it.
* A run of the clean-up that has read a period (app.go:196) removes accesses by
  it although 0, "kept for ever" (settings.html:17), has been saved and answered
  before it deletes (app.go:203). `RemovedAsSaved` does not forbid this; it says
  that it is over with the end of that run.

### Bounds

All bounds are constants in the guards of the actions that would exceed them.

* *Requests.* Two administrator requests suffice for every race between two
  handlers; a third could only matter through a third party between two steps
  of one request, and the statements that take one step (`CreateText`,
  `DetachFile`, `DropSubscription`, ...) are such third parties in every run.
  `sessions` uses three requests.
* *Contents, rows.* Two contents are needed for "another content". `MaxFiles`
  bounds the ids that are handed out, `MaxSubs` likewise: two in `files`,
  `downloads` and, for files, `live`, so that a row can be deleted and another
  one, of the same or another content, inserted while a request still holds the
  first id; one in `enabled_without_file` and, for subscriptions, `live`, where
  no second row is needed. `MaxRevision` is 2 in `downloads` and `lifecycle`: a
  subscription publishes a file, leaves it and comes back to it, which is what
  makes comparing the file alone insufficient (the mutant of `CurrentCountExact`
  is that comparison). It is 1 in the runs about requests (`files`, `live`,
  `enabled_without_file`): no property of theirs relates revisions that are further apart.
* *Slices.* `files` and `downloads` leave out, by a CONSTRAINT, states that are
  large in several dimensions at once; TLC checks the states a step reaches
  there but does not go on from them. In `files`, with two subscriptions one of
  the two requests is idle or waits to take `fileMu`, and beside a text only
  one request is active. `downloads` is the union of one subscription that
  moves between two contents, and two subscriptions, file or text, of one
  content. What the properties say is about one subscription and its files, one
  file and its subscriptions, or one request and the state; the proofs of
  section 4 have no such limits.
* *Sessions.* Three tokens and three versions: a session from before a change,
  one from after it, and one of a change in between.
* *Limiter.* `Limit` and `Period` are parameters; what matters is that a window
  can end during a lock and that there are enough ticks for a second window
  (`MaxTime`). Three logins at a time reach the bound of `GuessesPerWindow`.
* *Access log.* One binary digit of fraction gives texts that are not in the
  order of time (`.1Z` before `Z`), and two seconds with a day of one second
  put rows on either side of a cutoff. Pages of one row make every row a page
  border; three rows let one be recorded, one removed and one missed. The
  liveness property names one row (`Watched`), since all are alike to the loop.
* *Lifecycle.* The migration has its real 19 statements. The old databases are
  an empty one, 1.0.1 with a text, and 1.1.1 with two subscriptions and every
  combination of totals up to one; `MaxFetches` and `MaxRevision` leave room for
  downloads before, during and after two changes of a file.
* *Proxies.* Three addresses and three hops allow a trusted hop on either side
  of an untrusted one; every subset of the addresses occurs as a list;
  `MaxLists = 2` lets the list change, and change back, during one request.

Symmetry is used for requests, contents, paths, texts, visitors, attempts and
addresses that no definition singles out (the initial password and the
addresses of the environment list are left out of it), and never with liveness.

### Fairness

`live`: `Proceed(r)` is weakly fair: a goroutine whose next step
needs no lock gets to run, and a statement or file operation returns, with a
result or an error. Waiting for `fileMu` is strongly fair: Go's `sync.Mutex`
switches to handing the lock to the longest waiter after a millisecond, so a
waiter does not starve although others take and release the lock for ever.
Nothing is assumed of administrators, visitors, crashes and restarts.

`access_log`: the ticker fires (`WF_vars(Ticker)`), and the two statements of
the loop are strongly fair: a run may fail, and the process may be restarted in
the middle of one, but not every time. `lifecycle`: `StartStep` is weakly fair,
statements return; `Close` is, because the context of `Shutdown` ends after ten
seconds. Nothing is assumed of visitors: a stop does not depend on them.

## 4. What is proved

`tlapm` checks these for every value of the constants: any number of requests,
visitors, logins, contents, paths and rows, any limit, period and page size.
Every safety and action property of the passing runs is among them, and so is
the refinement of `Library`, twice; only liveness is left to TLC.

| theorem | says |
|---|---|
| `FilesProofs!TypeCorrect` | `Spec => []TypeOK` |
| `FilesProofs!FilesAvailable` | `Spec => []RowHasBlob`: every listed file has its blob |
| `FilesProofs!UploadsKeepIds` | `Spec => []UploadKeepsItsId`: the id an upload returned never names other content |
| `FilesProofs!RowsResolve` | `Spec => []NoDanglingRow` |
| `FilesProofs!UploadsCleanUp` | `Spec => []NoStrayUpload` |
| `FilesProofs!RequestsKeepSubscriptions` | `Spec => []RequestKeepsItsSubscription` |
| `FilesProofs!RevisionsNameFiles` | `Spec => NewFileNewRevision` |
| `FilesProofs!ReplacesAll` | `Spec => ReplaceAllOrNone` |
| `FilesProofs!TogglesAlone` | `Spec => OnlyTogglesEnableEmpty` |
| `FilesProofs!RefinesLibrary` | `Spec => ImplementsLibrary` |
| `DownloadsProofs!DownloadsTypeCorrect` | `DSpec => []DTypeOK` |
| `DownloadsProofs!CurrentCountIsExact` | `DSpec => []CurrentCountExact` |
| `DownloadsProofs!CountersStayInAgreement` | `DSpec => []CountersAgree` |
| `DownloadsProofs!CurrentFetchesSucceed` | `DSpec => []CurrentFetchSucceeds` |
| `DownloadsProofs!RecordedRowsResolve` | `DSpec => []NoDanglingRow` |
| `DownloadsProofs!SameFileKeepsItsCount` | `DSpec => SameFileKeepsCount` |
| `DownloadsProofs!DownloadsRefineLibrary` | `DSpec => ImplementsLibrary` |
| `SessionsProofs!TypeCorrect` | `Spec => []TypeOK` |
| `SessionsProofs!AcceptedSessionsProvePassword` | `Spec => []SessionsProvePassword` |
| `SessionsProofs!RefusedForEver` | `Spec => RefusedStaysRefused` |
| `SessionsProofs!NothingElseEndsSessions` | `Spec => SessionsEndForAReason` |
| `LimiterProofs!TypeCorrect` | `Spec => []TypeOK` |
| `LimiterProofs!GuessesBounded` | `Spec => []GuessesPerWindow` |
| `LimiterProofs!OnlyOverlapsLift` | `Spec => OnlyOverlapsLiftLocks` |
| `ProxiesProofs!TypeCorrect` | `Spec => []TypeOK` |
| `ProxiesProofs!OnlyTrustedReporters` | `Spec => []ReportersWereTrusted` |
| `ProxiesProofs!OneListRule` | `Spec => []SteadyListRule` |
| `AccessLogProofs!TypeCorrect` | `Spec => []TypeOK` |
| `AccessLogProofs!ReadersSeeEverything` | `Spec => []NothingSkipped` |
| `AccessLogProofs!SortedBySecond` | `Spec => []ListedByTime` |
| `AccessLogProofs!CleanupKeepsPeriod` | `Spec => RemovedAsSaved` |
| `LifecycleProofs!TypeCorrect` | `Spec => []LTypeOK` |
| `LifecycleProofs!StartsInOrder` | `Spec => []SchemaInOrder` |
| `LifecycleProofs!CountsKept` | `Spec => []CountsSurviveUpgrade` |

**Store.** `StoreProofs` says once for each statement what it does to the
tables, and then sums the statements up: `Changes` lists those an administrator
can cause, and each keeps the tables well-typed and `Consistent`, lets rows
develop only as `Evolves` allows (ids are not reused, revisions grow, another
file comes with another revision and a count of zero), and hands out file ids
as `Succeeds` says. The proofs about `Files` and `Downloads` use these and do
not look at a statement again.

The counters are sums over tables of any size, and nothing can be proved about
a recursive sum. `Total` is therefore the cardinality of a set, that of the
single accesses, each a pair of a counter's key and a number (`Accesses`). A
row that goes takes accesses away, a new access adds one element
(`OneMoreAccess`), and the log rows whose file is deleted move to the rows
without a file by an injection (`UnfiledAccesses`), so that deletions make no
sum larger and nothing is said about how many rows there are.

**Files.** None of the invariants is inductive alone. `RowHasBlob` can be broken
by `InsertFile` unless the blob of the content being inserted is there, and by
`RemoveBlob` unless no row has the content being removed. `IInv` therefore says,
for each request, what it knows at its program counter (`RequestOK`): at
`insert` its blob exists, at `dblob` no row has its content, at `attach` its
id, if it is a row at all, has its content. Those facts are about one request
and the shared state; that no other request disturbs them is mutual exclusion
(`Mutex`: whoever is between the lookup and the unlock holds `fileMu`), and
that an id is not handed out again is `FileIdsBelow`. `ContentsUnique` ties a
content to one row. The proof has a lemma per action; actions that leave files,
blobs and the lock alone share `OutsideStep` and `QuietOK`.

`SInv` adds what the other theorems need: `Consistent`, what a request knows of
its subscription's id (`KeepsSub`; of all statements only a deletion takes a
subscription away, and it marks the requests that hold the id), and the staged
uploads. For the action
properties each step of `Next` is one of `Changes` (`StepChanges`), with the
set of subscriptions that a pending toggle may enable.

The refinement maps the state to the database alone, since every listed row has
its blob. Each statement is then an action of `Library` on `ListedOf` and
`ServesOf`, or changes neither; a lemma per kind of statement says which
(`Redirects` is what replacing, moving and detaching have in common), and what
touches no table is a stutter.

**Downloads.** A download holds no lock, so all it has is what its row said
when it was loaded. `FetchOK` says what that is still worth: while the row has
the revision it had, it has the file it had, that row is there, and the step
has not missed. It survives everybody else because tables only develop as
`Follows` says. `ServedOK` says that nothing was recorded under a revision to
come, so a new revision begins with an empty history, and `CurrentCountExact`
is kept when `Moves` sets a count to zero. `CurrentInHistory` and `AddsUp` are
the two halves of `CountersAgree`; `AddsUp` adds that the sums are finite. The
theorems about Files are not repeated: an administrator's step of `DNext` is a
step of `Next`, and recording an access is invisible to what the requests know
(`TalliedSInv`).

**Sessions.** The version orders the passwords in time. `IInv` says that
whoever holds a version, a session in the table or a request about to create
one, never holds a later one than the settings and holds the current one only
with the current password (`Dated`). `ChangePassword` makes all of them old at
once. `RefusedForEver` is an action property and follows from the same
invariant: an old version stays old because versions only grow, a session whose
last second is over stays expired, a deleted token is not drawn again.

**Limiter.** Once an address is locked nobody is let in before its window is
over, so the failures that can still be counted are those of logins that began
in the window and are still being compared (`InWindow`). `EntryOK` bounds the
count together with the number of those: each failure moves one from the latter
to the former. `TryOK` says that a login that is in progress while its address
is locked began before the lock was set, and that is what
`OnlyOverlapsLift` needs.

**Proxies.** At hop `i` of the walk everything to the right of `i` was trusted,
under some list of the request's time (`ReportersUpTo`) and, if there was only
one, under that one (`Steady`). The rightmost untrusted hop of a chain of any
length is then where the walk stops; if all are trusted the answer is the peer.

**Access log.** `AccessLogProofs` first shows that the comparison of texts is a
strict order, for any base and number of digits, and that it never puts a later
second before an earlier one (`SecondsFirst`); the last two theorems follow
from that. `NothingSkipped` speaks of the end of a walk; the invariant behind
it, `StillToCome`, says of every moment that the rows a reader has not seen are
not ahead of the page it is going to ask for, except for as many as were
recorded since the page was counted. New rows have the largest ids but not the
largest texts, and it is enough that each pushes the others back by at most
one. The clean-up removes a suffix of the listing (`CleanupTakesTheEnd`), so it
moves no row forward. The proof counts rows and rests on the theorems about
finite sets.

**Lifecycle.** `Carried` says that everything the statements before the current
one create is there; that no statement names anything else is a property of the
list, proved from its definition (`StatementFacts`), so `SchemaInOrder` holds
for any old schema, broken off and started again at will. For the counts, the
invariant distinguishes the time before the column is there (`NotYetCounted`:
the promise is still the old total) from the time after it; `CommitCounter`
leads from one to the other in one transaction, and a server that listens is
past it. `Loaded` is what makes a late download harmless: what it has loaded of
the present revision is the present file.

**Assumptions.** Those the modules state: `NoneAssumption` and
`InitialAssumption`, that the null value is not a member of the other sets and
that the initial password is a password; `BoundsAssumption`, that the bound on
subscriptions is a number; `LimitAssumption`, that limit and period are
positive; `ClientsAssumption`, that somebody can log in and
that the logins in progress at a time are finitely many; `ProxiesAssumption`,
that a chain that is present and valid has an address; `TimesAssumption` and
`AccessLogAssumption`, that numbers are numbers, a page has a row and a day a
second; `LifecycleAssumption`, that an old database is well-formed and does not
have the column of this release yet.

**Beyond the prover**, and checked by TLC only: liveness (`RequestsEnd`,
`ExpiredAreRemoved`, `StartEnds`, `StopEnds`), which needs
ENABLED. The four properties that the code violates have no theorem, of course.
In the place of `EnabledHasFile` stands `OnlyTogglesEnableEmpty`, in that of
`FailuresKeepLocks` stands `OnlyOverlapsLiftLocks`.

## 5. What the models assume and leave out

* A content stands for its digests: two uploads with equal md5, sha256 and size
  are the same bytes, and no two different ones collide.
* A stop of the process is not a power failure: what was committed or renamed
  stays. What `synchronous=NORMAL` may lose is not modelled: which commits
  reach the disk is decided by SQLite, the file system and the device, none of
  which this repository says anything about beyond asking for backups.
* The connection of the pool is the one the start has set up.
  `PRAGMA foreign_keys=ON` holds for a connection, and `OpenStore` runs it once:
  a connection that `database/sql` opened in place of a broken one would neither
  cascade nor restrict. Whether that can happen is up to the driver, which is
  not in the repository; `NoDanglingRow` and `CountersAgree` assume it does not.
* `AccessLog` lets the clock be set back, `Sessions` and `Limiter` do not. Years
  have four digits, so the text down to the second has a fixed width. Page
  numbers so large that the offset overflows are not modelled.
* Removing a *staged* file succeeds; a leftover would be swept at the next
  start. Removing a blob may fail, and the orphan is reused by the next upload
  of its content, as in the code.
* Streaming of bodies, names, times, addresses in logs, pages and templates,
  validation of forms (the inputs are those that pass it), the mux and its
  headers, configuration and packaging.
* Text subscriptions are recorded before they are answered and have no file;
  they are in `Downloads` as subscriptions without the two file steps.

## 6. Not modelled

* **Configuration** (`config.go`): read once at start, no behaviour over time.
* **Helpers** (`helpers.go`, `version.go`): stateless functions on strings.
* **Mux and middleware** (`app.go`): headers, body limits, the health check;
  they keep no state, so the component is only partly modelled.
* **Web interface and packaging**: presentation and build files.
* **Durability** after a power failure, for the reason in section 5.

## 7. Plan

What is left: a theorem for what holds in place of each violated property, as
sharp as the code allows (a changed password is overtaken only by a change that
was loaded before it; stored and configured lists differ only while or after
two saves overlap); the session half of the clean-up next to `AccessLog`; and
shorter proofs where steps repeat each other (`StoreProofs`).
