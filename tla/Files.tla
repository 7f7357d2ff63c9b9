------------------------------- MODULE Files -------------------------------
(***************************************************************************)
(* The administrator's side of sub-manager: uploading, replacing,          *)
(* detaching and deleting content-addressed files, and creating, editing,  *)
(* switching and deleting the subscriptions that publish them              *)
(* (handlers_files.go, handlers.go), over the database of Store and the    *)
(* directory of filestore.go.                                              *)
(*                                                                         *)
(* Every HTTP request runs in its own goroutine.  Statements of different  *)
(* requests interleave; fileMu is held from the digest lookup to the       *)
(* insertion of an upload, and from the second look at a file to the       *)
(* removal of its blob.  Any statement or file operation may also fail     *)
(* (disk full, client gone and its context cancelled), and the process may *)
(* stop between any two of them.                                           *)
(***************************************************************************)
EXTENDS Store

CONSTANTS
    Requests,    \* concurrent administrator requests
    None,        \* no request, no content, no path
    MaxFiles,    \* bound: rows ever inserted into files
    MaxSubs,     \* bound: rows ever inserted into subscriptions
    MaxRevision  \* bound: file_revision of a subscription

ASSUME NoneAssumption == None \notin Requests \cup Contents \cup Paths
ASSUME BoundsAssumption == MaxSubs \in Nat

VARIABLES
    db,      \* the database
    blobs,   \* contents whose file exists under its storage key
    temps,   \* requests whose staged upload exists under .tmp
    fileMu,  \* App.fileMu: the request holding it, or None
    req,     \* program counter and locals of each request
    up       \* the process is running

vars == <<db, blobs, temps, fileMu, req, up>>

UploadOps == {"create", "replace", "replaceAll"}

PCs == {"idle", "lock", "commit", "insert", "attach",
        "dlock", "drow", "dblob", "toggle", "edit"}

(* orphan is a history: the subscription the request loaded is deleted.    *)
ReqRow == [pc : PCs, op : UploadOps \cup {"none", "associate", "delete", "toggle", "edit"},
           sub : Nat, file : Nat, old : Nat,
           content : Contents \cup {None}, path : Paths \cup {None}, enabled : BOOLEAN,
           orphan : BOOLEAN]

Idle == [pc |-> "idle", op |-> "none", sub |-> 0, file |-> NoFile, old |-> NoFile,
         content |-> None, path |-> None, enabled |-> FALSE, orphan |-> FALSE]

TypeOK ==
    /\ Tables(db)
    /\ blobs \subseteq Contents
    /\ temps \subseteq Requests
    /\ fileMu \in Requests \cup {None}
    /\ req \in [Requests -> ReqRow]
    /\ up \in BOOLEAN

Init ==
    /\ db = EmptyDB
    /\ blobs = {}
    /\ temps = {}
    /\ fileMu = None
    /\ req = [r \in Requests |-> Idle]
    /\ up = TRUE

----------------------------------------------------------------------------
(* Requests and their steps.                                               *)

At(r, pc) == up /\ req[r].pc = pc
Begin(r, row) == At(r, "idle") /\ req' = [req EXCEPT ![r] = row]
Goto(r, pc) == req' = [req EXCEPT ![r] = [@ EXCEPT !.pc = pc]]
Finish(r) == req' = [req EXCEPT ![r] = Idle]

Unlock(r) == fileMu' = None

RoomForSub == db.subSeq < MaxSubs
RoomForRevision(S) == \A s \in S : db.subs[s].revision < MaxRevision

----------------------------------------------------------------------------
(* Uploads.  The handler checks its target, then Stage writes the whole    *)
(* body to a temporary file before anything is locked; a failed Stage      *)
(* leaves nothing behind and is not a step.                                *)

Staged(r, row) ==
    /\ Begin(r, row)
    /\ temps' = temps \cup {r}
    /\ UNCHANGED <<db, blobs, fileMu, up>>

BeginCreate(r, p, c, e) ==
    Staged(r, [Idle EXCEPT !.pc = "lock", !.op = "create", !.content = c,
                           !.path = p, !.enabled = e])

BeginReplace(r, s, c) ==
    /\ IsFileSub(db, s)
    /\ Staged(r, [Idle EXCEPT !.pc = "lock", !.op = "replace", !.content = c, !.sub = s])

BeginReplaceAll(r, f, c) ==
    /\ f \in DOMAIN db.files
    /\ Uses(db, f) # {}
    /\ Staged(r, [Idle EXCEPT !.pc = "lock", !.op = "replaceAll", !.content = c, !.old = f])

(* Mutant: saveUploadedFile does not take fileMu.                          *)
LookupUploadUnlocked(r) ==
    /\ At(r, "lock")
    /\ \E f \in DOMAIN db.files \cup {NoFile} :
        /\ FilesWith(db, req[r].content) = {f} \ {NoFile}
        /\ req' = [req EXCEPT ![r] = [@ EXCEPT !.pc = "commit", !.file = f]]
    /\ UNCHANGED <<db, blobs, temps, fileMu, up>>

(* fileMu.Lock and FileByDigests: the row that already has this content.   *)
(* A row with the same sha256 and another md5 or size cannot exist here,   *)
(* since one content stands for all three.                                 *)
LookupUpload(r) ==
    /\ At(r, "lock")
    /\ fileMu = None
    /\ fileMu' = r
    /\ \E f \in DOMAIN db.files \cup {NoFile} :
        /\ FilesWith(db, req[r].content) = {f} \ {NoFile}
        /\ req' = [req EXCEPT ![r] = [@ EXCEPT !.pc = "commit", !.file = f]]
    /\ UNCHANGED <<db, blobs, temps, up>>

(* The lookup fails: the staged file is discarded, fileMu released.        *)
FailLookup(r) ==
    /\ At(r, "lock")
    /\ fileMu = None
    /\ temps' = temps \ {r}
    /\ Finish(r)
    /\ UNCHANGED <<db, blobs, fileMu, up>>

(* FileStorage.Commit: a rename, or the staged file is dropped because the *)
(* blob is there.  With a known row the function returns and unlocks.      *)
Commit(r) ==
    /\ At(r, "commit")
    /\ blobs' = blobs \cup {req[r].content}
    /\ temps' = temps \ {r}
    /\ IF req[r].file = NoFile
       THEN Goto(r, "insert") /\ UNCHANGED fileMu
       ELSE Goto(r, "attach") /\ Unlock(r)
    /\ UNCHANGED <<db, up>>

(* Commit reports an error; after a failed chmod the renamed blob is       *)
(* removed again, and stays when that fails, too.                          *)
FailCommit(r) ==
    /\ At(r, "commit")
    /\ blobs' \in {blobs, blobs \cup {req[r].content}}
    /\ temps' = temps \ {r}
    /\ Finish(r)
    /\ Unlock(r)
    /\ UNCHANGED <<db, up>>

(* CreateFile; when the content turns out to be UNIQUE-taken, the second   *)
(* FileByDigests finds the row that took it.                               *)
InsertFile(r) ==
    /\ At(r, "insert")
    /\ \E f \in 1 .. db.fileSeq + 1 :
        /\ \/ /\ CanCreateFile(db, req[r].content)
              /\ db.fileSeq < MaxFiles
              /\ f = NextFileId(db)
              /\ db' = CreateFile(db, req[r].content)
           \/ /\ f \in FilesWith(db, req[r].content)
              /\ UNCHANGED db
        /\ req' = [req EXCEPT ![r] = [@ EXCEPT !.pc = "attach", !.file = f]]
    /\ Unlock(r)
    /\ UNCHANGED <<blobs, temps, up>>

(* Mutant: the error path returns with fileMu locked.                      *)
FailInsertLocked(r) ==
    /\ At(r, "insert")
    /\ Finish(r)
    /\ UNCHANGED <<db, blobs, temps, fileMu, up>>

(* CreateFile reports an error: nothing was inserted, or the row is there  *)
(* and reading it back failed.  The blob stays (handlers_files.go:98).     *)
FailInsert(r) ==
    /\ At(r, "insert")
    /\ \/ UNCHANGED db
       \/ /\ CanCreateFile(db, req[r].content)
          /\ db.fileSeq < MaxFiles
          /\ db' = CreateFile(db, req[r].content)
    /\ Finish(r)
    /\ Unlock(r)
    /\ UNCHANGED <<blobs, temps, up>>

----------------------------------------------------------------------------
(* The statement that uses the file, outside fileMu.                       *)

Publish(q) ==
    /\ q.op \in {"create", "associate"}
    /\ CanCreateFileSubscription(db, q.path, q.file)
    /\ RoomForSub
    /\ db' = CreateFileSubscription(db, q.path, q.file, q.enabled)

Switch(q) ==
    /\ q.op = "replace"
    /\ CanReplaceSubscriptionFile(db, q.sub, q.file)
    /\ RoomForRevision({q.sub})
    /\ db' = ReplaceSubscriptionFile(db, q.sub, q.file)

AttachNew(r) ==
    /\ At(r, "attach")
    /\ Publish(req[r])
    /\ Finish(r)
    /\ UNCHANGED <<blobs, temps, fileMu, up>>

AttachReplace(r) ==
    /\ At(r, "attach")
    /\ Switch(req[r])
    /\ Finish(r)
    /\ UNCHANGED <<blobs, temps, fileMu, up>>

AttachReplaceAll(r) ==
    LET q == req[r]
    IN  /\ At(r, "attach")
        /\ q.op = "replaceAll"
        /\ CanReplaceFileAssociations(db, q.old, q.file)
        /\ RoomForRevision(Uses(db, q.old))
        /\ db' = ReplaceFileAssociations(db, q.old, q.file)
        /\ Finish(r)
        /\ UNCHANGED <<blobs, temps, fileMu, up>>

(* The statement is rejected or fails; a single statement whose context is *)
(* cancelled reports an error even when it has taken effect.  The file and *)
(* its blob stay listed (handlers_files.go:39).                            *)
FailAttach(r) ==
    /\ At(r, "attach")
    /\ \/ UNCHANGED db
       \/ Publish(req[r])
       \/ Switch(req[r])
    /\ Finish(r)
    /\ UNCHANGED <<blobs, temps, fileMu, up>>

(* Mutant: the form's path is not passed on.                               *)
BeginAssociateWithoutPath(r, f, p, e) ==
    /\ f \in DOMAIN db.files
    /\ Begin(r, [Idle EXCEPT !.pc = "attach", !.op = "associate", !.file = f,
                             !.enabled = e])
    /\ UNCHANGED <<db, blobs, temps, fileMu, up>>

(* createFileAssociation: a subscription for a file already listed.        *)
BeginAssociate(r, f, p, e) ==
    /\ f \in DOMAIN db.files
    /\ Begin(r, [Idle EXCEPT !.pc = "attach", !.op = "associate", !.file = f,
                             !.path = p, !.enabled = e])
    /\ UNCHANGED <<db, blobs, temps, fileMu, up>>

----------------------------------------------------------------------------
(* deleteStoredFile.                                                       *)

BeginDelete(r, f) ==
    /\ f \in DOMAIN db.files
    /\ Begin(r, [Idle EXCEPT !.pc = "dlock", !.op = "delete", !.file = f])
    /\ UNCHANGED <<db, blobs, temps, fileMu, up>>

(* Mutant: deleteStoredFile does not take fileMu.                          *)
LookupDeleteUnlocked(r) ==
    /\ At(r, "dlock")
    /\ req[r].file \in DOMAIN db.files
    /\ Uses(db, req[r].file) = {}
    /\ req' = [req EXCEPT ![r] = [@ EXCEPT !.pc = "drow",
                                           !.content = db.files[req[r].file].content]]
    /\ UNCHANGED <<db, blobs, temps, fileMu, up>>

(* fileMu.Lock, then FileByID again and the association count it returns.  *)
LookupDelete(r) ==
    /\ At(r, "dlock")
    /\ fileMu = None
    /\ fileMu' = r
    /\ req[r].file \in DOMAIN db.files
    /\ Uses(db, req[r].file) = {}
    /\ req' = [req EXCEPT ![r] = [@ EXCEPT !.pc = "drow",
                                           !.content = db.files[req[r].file].content]]
    /\ UNCHANGED <<db, blobs, temps, up>>

(* Gone, still associated, or the query failed.                            *)
RefuseDelete(r) ==
    /\ At(r, "dlock")
    /\ fileMu = None
    /\ Finish(r)
    /\ UNCHANGED <<db, blobs, temps, fileMu, up>>

DeleteRow(r) ==
    /\ At(r, "drow")
    /\ CanDeleteFile(db, req[r].file)
    /\ db' = DeleteFile(db, req[r].file)
    /\ Goto(r, "dblob")
    /\ UNCHANGED <<blobs, temps, fileMu, up>>

(* The row is in use again, or the statement failed; a cancelled context   *)
(* reports an error even when the row has been deleted.                    *)
FailDeleteRow(r) ==
    /\ At(r, "drow")
    /\ \/ UNCHANGED db
       \/ CanDeleteFile(db, req[r].file) /\ db' = DeleteFile(db, req[r].file)
    /\ Finish(r)
    /\ Unlock(r)
    /\ UNCHANGED <<blobs, temps, up>>

(* FileStorage.Remove; a failure is only logged (handlers_files.go:330).   *)
RemoveBlob(r) ==
    /\ At(r, "dblob")
    /\ \/ blobs' = blobs \ {req[r].content}
       \/ UNCHANGED blobs
    /\ Finish(r)
    /\ Unlock(r)
    /\ UNCHANGED <<db, temps, up>>

----------------------------------------------------------------------------
(* toggleSubscription decides on the row it loaded, and so does            *)
(* updateSubscription for a file subscription.                             *)

BeginToggle(r, s) ==
    /\ s \in DOMAIN db.subs
    /\ ~(db.subs[s].type = "file" /\ ~db.subs[s].enabled /\ db.subs[s].file = NoFile)
    /\ Begin(r, [Idle EXCEPT !.pc = "toggle", !.op = "toggle", !.sub = s,
                             !.enabled = ~db.subs[s].enabled])
    /\ UNCHANGED <<db, blobs, temps, fileMu, up>>

FinishToggle(r) ==
    /\ At(r, "toggle")
    /\ \/ /\ CanSetSubscriptionEnabled(db, req[r].sub)
          /\ db' = SetSubscriptionEnabled(db, req[r].sub, req[r].enabled)
       \/ UNCHANGED db
    /\ Finish(r)
    /\ UNCHANGED <<blobs, temps, fileMu, up>>

BeginEdit(r, s, p, e) ==
    /\ IsFileSub(db, s)
    /\ ~(e /\ db.subs[s].file = NoFile)
    /\ Begin(r, [Idle EXCEPT !.pc = "edit", !.op = "edit", !.sub = s,
                             !.path = p, !.enabled = e])
    /\ UNCHANGED <<db, blobs, temps, fileMu, up>>

FinishEdit(r) ==
    LET q == req[r]
    IN  /\ At(r, "edit")
        /\ \/ /\ CanUpdateFileSubscription(db, q.sub, q.path, q.enabled)
              /\ db' = UpdateFileSubscription(db, q.sub, q.path, q.enabled)
           \/ UNCHANGED db
        /\ Finish(r)
        /\ UNCHANGED <<blobs, temps, fileMu, up>>

----------------------------------------------------------------------------
(* Handlers whose one statement decides everything: what they load first   *)
(* (the type of a subscription) never changes, and ids are not reused.     *)

Statement(can, new) ==
    /\ up
    /\ can
    /\ db' = new
    /\ UNCHANGED <<blobs, temps, fileMu, req, up>>

CreateText(p, t, e) ==
    Statement(CanCreateSubscription(db, p) /\ RoomForSub, CreateSubscription(db, p, t, e))

UpdateText(s, p, t, e) ==
    Statement(CanUpdateSubscription(db, s, p), UpdateSubscription(db, s, p, t, e))

BatchContent(S, t) ==
    Statement(CanBatchUpdateContent(db, S), BatchUpdateContent(db, S, t))

DetachFile(s) ==
    Statement(CanDetachSubscriptionFile(db, s) /\ RoomForRevision({s}),
              DetachSubscriptionFile(db, s))

DropSubscription(s) ==
    /\ up
    /\ CanDeleteSubscription(db, s)
    /\ db' = DeleteSubscription(db, s)
    /\ req' = [r \in Requests |-> IF req[r].sub = s THEN [req[r] EXCEPT !.orphan = TRUE]
                                  ELSE req[r]]
    /\ UNCHANGED <<blobs, temps, fileMu, up>>

----------------------------------------------------------------------------
(* The process stops: goroutines and fileMu are gone, the database and the *)
(* directory stay.  NewFileStorage then removes stale uploads.             *)

Crash ==
    /\ up
    /\ up' = FALSE
    /\ req' = [r \in Requests |-> Idle]
    /\ fileMu' = None
    /\ UNCHANGED <<db, blobs, temps>>

(* Mutant: stale uploads survive a restart.                                *)
RestartKeepingTemps ==
    /\ ~up
    /\ up' = TRUE
    /\ UNCHANGED <<db, blobs, temps, fileMu, req>>

Restart ==
    /\ ~up
    /\ up' = TRUE
    /\ temps' = {}
    /\ UNCHANGED <<db, blobs, fileMu, req>>

----------------------------------------------------------------------------

Arrive(r) ==
    \/ \E p \in Paths, c \in Contents, e \in BOOLEAN : BeginCreate(r, p, c, e)
    \/ \E s \in DOMAIN db.subs, c \in Contents : BeginReplace(r, s, c)
    \/ \E f \in DOMAIN db.files, c \in Contents : BeginReplaceAll(r, f, c)
    \/ \E f \in DOMAIN db.files, p \in Paths, e \in BOOLEAN : BeginAssociate(r, f, p, e)
    \/ \E f \in DOMAIN db.files : BeginDelete(r, f)
    \/ \E s \in DOMAIN db.subs : BeginToggle(r, s)
    \/ \E s \in DOMAIN db.subs, p \in Paths, e \in BOOLEAN : BeginEdit(r, s, p, e)

(* Waiting for fileMu, and everything a request does without waiting.      *)
Acquire(r) == LookupUpload(r) \/ FailLookup(r) \/ LookupDelete(r) \/ RefuseDelete(r)

Proceed(r) ==
    \/ Commit(r) \/ FailCommit(r) \/ InsertFile(r) \/ FailInsert(r)
    \/ AttachNew(r) \/ AttachReplace(r) \/ AttachReplaceAll(r) \/ FailAttach(r)
    \/ DeleteRow(r) \/ FailDeleteRow(r) \/ RemoveBlob(r)
    \/ FinishToggle(r) \/ FinishEdit(r)

AtOnce ==
    \/ \E p \in Paths, t \in Texts, e \in BOOLEAN : CreateText(p, t, e)
    \/ \E s \in DOMAIN db.subs, p \in Paths, t \in Texts, e \in BOOLEAN : UpdateText(s, p, t, e)
    \/ \E S \in SUBSET (1 .. db.subSeq), t \in Texts : BatchContent(S, t)
    \/ \E s \in DOMAIN db.subs : DetachFile(s) \/ DropSubscription(s)

(* What administrators do to a running process, and what starts one.       *)
Admin ==
    \/ \E r \in Requests : Arrive(r) \/ Acquire(r) \/ Proceed(r)
    \/ AtOnce
    \/ Restart

Next == Admin \/ Crash

Spec == Init /\ [][Next]_vars

(* A handler that can take its next step does; sync.Mutex hands the lock   *)
(* to a waiter that has waited for a millisecond, so none starves.         *)
Fairness ==
    \A r \in Requests : WF_vars(Proceed(r)) /\ SF_vars(Acquire(r))

FairSpec == Spec /\ Fairness
----------------------------------------------------------------------------
(* Safety.                                                                 *)

Holding == {"commit", "insert", "drow", "dblob"}

(* Every file the administrator sees listed can be opened: its blob is in  *)
(* the directory.  An upload writes the blob before the row and a deletion *)
(* removes the row before the blob, so an upload of the same content that  *)
(* slips between the two steps of a deletion would lose its blob; fileMu   *)
(* is what keeps them apart.                                               *)
RowHasBlob == \A f \in DOMAIN db.files : db.files[f].content \in blobs

(* Between saveUploadedFile and the statement that uses its result nothing *)
(* is locked, so the row may be deleted meanwhile; but the id still names  *)
(* the uploaded content or nothing, never somebody else's upload.          *)
UploadKeepsItsId ==
    \A r \in Requests :
        /\ req[r].pc = "attach"
        /\ req[r].op \in UploadOps
        /\ req[r].file \in DOMAIN db.files
        => db.files[req[r].file].content = req[r].content

(* A request acts on the subscription it loaded or on none: once that is   *)
(* deleted its id names nothing, whatever is created meanwhile, for ids are*)
(* never handed out again (AUTOINCREMENT, store.go:146); until then what a *)
(* replacement or an edit loaded as a file subscription is one.            *)
RequestKeepsItsSubscription ==
    \A r \in Requests :
        /\ req[r].orphan => req[r].sub \notin DOMAIN db.subs
        /\ req[r].op \in {"replace", "edit"} /\ ~req[r].orphan => IsFileSub(db, req[r].sub)

(* Subscriptions, statistics and logs refer to rows that exist, whatever   *)
(* deletions and insertions overlap: the association count is read in one  *)
(* statement and the row deleted in another.                               *)
NoDanglingRow == ReferencesResolve(db)

(* While the process runs, the staged uploads on disk are exactly those of *)
(* requests between Stage and Commit: no error path and no crash leaks one.*)
NoStrayUpload == up => temps = {r \in Requests : req[r].pc \in {"lock", "commit"}}

(* What templates/subscription_form.html:51 and handlers.go:324 say: a     *)
(* file subscription without a file is disabled until one is uploaded.     *)
EnabledHasFile ==
    \A s \in DOMAIN db.subs :
        IsFileSub(db, s) /\ db.subs[s].enabled => db.subs[s].file # NoFile

----------------------------------------------------------------------------
(* Action properties.                                                      *)

(* A subscription that publishes another file, or none, does so under a    *)
(* new revision with its current counter at zero, and revisions only grow: *)
(* a revision a download has loaded names one file for ever.               *)
NewFileNewRevision ==
    [][\A s \in DOMAIN db.subs \cap DOMAIN db'.subs :
          LET old == db.subs[s]
              new == db'.subs[s]
          IN  /\ new.revision >= old.revision
              /\ new.file # old.file => new.revision > old.revision /\ new.current = 0]_vars

(* Replacing a file in the file list moves all of its subscriptions or, on *)
(* any error, none: the statement is not limited to those the page showed. *)
ReplaceAllOrNone ==
    [][\A r \in Requests :
          req[r].op = "replaceAll" /\ req[r].pc = "attach" /\ req'[r].pc # "attach" =>
              \/ db' = db
              \/ /\ Uses(db', req[r].old) = {}
                 /\ Uses(db', req[r].file) = Uses(db, req[r].file) \cup Uses(db, req[r].old)]_vars

(* Only a toggle that decided on an older row can enable a subscription    *)
(* that has no file; saving the edit form never does, because its UPDATE   *)
(* checks file_id again.                                                   *)
OnlyTogglesEnableEmpty ==
    [][\A s \in DOMAIN db'.subs :
          /\ IsFileSub(db', s) /\ db'.subs[s].enabled /\ db'.subs[s].file = NoFile
          /\ ~(s \in DOMAIN db.subs /\ db.subs[s].enabled /\ db.subs[s].file = NoFile)
          => \E r \in Requests : req[r].pc = "toggle" /\ req[r].sub = s]_vars

----------------------------------------------------------------------------
(* Liveness, under FairSpec.                                               *)

(* Every request is answered, or dies with the process: no error path      *)
(* leaves fileMu locked for the requests that wait for it.                 *)
RequestsEnd == \A r \in Requests : req[r].pc # "idle" ~> req[r].pc = "idle"

----------------------------------------------------------------------------
(* Files implements Library: an administrator's view without requests,     *)
(* locks, ids and blobs.  A subscription serves a content when its row     *)
(* leads to a file row and the file row to a blob.                         *)

Readable == {f \in DOMAIN db.files : db.files[f].content \in blobs}

Serves(s) ==
    IF db.subs[s].file \in Readable THEN db.files[db.subs[s].file].content ELSE None

Lib == INSTANCE Library WITH
    Links <- 1 .. MaxSubs,
    Nothing <- None,
    listed <- {db.files[f].content : f \in Readable},
    serves <- [s \in DOMAIN db.subs |-> Serves(s)]

(* The overlapping, failing and restarting requests show subscribers and   *)
(* the administrator nothing but the atomic steps of Library: a link stops *)
(* serving its content only when it is switched, withdrawn or retired.     *)
ImplementsLibrary == Lib!Spec
=============================================================================
