----------------------------- MODULE Downloads -----------------------------
(***************************************************************************)
(* The public side: GET and HEAD requests for subscription paths           *)
(* (publicSubscription, publicFileSubscription) next to the administrator's*)
(* requests of Files.  A download loads the subscription row, then the file*)
(* row, opens the blob, records the access and streams the open handle, and*)
(* takes no lock between these steps: the subscription it is serving may be*)
(* repointed, detached or deleted, and the file deleted, at any of them.   *)
(***************************************************************************)
EXTENDS Files

CONSTANTS
    Visitors,   \* concurrent public requests
    MaxFetches  \* bound: fetch_count of a subscription

VARIABLES
    fetch,      \* program counter and locals of each public request
    served      \* history: accesses recorded per (subscription, revision)

dvars == <<fetch, served>>
allVars == <<vars, dvars>>

FetchRow == [pc : {"idle", "lookup", "open", "record", "send", "missed"},
             head : BOOLEAN, sub : Nat, revision : Nat, file : Nat,
             content : Contents \cup {None}]

NoFetch == [pc |-> "idle", head |-> FALSE, sub |-> 0, revision |-> 0,
            file |-> NoFile, content |-> None]

DTypeOK ==
    /\ TypeOK
    /\ fetch \in [Visitors -> FetchRow]
    /\ served \in [DOMAIN served -> Nat]
    /\ DOMAIN served \subseteq Nat \X Nat

DInit ==
    /\ Init
    /\ fetch = [v \in Visitors |-> NoFetch]
    /\ served = Empty

FetchAt(v, pc) == up /\ fetch[v].pc = pc
FetchGoto(v, pc) == fetch' = [fetch EXCEPT ![v] = [@ EXCEPT !.pc = pc]]
FetchEnd(v) == fetch' = [fetch EXCEPT ![v] = NoFetch]

----------------------------------------------------------------------------

(* Mutant: revisions counted from zero; that of a text becomes negative.    *)
BeginFetchFromZero(v, p, h) ==
    \E s \in Servable(db, p) :
        LET row == db.subs[s]
        IN  /\ FetchAt(v, "idle")
            /\ row.type = "file" => row.file # NoFile
            /\ fetch' = [fetch EXCEPT ![v] =
                   [pc |-> IF row.type = "file" THEN "lookup" ELSE "record",
                    head |-> h, sub |-> s, revision |-> row.revision - 1,
                    file |-> row.file, content |-> None]]
            /\ UNCHANGED <<vars, served>>

(* SubscriptionByPath: the enabled subscription of the path, if any.  A    *)
(* file subscription without a file is a 404, a text subscription has no   *)
(* file to look up and is recorded whatever the method.                    *)
BeginFetch(v, p, h) ==
    \E s \in Servable(db, p) :
        LET row == db.subs[s]
        IN  /\ FetchAt(v, "idle")
            /\ row.type = "file" => row.file # NoFile
            /\ fetch' = [fetch EXCEPT ![v] =
                   [pc |-> IF row.type = "file" THEN "lookup" ELSE "record",
                    head |-> h, sub |-> s, revision |-> row.revision,
                    file |-> row.file, content |-> None]]
            /\ UNCHANGED <<vars, served>>

(* FileByID.                                                               *)
LookupFile(v) ==
    LET f == fetch[v].file
    IN  /\ FetchAt(v, "lookup")
        /\ IF f \in DOMAIN db.files
           THEN fetch' = [fetch EXCEPT ![v] =
                    [@ EXCEPT !.pc = "open", !.content = db.files[f].content]]
           ELSE FetchGoto(v, "missed")
        /\ UNCHANGED <<vars, served>>

(* fileStorage.Open; the handle outlives a later removal of the blob.      *)
OpenBlob(v) ==
    /\ FetchAt(v, "open")
    /\ FetchGoto(v, IF fetch[v].content \notin blobs THEN "missed"
                    ELSE IF fetch[v].head THEN "send"
                    ELSE "record")
    /\ UNCHANGED <<vars, served>>

(* RecordAccess with the file and revision loaded at the start.            *)
Record(v) ==
    LET q == fetch[v]
        key == <<q.sub, q.revision>>
    IN  /\ FetchAt(v, "record")
        /\ CanRecordAccess(db, q.sub, q.file)
        /\ db.subs[q.sub].fetches < MaxFetches
        /\ db' = RecordAccess(db, q.sub, q.file, q.revision)
        /\ served' = Put(served, key, Count(served, key) + 1)
        /\ FetchGoto(v, "send")
        /\ UNCHANGED <<blobs, temps, fileMu, req, up>>

(* Any statement or file operation may fail, and the transaction does when *)
(* the subscription or the file is gone; a missing row or blob is answered *)
(* with an error.  Nothing was recorded: the visitor gets no content.      *)
AbandonFetch(v) ==
    /\ fetch[v].pc \in {"lookup", "open", "record", "missed"}
    /\ up
    /\ FetchEnd(v)
    /\ UNCHANGED <<vars, served>>

(* io.Copy from the open handle, or only the headers.                      *)
Send(v) ==
    /\ FetchAt(v, "send")
    /\ FetchEnd(v)
    /\ UNCHANGED <<vars, served>>

(* clearSubscriptionLogs.                                                  *)
ClearLogs(s) ==
    /\ up
    /\ db' = ClearAccessLogs(db, s)
    /\ UNCHANGED <<blobs, temps, fileMu, req, up, fetch, served>>

ServeStep(v) ==
    LookupFile(v) \/ OpenBlob(v) \/ Record(v) \/ AbandonFetch(v) \/ Send(v)

DNext ==
    \/ \E v \in Visitors, p \in Paths, h \in BOOLEAN : BeginFetch(v, p, h)
    \/ \E v \in Visitors : ServeStep(v)
    \/ \E s \in DOMAIN db.subs : ClearLogs(s)
    \/ Admin /\ UNCHANGED dvars
    \/ Crash /\ fetch' = [v \in Visitors |-> NoFetch] /\ UNCHANGED served

DSpec == DInit /\ [][DNext]_allVars

----------------------------------------------------------------------------
(* Safety.                                                                 *)

(* The "fetches since the last update" column counts exactly the accesses  *)
(* recorded for downloads that were serving the current revision: late     *)
(* downloads of an older one, also one that published the same file before,*)
(* count towards history only (store.go:598, README.md:48).                *)
CurrentCountExact ==
    \A s \in DOMAIN db.subs : IsFileSub(db, s) =>
        db.subs[s].current = Count(served, <<s, db.subs[s].revision>>)

(* What a download has loaded goes out of date only with the revision: as  *)
(* long as the subscription still has it, the subscription has that file,  *)
(* the row and blob are there and the access can be recorded.  So nobody   *)
(* gets "not found" or "temporarily unavailable" for a file in use.        *)
CurrentFetchSucceeds ==
    \A v \in Visitors :
        LET q == fetch[v]
        IN  /\ q.pc \in {"lookup", "open", "record", "missed"}
            /\ q.sub \in DOMAIN db.subs
            /\ db.subs[q.sub].revision = q.revision
            /\ IsFileSub(db, q.sub)
            => /\ q.pc # "missed"
               /\ db.subs[q.sub].file = q.file
               /\ q.file \in DOMAIN db.files
               /\ db.files[q.file].content \in blobs

(* The four counters of an access move together and are deleted in order:  *)
(* a subscription's current count is part of its pair's, the pairs of a    *)
(* file add up to no more than its downloads, those of a subscription, and *)
(* its log rows, to no more than its lifetime fetches.                     *)
CountersAgree == CurrentInHistory(db) /\ CountersAddUp(db)

----------------------------------------------------------------------------
(* Action properties.                                                      *)

(* Uploading the content a subscription already publishes, replacing the   *)
(* file by itself or moving other subscriptions onto it does not reset the *)
(* subscription's current count (README.md:48).                            *)
SameFileKeepsCount ==
    [][\A s \in DOMAIN db.subs \cap DOMAIN db'.subs :
          /\ db.subs[s].file # NoFile
          /\ db'.subs[s].file = db.subs[s].file
          => db'.subs[s].current >= db.subs[s].current]_allVars
=============================================================================
