---------------------------- MODULE FilesProofs ----------------------------
(***************************************************************************)
(* Type correctness and the safety invariants of Files, for every set of   *)
(* requests, contents, paths and texts and every value of the bounds.      *)
(***************************************************************************)
EXTENDS Files, StoreProofs

(* What a request knows about the database d and the directory b, beyond   *)
(* the types of its locals.  The conjuncts about "commit", "insert", "drow"*)
(* and "dblob" hold because the request holds fileMu there; the one about  *)
(* "attach" must survive everybody else's steps, and does because ids are  *)
(* never reused.                                                           *)
RequestOK(q, d, b) ==
    /\ q.pc \in {"lock", "commit", "insert"} => q.op \in UploadOps
    /\ q.op \in UploadOps => q.content \in Contents
    /\ q.op \in {"create", "associate", "edit"} => q.path \in Paths
    /\ q.pc = "edit" => q.op = "edit"
    /\ q.pc = "commit" /\ q.file # NoFile => q.file \in FilesWith(d, q.content)
    /\ q.pc = "insert" => q.content \in b
    /\ q.pc = "attach" /\ q.op \in UploadOps =>
          /\ q.file \in 0 .. d.fileSeq
          /\ q.file \in DOMAIN d.files => q.file \in FilesWith(d, q.content)
    /\ q.pc = "drow" => q.file \in FilesWith(d, q.content)
    /\ q.pc = "dblob" => FilesWith(d, q.content) = {}

FileIdsBelow == DOMAIN db.files \subseteq 1 .. db.fileSeq

Mutex == \A r \in Requests : req[r].pc \in Holding <=> fileMu = r

StoppedIsIdle == ~up => req = [r \in Requests |-> Idle]

IInv ==
    /\ TypeOK
    /\ FileIdsBelow
    /\ ContentsUnique(db)
    /\ RowHasBlob
    /\ Mutex
    /\ StoppedIsIdle
    /\ \A r \in Requests : RequestOK(req[r], db, blobs)

----------------------------------------------------------------------------
(* RequestOK depends on little.                                            *)

LEMMA IdleOK ==
    ASSUME NEW d, NEW b
    PROVE  Idle \in ReqRow /\ RequestOK(Idle, d, b) /\ Idle.pc \notin Holding
BY DEF Idle, ReqRow, PCs, UploadOps, RequestOK, Holding, NoFile

LEMMA SameFilesOK ==
    ASSUME NEW q, NEW d, NEW e, NEW b, RequestOK(q, d, b),
           e.files = d.files, e.fileSeq = d.fileSeq
    PROVE  RequestOK(q, e, b)
BY DEF RequestOK, FilesWith

LEMMA QuietOK ==
    ASSUME NEW q \in ReqRow, NEW d, NEW e, NEW b, NEW c,
           RequestOK(q, d, b), q.pc \notin Holding, Succeeds(d, e)
    PROVE  RequestOK(q, e, c)
<1>1. /\ q.pc # "commit" /\ q.pc # "insert" /\ q.pc # "drow" /\ q.pc # "dblob"
      /\ q.file \in Nat
  BY DEF Holding, ReqRow
<1>2. ASSUME q.pc = "attach", q.op \in UploadOps
      PROVE  /\ q.file \in 0 .. e.fileSeq
             /\ q.file \in DOMAIN e.files => q.file \in FilesWith(e, q.content)
  <2>1. q.file \in 0 .. d.fileSeq /\ (q.file \in DOMAIN d.files => q.file \in FilesWith(d, q.content))
    BY <1>2 DEF RequestOK
  <2>2. q.file \in 0 .. e.fileSeq
    BY <1>1, <2>1 DEF Succeeds
  <2>3. q.file \in DOMAIN e.files => q.file \in FilesWith(e, q.content)
    BY <2>1 DEF Succeeds, FilesWith
  <2> QED BY <2>2, <2>3
<1> QED BY <1>1, <1>2 DEF RequestOK

----------------------------------------------------------------------------
(* The two kinds of steps of a request.                                    *)

(* Outside fileMu: whatever the statement does to other tables, files and  *)
(* blobs stay as they are.                                                 *)
LEMMA OutsideStep ==
    ASSUME IInv, up, NEW r \in Requests, NEW row \in ReqRow,
           req' = [req EXCEPT ![r] = row],
           req[r].pc \notin Holding, row.pc \notin Holding,
           RequestOK(row, db', blobs),
           KeepsFiles(db, db'),
           temps' \subseteq Requests,
           UNCHANGED <<blobs, fileMu, up>>
    PROVE  IInv'
<1>1. TypeOK'
  BY DEF IInv, TypeOK, KeepsFiles
<1>2. FileIdsBelow' /\ ContentsUnique(db)' /\ RowHasBlob'
  BY DEF IInv, FileIdsBelow, ContentsUnique, RowHasBlob, KeepsFiles
<1>3. Mutex'
  BY DEF IInv, Mutex, TypeOK
<1>4. StoppedIsIdle'
  BY DEF StoppedIsIdle
<1>5. ASSUME NEW x \in Requests
      PROVE  RequestOK(req'[x], db', blobs')
  <2>1. CASE x = r
    BY <2>1 DEF IInv, TypeOK
  <2>2. CASE x # r
    BY <2>2, SameFilesOK DEF IInv, TypeOK, KeepsFiles
  <2> QED BY <2>1, <2>2
<1> QED BY <1>1, <1>2, <1>3, <1>4, <1>5 DEF IInv

(* Taking fileMu, under it, or releasing it: nobody else holds it.         *)
LEMMA InsideStep ==
    ASSUME IInv, up, NEW r \in Requests, NEW row \in ReqRow,
           req' = [req EXCEPT ![r] = row],
           fileMu = None \/ req[r].pc \in Holding,
           fileMu' = IF row.pc \in Holding THEN r ELSE None,
           RequestOK(row, db', blobs'),
           Tables(db'), Succeeds(db, db'), FileIdsBelow', ContentsUnique(db'), RowHasBlob',
           blobs' \subseteq Contents, temps' \subseteq Requests, up' = up
    PROVE  IInv'
<1>1. TypeOK'
  BY DEF IInv, TypeOK
<1>2. ASSUME NEW x \in Requests, x # r
      PROVE  /\ req'[x] = req[x]
             /\ req[x].pc \notin Holding
             /\ RequestOK(req[x], db, blobs)
             /\ req[x] \in ReqRow
  BY <1>2, NoneAssumption DEF IInv, TypeOK, Mutex
<1>3. req'[r] = row
  BY DEF IInv, TypeOK
<1>4. Mutex'
  BY <1>2, <1>3, NoneAssumption DEF Mutex
<1>5. StoppedIsIdle'
  BY DEF StoppedIsIdle
<1>6. ASSUME NEW x \in Requests
      PROVE  RequestOK(req'[x], db', blobs')
  <2>1. CASE x = r
    BY <1>3, <2>1
  <2>2. CASE x # r
    BY <1>2, <2>2, QuietOK
  <2> QED BY <2>1, <2>2
<1> QED BY <1>1, <1>4, <1>5, <1>6 DEF IInv

----------------------------------------------------------------------------
(* Initial states, and the steps that leave every request alone.           *)

LEMMA InitEstablishes == Init => IInv
<1> SUFFICES ASSUME Init PROVE IInv
  OBVIOUS
<1>1. Tables(db) /\ DOMAIN db.files = {} /\ db.fileSeq = 0
  BY EmptyTables DEF Init, EmptyDB, Empty
<1>2. TypeOK
  BY <1>1, IdleOK DEF Init, TypeOK
<1>3. FileIdsBelow /\ ContentsUnique(db) /\ RowHasBlob
  BY <1>1 DEF FileIdsBelow, ContentsUnique, RowHasBlob
<1>4. Mutex /\ StoppedIsIdle
  BY IdleOK, NoneAssumption DEF Init, Mutex, StoppedIsIdle
<1>5. \A r \in Requests : RequestOK(req[r], db, blobs)
  BY IdleOK DEF Init
<1> QED BY <1>2, <1>3, <1>4, <1>5 DEF IInv

LEMMA StatementStep ==
    ASSUME IInv, up, KeepsFiles(db, db'), UNCHANGED <<blobs, temps, fileMu, req, up>>
    PROVE  IInv'
<1>1. TypeOK'
  BY DEF IInv, TypeOK, KeepsFiles
<1>2. FileIdsBelow' /\ ContentsUnique(db)' /\ RowHasBlob'
  BY DEF IInv, FileIdsBelow, ContentsUnique, RowHasBlob, KeepsFiles
<1>3. Mutex' /\ StoppedIsIdle'
  BY DEF IInv, Mutex, StoppedIsIdle
<1>4. \A x \in Requests : RequestOK(req'[x], db', blobs')
  BY SameFilesOK DEF IInv, KeepsFiles
<1> QED BY <1>1, <1>2, <1>3, <1>4 DEF IInv

(* The deletion of s, which leaves the requests that loaded it behind.     *)
Orphaned(q, s) == IF q.sub = s THEN [q EXCEPT !.orphan = TRUE] ELSE q

LEMMA OrphanedSame ==
    ASSUME NEW q \in ReqRow, NEW s
    PROVE  LET row == Orphaned(q, s)
           IN  /\ row \in ReqRow
               /\ row.pc = q.pc /\ row.op = q.op /\ row.sub = q.sub /\ row.file = q.file
               /\ row.content = q.content /\ row.path = q.path
               /\ row.orphan <=> q.orphan \/ q.sub = s
BY DEF ReqRow, Orphaned

LEMMA AtOnceStep == ASSUME IInv, AtOnce PROVE IInv'
<1>1. Tables(db)
  BY DEF IInv, TypeOK
<1>2. ASSUME NEW p \in Paths, NEW t \in Texts, NEW e \in BOOLEAN, CreateText(p, t, e)
      PROVE  IInv'
  <2>1. KeepsFiles(db, db')
    BY <1>1, <1>2, CreateSubscriptionKeepsFiles DEF CreateText, Statement
  <2> QED BY <1>2, <2>1, StatementStep DEF CreateText, Statement
<1>3. ASSUME NEW s \in DOMAIN db.subs, NEW p \in Paths, NEW t \in Texts, NEW e \in BOOLEAN,
             UpdateText(s, p, t, e)
      PROVE  IInv'
  <2>1. KeepsFiles(db, db')
    BY <1>1, <1>3, UpdateSubscriptionKeepsFiles DEF UpdateText, Statement
  <2> QED BY <1>3, <2>1, StatementStep DEF UpdateText, Statement
<1>4. ASSUME NEW S \in SUBSET (1 .. db.subSeq), NEW t \in Texts, BatchContent(S, t)
      PROVE  IInv'
  <2>1. KeepsFiles(db, db')
    BY <1>1, <1>4, BatchUpdateContentKeepsFiles DEF BatchContent, Statement
  <2> QED BY <1>4, <2>1, StatementStep DEF BatchContent, Statement
<1>5. ASSUME NEW s \in DOMAIN db.subs, DetachFile(s)
      PROVE  IInv'
  <2>1. KeepsFiles(db, db')
    BY <1>1, <1>5, DetachSubscriptionFileKeepsFiles DEF DetachFile, Statement
  <2> QED BY <1>5, <2>1, StatementStep DEF DetachFile, Statement
<1>6. ASSUME NEW s \in DOMAIN db.subs, DropSubscription(s)
      PROVE  IInv'
  <2>1. KeepsFiles(db, db')
    BY <1>1, <1>6, DeleteSubscriptionEffect DEF DropSubscription
  <2>2. \A x \in Requests : req'[x] = Orphaned(req[x], s)
    BY <1>6 DEF DropSubscription, Orphaned
  <2>3. \A x \in Requests :
           /\ req'[x] \in ReqRow /\ req'[x].pc = req[x].pc
           /\ RequestOK(req'[x], db', blobs)
    <3> TAKE x \in Requests
    <3>1. req[x] \in ReqRow /\ RequestOK(req[x], db, blobs)
      BY DEF IInv, TypeOK
    <3>2. RequestOK(req[x], db', blobs)
      BY <2>1, <3>1, SameFilesOK DEF KeepsFiles
    <3> QED BY <2>2, <3>1, <3>2, OrphanedSame DEF RequestOK
  <2>4. /\ TypeOK' /\ up' = up /\ up /\ fileMu' = fileMu
        /\ db'.files = db.files /\ db'.fileSeq = db.fileSeq /\ blobs' = blobs
    BY <1>6, <2>1, <2>3 DEF DropSubscription, IInv, TypeOK, KeepsFiles
  <2>5. FileIdsBelow' /\ ContentsUnique(db)' /\ RowHasBlob'
    BY <2>4 DEF IInv, FileIdsBelow, ContentsUnique, RowHasBlob
  <2>6. Mutex' /\ StoppedIsIdle'
    BY <2>3, <2>4 DEF IInv, Mutex, StoppedIsIdle
  <2> QED BY <2>3, <2>4, <2>5, <2>6 DEF IInv
<1> QED BY <1>2, <1>3, <1>4, <1>5, <1>6 DEF AtOnce

LEMMA CrashStep == ASSUME IInv, Crash PROVE IInv'
<1>1. TypeOK'
  BY IdleOK DEF IInv, TypeOK, Crash
<1>2. FileIdsBelow' /\ ContentsUnique(db)' /\ RowHasBlob'
  BY DEF IInv, FileIdsBelow, RowHasBlob, Crash
<1>3. Mutex' /\ StoppedIsIdle'
  BY IdleOK, NoneAssumption DEF Mutex, StoppedIsIdle, Crash
<1>4. \A x \in Requests : RequestOK(req'[x], db', blobs')
  BY IdleOK DEF Crash
<1> QED BY <1>1, <1>2, <1>3, <1>4 DEF IInv

LEMMA RestartStep == ASSUME IInv, Restart PROVE IInv'
<1>1. TypeOK'
  BY DEF IInv, TypeOK, Restart
<1>2. FileIdsBelow' /\ ContentsUnique(db)' /\ RowHasBlob'
  BY DEF IInv, FileIdsBelow, RowHasBlob, Restart
<1>3. Mutex' /\ StoppedIsIdle'
  BY DEF IInv, Mutex, StoppedIsIdle, Restart
<1>4. \A x \in Requests : RequestOK(req'[x], db', blobs')
  BY DEF IInv, Restart
<1> QED BY <1>1, <1>2, <1>3, <1>4 DEF IInv

LEMMA StutterStep == ASSUME IInv, UNCHANGED vars PROVE IInv'
BY DEF IInv, TypeOK, FileIdsBelow, RowHasBlob, Mutex, StoppedIsIdle, vars

----------------------------------------------------------------------------
(* Requests that are outside fileMu before and after the step.             *)

(* The handlers' loads: an idle request gets its program counter and       *)
(* locals.                                                                 *)
LEMMA BeginStep ==
    ASSUME IInv, NEW r \in Requests, NEW row \in ReqRow, Begin(r, row),
           row.pc \notin Holding, RequestOK(row, db, blobs),
           temps' \subseteq Requests, UNCHANGED <<db, blobs, fileMu, up>>
    PROVE  IInv'
<1>1. up /\ req[r].pc \notin Holding /\ req' = [req EXCEPT ![r] = row]
  BY DEF Begin, At, Holding
<1>2. KeepsFiles(db, db')
  BY DEF IInv, TypeOK, KeepsFiles
<1>3. RequestOK(row, db', blobs)
  OBVIOUS
<1> QED BY <1>1, <1>2, <1>3, OutsideStep

LEMMA ArriveStep == ASSUME IInv, NEW r \in Requests, Arrive(r) PROVE IInv'
<1>0. Tables(db) /\ temps \subseteq Requests /\ FileIdsBelow
  BY DEF IInv, TypeOK
<1> USE DEF UploadOps
<1>1. ASSUME NEW p \in Paths, NEW c \in Contents, NEW e \in BOOLEAN, BeginCreate(r, p, c, e)
      PROVE  IInv'
  <2> DEFINE row == [Idle EXCEPT !.pc = "lock", !.op = "create", !.content = c,
                                 !.path = p, !.enabled = e]
  <2>1. row \in ReqRow /\ row.pc \notin Holding
    BY <1>0 DEF Idle, ReqRow, PCs, NoFile, Holding, Tables
  <2>2. RequestOK(row, db, blobs)
    BY DEF Idle, RequestOK
  <2> QED BY <1>0, <1>1, <2>1, <2>2, BeginStep DEF BeginCreate, Staged
<1>2. ASSUME NEW s \in DOMAIN db.subs, NEW c \in Contents, BeginReplace(r, s, c)
      PROVE  IInv'
  <2> DEFINE row == [Idle EXCEPT !.pc = "lock", !.op = "replace", !.content = c, !.sub = s]
  <2>1. row \in ReqRow /\ row.pc \notin Holding
    BY <1>0 DEF Idle, ReqRow, PCs, NoFile, Holding, Tables
  <2>2. RequestOK(row, db, blobs)
    BY DEF Idle, RequestOK
  <2> QED BY <1>0, <1>2, <2>1, <2>2, BeginStep DEF BeginReplace, Staged
<1>3. ASSUME NEW f \in DOMAIN db.files, NEW c \in Contents, BeginReplaceAll(r, f, c)
      PROVE  IInv'
  <2> DEFINE row == [Idle EXCEPT !.pc = "lock", !.op = "replaceAll", !.content = c, !.old = f]
  <2>0. f \in Nat
    BY <1>0 DEF FileIdsBelow, Tables
  <2>1. row \in ReqRow /\ row.pc \notin Holding
    BY <2>0 DEF Idle, ReqRow, PCs, NoFile, Holding
  <2>2. RequestOK(row, db, blobs)
    BY DEF Idle, RequestOK
  <2> QED BY <1>0, <1>3, <2>1, <2>2, BeginStep DEF BeginReplaceAll, Staged
<1>4. ASSUME NEW f \in DOMAIN db.files, NEW p \in Paths, NEW e \in BOOLEAN,
             BeginAssociate(r, f, p, e)
      PROVE  IInv'
  <2> DEFINE row == [Idle EXCEPT !.pc = "attach", !.op = "associate", !.file = f,
                                 !.path = p, !.enabled = e]
  <2>0. f \in Nat
    BY <1>0 DEF FileIdsBelow, Tables
  <2>1. row \in ReqRow /\ row.pc \notin Holding
    BY <2>0 DEF Idle, ReqRow, PCs, NoFile, Holding
  <2>2. RequestOK(row, db, blobs)
    BY DEF Idle, RequestOK
  <2> QED BY <1>0, <1>4, <2>1, <2>2, BeginStep DEF BeginAssociate
<1>5. ASSUME NEW f \in DOMAIN db.files, BeginDelete(r, f)
      PROVE  IInv'
  <2> DEFINE row == [Idle EXCEPT !.pc = "dlock", !.op = "delete", !.file = f]
  <2>0. f \in Nat
    BY <1>0 DEF FileIdsBelow, Tables
  <2>1. row \in ReqRow /\ row.pc \notin Holding
    BY <2>0 DEF Idle, ReqRow, PCs, NoFile, Holding
  <2>2. RequestOK(row, db, blobs)
    BY DEF Idle, RequestOK
  <2> QED BY <1>0, <1>5, <2>1, <2>2, BeginStep DEF BeginDelete
<1>6. ASSUME NEW s \in DOMAIN db.subs, BeginToggle(r, s)
      PROVE  IInv'
  <2> DEFINE row == [Idle EXCEPT !.pc = "toggle", !.op = "toggle", !.sub = s,
                                 !.enabled = ~db.subs[s].enabled]
  <2>1. row \in ReqRow /\ row.pc \notin Holding
    BY <1>0 DEF Idle, ReqRow, PCs, NoFile, Holding, Tables
  <2>2. RequestOK(row, db, blobs)
    BY DEF Idle, RequestOK
  <2> QED BY <1>0, <1>6, <2>1, <2>2, BeginStep DEF BeginToggle
<1>7. ASSUME NEW s \in DOMAIN db.subs, NEW p \in Paths, NEW e \in BOOLEAN,
             BeginEdit(r, s, p, e)
      PROVE  IInv'
  <2> DEFINE row == [Idle EXCEPT !.pc = "edit", !.op = "edit", !.sub = s,
                                 !.path = p, !.enabled = e]
  <2>1. row \in ReqRow /\ row.pc \notin Holding
    BY <1>0 DEF Idle, ReqRow, PCs, NoFile, Holding, Tables
  <2>2. RequestOK(row, db, blobs)
    BY DEF Idle, RequestOK
  <2> QED BY <1>0, <1>7, <2>1, <2>2, BeginStep DEF BeginEdit
<1> QED BY <1>1, <1>2, <1>3, <1>4, <1>5, <1>6, <1>7 DEF Arrive

(* The statements that use a file, and those of toggle and edit: the       *)
(* request finishes and the files table stays.                             *)
LEMMA FinishStep ==
    ASSUME IInv, up, NEW r \in Requests, Finish(r), req[r].pc \notin Holding,
           KeepsFiles(db, db'), temps' \subseteq Requests, UNCHANGED <<blobs, fileMu, up>>
    PROVE  IInv'
<1>1. req' = [req EXCEPT ![r] = Idle]
  BY DEF Finish
<1>2. Idle \in ReqRow /\ RequestOK(Idle, db', blobs) /\ Idle.pc \notin Holding
  BY IdleOK
<1> QED BY <1>1, <1>2, OutsideStep

LEMMA RowFacts ==
    ASSUME IInv, NEW r \in Requests
    PROVE  /\ req[r] \in ReqRow
           /\ RequestOK(req[r], db, blobs)
           /\ Tables(db)
           /\ temps \subseteq Requests
BY DEF IInv, TypeOK

LEMMA QuietProceed ==
    ASSUME IInv, NEW r \in Requests,
           \/ AttachNew(r) \/ AttachReplace(r) \/ AttachReplaceAll(r) \/ FailAttach(r)
           \/ FinishToggle(r) \/ FinishEdit(r)
    PROVE  IInv'
<1>1. req[r] \in ReqRow /\ RequestOK(req[r], db, blobs) /\ Tables(db) /\ temps \subseteq Requests
  BY RowFacts
<1>2. KeepsFiles(db, db)
  BY <1>1 DEF KeepsFiles
<1> USE DEF At, Holding
<1>10. ASSUME req[r].pc = "attach", Publish(req[r])
       PROVE  KeepsFiles(db, db')
  <2>1. req[r].path \in Paths /\ req[r].file \in Nat /\ req[r].enabled \in BOOLEAN
    BY <1>1, <1>10 DEF Publish, ReqRow, RequestOK
  <2> QED BY <1>1, <1>10, <2>1, CreateFileSubscriptionKeepsFiles DEF Publish
<1>11. ASSUME Switch(req[r])
       PROVE  KeepsFiles(db, db')
  <2>1. req[r].sub \in DOMAIN db.subs /\ req[r].file \in Nat
    BY <1>1, <1>11 DEF Switch, CanReplaceSubscriptionFile, IsFileSub, ReqRow
  <2> QED BY <1>1, <1>11, <2>1, ReplaceSubscriptionFileKeepsFiles DEF Switch
<1>3. CASE AttachNew(r)
  BY <1>1, <1>3, <1>10, FinishStep DEF AttachNew
<1>4. CASE AttachReplace(r)
  BY <1>1, <1>4, <1>11, FinishStep DEF AttachReplace
<1>5. CASE AttachReplaceAll(r)
  <2>1. req[r].file \in Nat
    BY <1>1 DEF ReqRow
  <2>2. KeepsFiles(db, db')
    BY <1>1, <1>5, <2>1, ReplaceFileAssociationsKeepsFiles DEF AttachReplaceAll
  <2> QED BY <1>1, <1>5, <2>2, FinishStep DEF AttachReplaceAll
<1>6. CASE FailAttach(r)
  <2>0. KeepsFiles(db, db')
    BY <1>2, <1>6, <1>10, <1>11 DEF FailAttach
  <2> QED BY <1>1, <1>6, <2>0, FinishStep DEF FailAttach
<1>8. CASE FinishToggle(r)
  <2>1. req[r].enabled \in BOOLEAN
    BY <1>1 DEF ReqRow
  <2>2. KeepsFiles(db, db')
    BY <1>1, <1>2, <1>8, <2>1, SetSubscriptionEnabledKeepsFiles
       DEF FinishToggle, CanSetSubscriptionEnabled
  <2> QED BY <1>1, <1>8, <2>2, FinishStep DEF FinishToggle
<1>9. CASE FinishEdit(r)
  <2>1. req[r].enabled \in BOOLEAN
    BY <1>1 DEF ReqRow
  <2>2. KeepsFiles(db, db')
    <3>1. CASE UNCHANGED db
      BY <1>2, <3>1
    <3>2. CASE /\ CanUpdateFileSubscription(db, req[r].sub, req[r].path, req[r].enabled)
               /\ db' = UpdateFileSubscription(db, req[r].sub, req[r].path, req[r].enabled)
      <4>1. req[r].sub \in DOMAIN db.subs
        BY <3>2 DEF CanUpdateFileSubscription, IsFileSub
      <4>2. req[r].path \in Paths
        BY <1>1, <1>9 DEF FinishEdit, RequestOK
      <4> QED BY <1>1, <2>1, <3>2, <4>1, <4>2, UpdateFileSubscriptionKeepsFiles
    <3> QED BY <1>9, <3>1, <3>2 DEF FinishEdit
  <2> QED BY <1>1, <1>9, <2>2, FinishStep DEF FinishEdit
<1> QED BY <1>3, <1>4, <1>5, <1>6, <1>8, <1>9

----------------------------------------------------------------------------
(* Requests that take, use or release fileMu.                              *)

(* What happens to the files table under fileMu.                           *)
LEMMA SameFiles ==
    ASSUME IInv
    PROVE  Succeeds(db, db)
BY DEF IInv, TypeOK, Tables, Succeeds

LEMMA NewFile ==
    ASSUME IInv, NEW c \in blobs, CanCreateFile(db, c), db' = CreateFile(db, c),
           UNCHANGED blobs
    PROVE  /\ Tables(db') /\ Succeeds(db, db')
           /\ FileIdsBelow' /\ ContentsUnique(db') /\ RowHasBlob'
           /\ NextFileId(db) \in FilesWith(db', c) /\ NextFileId(db) = db'.fileSeq
<1>1. Tables(db) /\ c \in Contents
  BY DEF IInv, TypeOK
<1>2. /\ Tables(db')
      /\ db'.files = Put(db.files, NextFileId(db), [content |-> c, downloads |-> 0])
      /\ db'.fileSeq = db.fileSeq + 1
  BY <1>1, CreateFileEffect
<1> DEFINE n == NextFileId(db)
<1>3. n = db.fileSeq + 1 /\ db.fileSeq \in Nat
  BY <1>1 DEF NextFileId, Tables
<1> HIDE DEF n
<1>4. DOMAIN db.files \subseteq 1 .. db.fileSeq
  BY DEF IInv, FileIdsBelow
<1>5. DOMAIN db'.files = DOMAIN db.files \cup {n} /\ n \notin DOMAIN db.files
  BY <1>2, <1>3, <1>4 DEF Put, n
<1>6. db'.files[n].content = c
  BY <1>2 DEF Put, n
<1>7. \A f \in DOMAIN db.files : db'.files[f].content = db.files[f].content
  BY <1>2, <1>5 DEF Put, n
<1>8. Succeeds(db, db')
  BY <1>2, <1>3, <1>5, <1>7 DEF Succeeds
<1>9. FileIdsBelow'
  BY <1>2, <1>3, <1>4, <1>5 DEF FileIdsBelow
<1>10. \A f \in DOMAIN db.files : db.files[f].content # c
  BY DEF CanCreateFile, FilesWith
<1>11. ContentsUnique(db')
  BY <1>5, <1>6, <1>7, <1>10 DEF IInv, ContentsUnique
<1>12. RowHasBlob'
  BY <1>5, <1>6, <1>7 DEF IInv, RowHasBlob
<1>13. n \in FilesWith(db', c)
  BY <1>5, <1>6 DEF FilesWith
<1> QED BY <1>2, <1>3, <1>8, <1>9, <1>11, <1>12, <1>13 DEF n

LEMMA GoneFile ==
    ASSUME IInv, NEW f \in DOMAIN db.files, db' = DeleteFile(db, f), UNCHANGED blobs
    PROVE  /\ Tables(db') /\ Succeeds(db, db')
           /\ FileIdsBelow' /\ ContentsUnique(db') /\ RowHasBlob'
           /\ FilesWith(db', db.files[f].content) = {}
<1>1. Tables(db)
  BY DEF IInv, TypeOK
<1>2. /\ Tables(db')
      /\ db'.files = Without(db.files, {f})
      /\ db'.fileSeq = db.fileSeq
  BY <1>1, DeleteFileEffect
<1>3. DOMAIN db'.files = DOMAIN db.files \ {f} /\ db.fileSeq \in Nat
  BY <1>1, <1>2 DEF Without, Tables
<1>4. \A g \in DOMAIN db'.files : db'.files[g] = db.files[g]
  BY <1>2, <1>3 DEF Without
<1>5. Succeeds(db, db')
  BY <1>2, <1>3, <1>4 DEF Succeeds
<1>6. FileIdsBelow' /\ ContentsUnique(db') /\ RowHasBlob'
  BY <1>2, <1>3, <1>4 DEF IInv, FileIdsBelow, ContentsUnique, RowHasBlob
<1>7. FilesWith(db', db.files[f].content) = {}
  BY <1>1, <1>3, <1>4 DEF IInv, ContentsUnique, FilesWith
<1> QED BY <1>2, <1>5, <1>6, <1>7

(* An error path under fileMu: the request ends and unlocks.               *)
LEMMA UnlockStep ==
    ASSUME IInv, up, NEW r \in Requests, Finish(r), Unlock(r), req[r].pc \in Holding,
           Tables(db'), Succeeds(db, db'), FileIdsBelow', ContentsUnique(db'), RowHasBlob',
           blobs' \subseteq Contents, temps' \subseteq Requests, up' = up
    PROVE  IInv'
<1>1. Idle \in ReqRow /\ RequestOK(Idle, db', blobs') /\ Idle.pc \notin Holding
  BY IdleOK
<1>2. req' = [req EXCEPT ![r] = Idle] /\ fileMu' = None
  BY DEF Finish, Unlock
<1> QED BY <1>1, <1>2, InsideStep

LEMMA AcquireStep == ASSUME IInv, NEW r \in Requests, Acquire(r) PROVE IInv'
<1>1. req[r] \in ReqRow /\ RequestOK(req[r], db, blobs) /\ Tables(db) /\ temps \subseteq Requests
  BY RowFacts
<1>2. /\ KeepsFiles(db, db) /\ FileIdsBelow /\ ContentsUnique(db) /\ RowHasBlob
      /\ blobs \subseteq Contents
  BY <1>1 DEF KeepsFiles, IInv, TypeOK
<1>3. Succeeds(db, db)
  BY SameFiles
<1>4. CASE LookupUpload(r)
  <2>1. PICK f \in DOMAIN db.files \cup {NoFile} :
            /\ FilesWith(db, req[r].content) = {f} \ {NoFile}
            /\ req' = [req EXCEPT ![r] = [@ EXCEPT !.pc = "commit", !.file = f]]
    BY <1>4 DEF LookupUpload
  <2> DEFINE row == [req[r] EXCEPT !.pc = "commit", !.file = f]
  <2>2. f \in Nat
    BY <1>1 DEF Tables, NoFile
  <2>3. row \in ReqRow /\ row.pc \in Holding
    BY <1>1, <2>2 DEF ReqRow, PCs, Holding
  <2>4. req[r].pc = "lock" /\ UNCHANGED <<db, blobs, temps, up>> /\ up /\ fileMu = None /\ fileMu' = r
    BY <1>4 DEF LookupUpload, At
  <2>5. RequestOK(row, db, blobs)
    BY <1>1, <2>1, <2>4 DEF RequestOK, ReqRow
  <2>6. req' = [req EXCEPT ![r] = row]
    BY <2>1
  <2> HIDE DEF row
  <2> QED BY <1>1, <1>2, <1>3, <2>3, <2>4, <2>5, <2>6, InsideStep DEF FileIdsBelow, RowHasBlob
<1>5. CASE FailLookup(r)
  BY <1>1, <1>2, <1>5, FinishStep DEF FailLookup, At, Holding
<1>6. CASE LookupDelete(r)
  <2> DEFINE row == [req[r] EXCEPT !.pc = "drow", !.content = db.files[req[r].file].content]
  <2>1. /\ req[r].pc = "dlock" /\ UNCHANGED <<db, blobs, temps, up>> /\ up
        /\ fileMu = None /\ fileMu' = r /\ req[r].file \in DOMAIN db.files
        /\ req' = [req EXCEPT ![r] = row]
    BY <1>6 DEF LookupDelete, At
  <2>2. db.files[req[r].file].content \in Contents
    BY <1>1, <2>1 DEF Tables, FileRow
  <2>3. row \in ReqRow /\ row.pc \in Holding
    BY <1>1, <2>2 DEF ReqRow, PCs, Holding
  <2>4. RequestOK(row, db, blobs)
    BY <1>1, <2>1, <2>2 DEF RequestOK, ReqRow, FilesWith
  <2> HIDE DEF row
  <2> QED BY <1>1, <1>2, <1>3, <2>1, <2>3, <2>4, InsideStep DEF FileIdsBelow, RowHasBlob
<1>7. CASE RefuseDelete(r)
  BY <1>1, <1>2, <1>7, FinishStep DEF RefuseDelete, At, Holding
<1> QED BY <1>4, <1>5, <1>6, <1>7 DEF Acquire

LEMMA CommitStep == ASSUME IInv, NEW r \in Requests, Commit(r) PROVE IInv'
<1>1. req[r] \in ReqRow /\ RequestOK(req[r], db, blobs) /\ Tables(db) /\ temps \subseteq Requests
  BY RowFacts
<1>2. FileIdsBelow /\ ContentsUnique(db) /\ RowHasBlob /\ blobs \subseteq Contents
  BY DEF IInv, TypeOK
<1>3. /\ req[r].pc = "commit" /\ up /\ UNCHANGED <<db, up>> /\ temps' \subseteq temps
      /\ blobs' = blobs \cup {req[r].content}
  BY DEF Commit, At
<1>4. req[r].content \in Contents
  BY <1>1, <1>3 DEF RequestOK
<1>5. /\ Tables(db') /\ Succeeds(db, db') /\ FileIdsBelow' /\ ContentsUnique(db') /\ RowHasBlob'
      /\ blobs' \subseteq Contents /\ temps' \subseteq Requests /\ req[r].pc \in Holding
  BY <1>1, <1>2, <1>3, <1>4, SameFiles DEF FileIdsBelow, RowHasBlob, Holding
<1>6. CASE req[r].file = NoFile
  <2> DEFINE row == [req[r] EXCEPT !.pc = "insert"]
  <2>1. row \in ReqRow /\ row.pc \in Holding
    BY <1>1 DEF ReqRow, PCs, Holding
  <2>2. RequestOK(row, db', blobs')
    BY <1>1, <1>3 DEF RequestOK, ReqRow
  <2>3. req' = [req EXCEPT ![r] = row] /\ fileMu' = fileMu /\ fileMu = r
    BY <1>3, <1>6 DEF Commit, Goto, IInv, Mutex, Holding
  <2> HIDE DEF row
  <2> QED BY <1>3, <1>5, <2>1, <2>2, <2>3, InsideStep
<1>7. CASE req[r].file # NoFile
  <2> DEFINE row == [req[r] EXCEPT !.pc = "attach"]
  <2>1. row \in ReqRow /\ row.pc \notin Holding
    BY <1>1 DEF ReqRow, PCs, Holding
  <2>2. req[r].file \in FilesWith(db, req[r].content)
    BY <1>1, <1>3, <1>7 DEF RequestOK
  <2>3. req[r].file \in 0 .. db.fileSeq
    BY <1>1, <1>2, <2>2 DEF FilesWith, FileIdsBelow, Tables
  <2>4. RequestOK(row, db', blobs')
    BY <1>1, <1>3, <2>2, <2>3 DEF RequestOK, ReqRow
  <2>5. req' = [req EXCEPT ![r] = row] /\ fileMu' = None
    BY <1>7 DEF Commit, Goto, Unlock
  <2> HIDE DEF row
  <2> QED BY <1>3, <1>5, <2>1, <2>4, <2>5, InsideStep
<1> QED BY <1>6, <1>7

LEMMA InsertStep ==
    ASSUME IInv, NEW r \in Requests, InsertFile(r) \/ FailInsert(r)
    PROVE  IInv'
<1>1. req[r] \in ReqRow /\ RequestOK(req[r], db, blobs) /\ Tables(db) /\ temps \subseteq Requests
  BY RowFacts
<1>2. FileIdsBelow /\ ContentsUnique(db) /\ RowHasBlob /\ blobs \subseteq Contents
  BY DEF IInv, TypeOK
<1>3. req[r].pc = "insert" /\ up /\ UNCHANGED <<blobs, temps, up>> /\ req[r].pc \in Holding
  BY DEF InsertFile, FailInsert, At, Holding
<1>4. req[r].op \in UploadOps /\ req[r].content \in blobs
  BY <1>1, <1>3 DEF RequestOK
<1>5. \/ UNCHANGED db
      \/ CanCreateFile(db, req[r].content) /\ db' = CreateFile(db, req[r].content)
  BY DEF InsertFile, FailInsert
<1>6. /\ Tables(db') /\ Succeeds(db, db') /\ FileIdsBelow' /\ ContentsUnique(db') /\ RowHasBlob'
      /\ blobs' \subseteq Contents /\ temps' \subseteq Requests
  BY <1>1, <1>2, <1>3, <1>4, <1>5, SameFiles, NewFile DEF FileIdsBelow, RowHasBlob
<1>7. CASE FailInsert(r)
  BY <1>3, <1>6, <1>7, UnlockStep DEF FailInsert
<1>8. CASE InsertFile(r)
  <2>1. PICK f \in 1 .. db.fileSeq + 1 :
            /\ \/ /\ CanCreateFile(db, req[r].content)
                  /\ f = NextFileId(db)
                  /\ db' = CreateFile(db, req[r].content)
               \/ f \in FilesWith(db, req[r].content) /\ UNCHANGED db
            /\ req' = [req EXCEPT ![r] = [@ EXCEPT !.pc = "attach", !.file = f]]
    BY <1>8 DEF InsertFile
  <2> DEFINE row == [req[r] EXCEPT !.pc = "attach", !.file = f]
  <2>2. f \in Nat
    BY <1>1, <2>1 DEF Tables
  <2>3. row \in ReqRow /\ row.pc \notin Holding
    BY <1>1, <2>2 DEF ReqRow, PCs, Holding
  <2>4. f \in FilesWith(db', req[r].content)
    BY <1>3, <1>4, <2>1, NewFile
  <2>5. f \in 0 .. db'.fileSeq
    BY <1>6, <2>4 DEF FilesWith, FileIdsBelow, Tables
  <2>6. RequestOK(row, db', blobs')
    BY <1>1, <1>3, <1>4, <2>4, <2>5 DEF RequestOK, ReqRow
  <2>7. req' = [req EXCEPT ![r] = row] /\ fileMu' = None
    BY <1>8, <2>1 DEF InsertFile, Unlock
  <2> HIDE DEF row
  <2> QED BY <1>3, <1>6, <2>3, <2>6, <2>7, InsideStep
<1> QED BY <1>7, <1>8

LEMMA DeleteStep ==
    ASSUME IInv, NEW r \in Requests, DeleteRow(r) \/ FailDeleteRow(r)
    PROVE  IInv'
<1>1. req[r] \in ReqRow /\ RequestOK(req[r], db, blobs) /\ Tables(db) /\ temps \subseteq Requests
  BY RowFacts
<1>2. FileIdsBelow /\ ContentsUnique(db) /\ RowHasBlob /\ blobs \subseteq Contents
  BY DEF IInv, TypeOK
<1>3. req[r].pc = "drow" /\ up /\ UNCHANGED <<blobs, temps, up>> /\ req[r].pc \in Holding
  BY DEF DeleteRow, FailDeleteRow, At, Holding
<1>4. req[r].file \in DOMAIN db.files /\ db.files[req[r].file].content = req[r].content
  BY <1>1, <1>3 DEF RequestOK, FilesWith
<1>5. UNCHANGED db \/ db' = DeleteFile(db, req[r].file)
  BY DEF DeleteRow, FailDeleteRow
<1>6. /\ Tables(db') /\ Succeeds(db, db') /\ FileIdsBelow' /\ ContentsUnique(db') /\ RowHasBlob'
      /\ blobs' \subseteq Contents /\ temps' \subseteq Requests
  BY <1>1, <1>2, <1>3, <1>4, <1>5, SameFiles, GoneFile DEF FileIdsBelow, RowHasBlob
<1>7. CASE FailDeleteRow(r)
  BY <1>3, <1>6, <1>7, UnlockStep DEF FailDeleteRow
<1>8. CASE DeleteRow(r)
  <2> DEFINE row == [req[r] EXCEPT !.pc = "dblob"]
  <2>1. row \in ReqRow /\ row.pc \in Holding
    BY <1>1 DEF ReqRow, PCs, Holding
  <2>2. FilesWith(db', req[r].content) = {}
    BY <1>3, <1>4, <1>8, GoneFile DEF DeleteRow
  <2>3. RequestOK(row, db', blobs')
    BY <1>1, <1>3, <2>2 DEF RequestOK, ReqRow
  <2>4. req' = [req EXCEPT ![r] = row] /\ fileMu' = fileMu /\ fileMu = r
    BY <1>3, <1>8 DEF DeleteRow, Goto, IInv, Mutex
  <2> HIDE DEF row
  <2> QED BY <1>3, <1>6, <2>1, <2>3, <2>4, InsideStep
<1> QED BY <1>7, <1>8

LEMMA ProceedStep == ASSUME IInv, NEW r \in Requests, Proceed(r) PROVE IInv'
<1>1. RequestOK(req[r], db, blobs) /\ Tables(db) /\ temps \subseteq Requests
  BY RowFacts
<1>2. FileIdsBelow /\ ContentsUnique(db) /\ RowHasBlob /\ blobs \subseteq Contents
  BY DEF IInv, TypeOK
<1>3. CASE FailCommit(r)
  <2>1. /\ req[r].pc = "commit" /\ up /\ UNCHANGED <<db, up>> /\ temps' \subseteq temps
        /\ blobs' \in {blobs, blobs \cup {req[r].content}} /\ Finish(r) /\ Unlock(r)
    BY <1>3 DEF FailCommit, At
  <2>2. req[r].pc \in Holding /\ req[r].content \in Contents
    BY <1>1, <2>1 DEF Holding, RequestOK
  <2>3. RowHasBlob' /\ blobs' \subseteq Contents
    BY <1>2, <2>1, <2>2 DEF RowHasBlob
  <2> QED BY <1>1, <1>2, <2>1, <2>2, <2>3, SameFiles, UnlockStep DEF FileIdsBelow
<1>4. CASE RemoveBlob(r)
  <2>1. /\ req[r].pc = "dblob" /\ up /\ UNCHANGED <<db, temps, up>> /\ Finish(r) /\ Unlock(r)
        /\ blobs' = blobs \ {req[r].content} \/ UNCHANGED blobs
    BY <1>4 DEF RemoveBlob, At
  <2>2. FilesWith(db, req[r].content) = {}
    BY <1>1, <2>1 DEF RequestOK
  <2>3. RowHasBlob' /\ blobs' \subseteq Contents
    BY <1>2, <2>1, <2>2 DEF RowHasBlob, FilesWith
  <2>4. req[r].pc \in Holding
    BY <2>1 DEF Holding
  <2> QED BY <1>1, <1>2, <2>1, <2>3, <2>4, SameFiles, UnlockStep DEF FileIdsBelow
<1> QED BY <1>3, <1>4, CommitStep, InsertStep, DeleteStep, QuietProceed DEF Proceed

LEMMA InductiveStep == IInv /\ [Next]_vars => IInv'
BY ArriveStep, AcquireStep, ProceedStep, AtOnceStep, CrashStep, RestartStep, StutterStep
   DEF Next, Admin

----------------------------------------------------------------------------
(* What the steps do to the database, the requests and the staged uploads. *)
(* It is enough to know that a step changes the database by one statement  *)
(* of Store, one request at most, and which uploads it stages or drops.    *)

Toggling == {req[r].sub : r \in {x \in Requests : req[x].pc = "toggle"}}

LEMMA AttachAlters ==
    ASSUME IInv, Consistent(db), NEW r \in Requests,
           \/ AttachNew(r) \/ AttachReplace(r) \/ AttachReplaceAll(r) \/ FailAttach(r)
    PROVE  Alters(db, db', Toggling, MaxSubs)
<1>1. req[r] \in ReqRow /\ RequestOK(req[r], db, blobs) /\ Tables(db)
  BY RowFacts
<1>2. /\ NoFile \notin DOMAIN db.files /\ TextHasNoFile(db)
      /\ req[r].file \in Nat /\ req[r].enabled \in BOOLEAN
  BY <1>1 DEF Consistent, IdsBelowSequence, NoFile, ReqRow
<1>3. ASSUME Publish(req[r]) PROVE Alters(db, db', Toggling, MaxSubs)
  <2>1. req[r].path \in Paths
    BY <1>1, <1>3 DEF Publish, RequestOK
  <2> QED BY <1>2, <1>3, <2>1, CreateFileSubscriptionInserts DEF Publish, RoomForSub, Alters
<1>4. ASSUME NEW e, Rewrites(db, e, {}) PROVE Alters(db, e, Toggling, MaxSubs)
  BY <1>4 DEF Alters, Rewrites
<1>5. ASSUME Switch(req[r]) PROVE Alters(db, db', Toggling, MaxSubs)
  <2>1. Rewrites(db, db', {})
    BY <1>1, <1>2, <1>5, ReplaceSubscriptionFileRewrites DEF Switch
  <2> QED BY <2>1, <1>4
<1>6. CASE AttachReplaceAll(r)
  <2>1. /\ CanReplaceFileAssociations(db, req[r].old, req[r].file)
        /\ db' = ReplaceFileAssociations(db, req[r].old, req[r].file)
    BY <1>6 DEF AttachReplaceAll
  <2>2. Rewrites(db, db', {})
    BY <1>1, <1>2, <2>1, ReplaceFileAssociationsRewrites
  <2> QED BY <2>2, <1>4
<1>7. db' = db => Alters(db, db', Toggling, MaxSubs)
  BY DEF Alters
<1> QED BY <1>3, <1>5, <1>6, <1>7 DEF AttachNew, AttachReplace, FailAttach

LEMMA ProceedAlters ==
    ASSUME IInv, Consistent(db), NEW r \in Requests, Proceed(r)
    PROVE  Alters(db, db', Toggling, MaxSubs)
<1>1. req[r] \in ReqRow /\ RequestOK(req[r], db, blobs) /\ Tables(db)
  BY RowFacts
<1>2. db' = db => Alters(db, db', Toggling, MaxSubs)
  BY DEF Alters
<1>3. CASE InsertFile(r) \/ FailInsert(r)
  <2>1. req[r].content \in Contents
    BY <1>1, <1>3 DEF InsertFile, FailInsert, At, RequestOK
  <2>2. \/ db' = db
        \/ CanCreateFile(db, req[r].content) /\ db' = CreateFile(db, req[r].content)
    BY <1>3 DEF InsertFile, FailInsert
  <2> QED BY <1>2, <2>1, <2>2 DEF Alters
<1>4. CASE DeleteRow(r) \/ FailDeleteRow(r)
  <2>1. \/ db' = db
        \/ CanDeleteFile(db, req[r].file) /\ db' = DeleteFile(db, req[r].file)
    BY <1>4 DEF DeleteRow, FailDeleteRow
  <2> QED BY <1>2, <2>1 DEF Alters, CanDeleteFile
<1>5. CASE FinishToggle(r)
  <2>1. \/ db' = db
        \/ /\ req[r].sub \in DOMAIN db.subs
           /\ db' = SetSubscriptionEnabled(db, req[r].sub, req[r].enabled)
    BY <1>5 DEF FinishToggle, CanSetSubscriptionEnabled
  <2>2. req[r].enabled \in BOOLEAN /\ req[r].sub \in Toggling
    BY <1>1, <1>5 DEF ReqRow, FinishToggle, At, Toggling
  <2> QED BY <1>1, <1>2, <2>1, <2>2, SetSubscriptionEnabledRewrites DEF Alters
<1>6. CASE FinishEdit(r)
  <2>1. \/ db' = db
        \/ /\ CanUpdateFileSubscription(db, req[r].sub, req[r].path, req[r].enabled)
           /\ db' = UpdateFileSubscription(db, req[r].sub, req[r].path, req[r].enabled)
    BY <1>6 DEF FinishEdit
  <2>2. req[r].enabled \in BOOLEAN /\ req[r].path \in Paths
    BY <1>1, <1>6 DEF ReqRow, FinishEdit, At, RequestOK
  <2>3. db' = db \/ Rewrites(db, db', {})
    BY <1>1, <2>1, <2>2, UpdateFileSubscriptionRewrites
  <2> QED BY <1>2, <2>3 DEF Alters, Rewrites
<1>7. CASE Commit(r) \/ FailCommit(r) \/ RemoveBlob(r)
  BY <1>2, <1>7 DEF Commit, FailCommit, RemoveBlob
<1> QED BY <1>3, <1>4, <1>5, <1>6, <1>7, AttachAlters DEF Proceed

LEMMA AtOnceAlters ==
    ASSUME IInv, Consistent(db), AtOnce
    PROVE  \/ Alters(db, db', Toggling, MaxSubs)
           \/ \E s \in DOMAIN db.subs : DropSubscription(s)
<1>1. Tables(db)
  BY DEF IInv, TypeOK
<1>2. ASSUME NEW e, Rewrites(db, e, {}) PROVE Alters(db, e, Toggling, MaxSubs)
  BY <1>2 DEF Alters, Rewrites
<1>3. ASSUME NEW p \in Paths, NEW t \in Texts, NEW e \in BOOLEAN, CreateText(p, t, e)
      PROVE  Inserts(db, db') /\ db.subSeq < MaxSubs
  BY <1>3, CreateSubscriptionInserts DEF CreateText, Statement, RoomForSub
<1>4. ASSUME NEW s \in DOMAIN db.subs, NEW p \in Paths, NEW t \in Texts, NEW e \in BOOLEAN,
             UpdateText(s, p, t, e)
      PROVE  Rewrites(db, db', {})
  BY <1>1, <1>4, UpdateSubscriptionRewrites DEF UpdateText, Statement
<1>5. ASSUME NEW S \in SUBSET (1 .. db.subSeq), NEW t \in Texts, BatchContent(S, t)
      PROVE  Rewrites(db, db', {})
  BY <1>1, <1>5, BatchUpdateContentRewrites DEF BatchContent, Statement
<1>6. ASSUME NEW s \in DOMAIN db.subs, DetachFile(s)
      PROVE  Rewrites(db, db', {})
  BY <1>1, <1>6, DetachSubscriptionFileRewrites DEF DetachFile, Statement
<1>7. Inserts(db, db') /\ db.subSeq < MaxSubs => Alters(db, db', Toggling, MaxSubs)
  BY DEF Alters
<1> QED BY <1>2, <1>3, <1>4, <1>5, <1>6, <1>7 DEF AtOnce

LEMMA AtOnceChanges ==
    ASSUME IInv, Consistent(db), AtOnce
    PROVE  Changes(db, db', Toggling, MaxSubs)
BY AtOnceAlters DEF DropSubscription, Changes

LEMMA StepChanges ==
    ASSUME IInv, Consistent(db), [Next]_vars
    PROVE  Changes(db, db', Toggling, MaxSubs)
<1>1. db' = db => Alters(db, db', Toggling, MaxSubs)
  BY DEF Alters
<1>2. ASSUME NEW r \in Requests, Arrive(r) PROVE db' = db
  BY <1>2 DEF Arrive, BeginCreate, BeginReplace, BeginReplaceAll, BeginAssociate,
              BeginDelete, BeginToggle, BeginEdit, Staged
<1>3. ASSUME NEW r \in Requests, Acquire(r) PROVE db' = db
  BY <1>3 DEF Acquire, LookupUpload, FailLookup, LookupDelete, RefuseDelete
<1>4. Restart \/ Crash \/ UNCHANGED vars => db' = db
  BY DEF Restart, Crash, vars
<1>5. Alters(db, db', Toggling, MaxSubs) => Changes(db, db', Toggling, MaxSubs)
  BY DEF Changes
<1> QED BY <1>1, <1>2, <1>3, <1>4, <1>5, ProceedAlters, AtOnceChanges DEF Next, Admin

(* Whether the subscription a request loaded is gone for good, or still the*)
(* file subscription it was.                                               *)
KeepsSub(q, d) ==
    /\ q.orphan => q.sub <= d.subSeq /\ q.sub \notin DOMAIN d.subs
    /\ q.op \in {"replace", "edit"} /\ ~q.orphan => IsFileSub(d, q.sub)

LEMMA IdleKeepsSub == ASSUME NEW d PROVE KeepsSub(Idle, d)
BY DEF Idle, KeepsSub

LEMMA EvolvingKeepsSub ==
    ASSUME NEW q \in ReqRow, NEW d, NEW e, KeepsSub(q, d), Evolves(d, e),
           DOMAIN d.subs \subseteq 1 .. d.subSeq, DOMAIN d.subs \subseteq DOMAIN e.subs
    PROVE  KeepsSub(q, e)
<1>1. q.sub \in Nat /\ d.subSeq \in Nat /\ e.subSeq \in Nat /\ d.subSeq <= e.subSeq
  BY DEF ReqRow, Evolves
<1>2. ASSUME q.orphan PROVE q.sub <= e.subSeq /\ q.sub \notin DOMAIN e.subs
  <2>1. q.sub <= d.subSeq /\ q.sub \notin DOMAIN d.subs
    BY <1>2 DEF KeepsSub
  <2> QED BY <1>1, <2>1 DEF Evolves
<1>3. ASSUME IsFileSub(d, q.sub) PROVE IsFileSub(e, q.sub)
  <2>1. q.sub \in 1 .. d.subSeq /\ q.sub \in DOMAIN e.subs
    BY <1>3 DEF IsFileSub
  <2>2. Moves(d.subs[q.sub], e.subs[q.sub])
    BY <1>1, <2>1 DEF Evolves
  <2> QED BY <1>3, <2>1, <2>2 DEF Moves, IsFileSub
<1> QED BY <1>2, <1>3 DEF KeepsSub

LEMMA DeletionKeepsSub ==
    ASSUME NEW q \in ReqRow, NEW d, Tables(d), KeepsSub(q, d),
           DOMAIN d.subs \subseteq 1 .. d.subSeq,
           NEW s \in DOMAIN d.subs, NEW e, e = DeleteSubscription(d, s)
    PROVE  KeepsSub(Orphaned(q, s), e)
<1> DEFINE row == Orphaned(q, s)
<1>1. e.subSeq = d.subSeq /\ e.subs = Without(d.subs, {s}) /\ d.subSeq \in Nat
  BY DeleteSubscriptionEffect DEF Tables
<1>2. row.op = q.op /\ row.sub = q.sub /\ (row.orphan <=> q.orphan \/ q.sub = s)
  BY OrphanedSame
<1>3. /\ DOMAIN e.subs = DOMAIN d.subs \ {s}
      /\ \A x \in DOMAIN e.subs : e.subs[x] = d.subs[x]
  BY <1>1 DEF Without
<1>4. s <= d.subSeq
  BY <1>1
<1> HIDE DEF row
<1>5. KeepsSub(row, e)
  BY <1>1, <1>2, <1>3, <1>4 DEF KeepsSub, IsFileSub
<1> QED BY <1>5 DEF row

Staging(q) == q.pc \in {"lock", "commit"}

(* The parts of a step that concern one request.                           *)
StepOf(r) ==
    /\ up' = up
    /\ DOMAIN db.subs \subseteq DOMAIN db'.subs
    /\ \E row \in ReqRow :
          /\ req' = [req EXCEPT ![r] = row]
          /\ \/ row = Idle
             \/ row.op = req[r].op /\ row.sub = req[r].sub /\ row.orphan = req[r].orphan
             \/ db' = db /\ KeepsSub(row, db)
          /\ \/ temps' = temps /\ (Staging(row) <=> Staging(req[r]))
             \/ temps' = temps \cup {r} /\ Staging(row)
             \/ temps' = temps \ {r} /\ ~Staging(row)

LEMMA ArriveStepOf ==
    ASSUME IInv, Consistent(db), NEW r \in Requests, Arrive(r)
    PROVE  StepOf(r)
<1>1. PICK row : /\ req' = [req EXCEPT ![r] = row]
                 /\ up' = up /\ db' = db
                 /\ KeepsSub(row, db)
                 /\ req[r].pc = "idle"
                 /\ \/ temps' = temps /\ ~Staging(row)
                    \/ temps' = temps \cup {r} /\ Staging(row)
  <2> DEFINE Fits(row) ==
          /\ req' = [req EXCEPT ![r] = row]
          /\ up' = up /\ db' = db
          /\ KeepsSub(row, db)
          /\ req[r].pc = "idle"
          /\ \/ temps' = temps /\ ~Staging(row)
             \/ temps' = temps \cup {r} /\ Staging(row)
  <2> USE DEF Begin, At, Staging, KeepsSub
  <2>1. ASSUME NEW p \in Paths, NEW c \in Contents, NEW e \in BOOLEAN, BeginCreate(r, p, c, e)
        PROVE  \E row : Fits(row)
    <3> DEFINE row == [Idle EXCEPT !.pc = "lock", !.op = "create", !.content = c,
                                   !.path = p, !.enabled = e]
    <3>1. row.pc = "lock" /\ row.op = "create" /\ ~row.orphan
      BY DEF Idle
    <3>2. /\ req' = [req EXCEPT ![r] = row] /\ up' = up /\ db' = db /\ req[r].pc = "idle"
          /\ temps' = temps \cup {r}
      BY <2>1 DEF BeginCreate, Staged
    <3> HIDE DEF row
    <3> QED BY <3>1, <3>2
  <2>2. ASSUME NEW s \in DOMAIN db.subs, NEW c \in Contents, BeginReplace(r, s, c)
        PROVE  \E row : Fits(row)
    <3> DEFINE row == [Idle EXCEPT !.pc = "lock", !.op = "replace", !.content = c, !.sub = s]
    <3>1. row.pc = "lock" /\ row.op = "replace" /\ row.sub = s /\ ~row.orphan
      BY DEF Idle
    <3>2. /\ req' = [req EXCEPT ![r] = row] /\ up' = up /\ db' = db /\ req[r].pc = "idle"
          /\ temps' = temps \cup {r} /\ IsFileSub(db, s)
      BY <2>2 DEF BeginReplace, Staged
    <3> HIDE DEF row
    <3> QED BY <3>1, <3>2
  <2>3. ASSUME NEW f \in DOMAIN db.files, NEW c \in Contents, BeginReplaceAll(r, f, c)
        PROVE  \E row : Fits(row)
    <3> DEFINE row == [Idle EXCEPT !.pc = "lock", !.op = "replaceAll", !.content = c, !.old = f]
    <3>1. row.pc = "lock" /\ row.op = "replaceAll" /\ ~row.orphan
      BY DEF Idle
    <3>2. /\ req' = [req EXCEPT ![r] = row] /\ up' = up /\ db' = db /\ req[r].pc = "idle"
          /\ temps' = temps \cup {r}
      BY <2>3 DEF BeginReplaceAll, Staged
    <3> HIDE DEF row
    <3> QED BY <3>1, <3>2
  <2>4. ASSUME NEW f \in DOMAIN db.files, NEW p \in Paths, NEW e \in BOOLEAN,
               BeginAssociate(r, f, p, e)
        PROVE  \E row : Fits(row)
    <3> DEFINE row == [Idle EXCEPT !.pc = "attach", !.op = "associate", !.file = f,
                                   !.path = p, !.enabled = e]
    <3>1. row.pc = "attach" /\ row.op = "associate" /\ ~row.orphan
      BY DEF Idle
    <3>2. /\ req' = [req EXCEPT ![r] = row] /\ up' = up /\ db' = db /\ req[r].pc = "idle"
          /\ temps' = temps
      BY <2>4 DEF BeginAssociate
    <3> HIDE DEF row
    <3> QED BY <3>1, <3>2
  <2>5. ASSUME NEW f \in DOMAIN db.files, BeginDelete(r, f)
        PROVE  \E row : Fits(row)
    <3> DEFINE row == [Idle EXCEPT !.pc = "dlock", !.op = "delete", !.file = f]
    <3>1. row.pc = "dlock" /\ row.op = "delete" /\ ~row.orphan
      BY DEF Idle
    <3>2. /\ req' = [req EXCEPT ![r] = row] /\ up' = up /\ db' = db /\ req[r].pc = "idle"
          /\ temps' = temps
      BY <2>5 DEF BeginDelete
    <3> HIDE DEF row
    <3> QED BY <3>1, <3>2
  <2>6. ASSUME NEW s \in DOMAIN db.subs, BeginToggle(r, s)
        PROVE  \E row : Fits(row)
    <3> DEFINE row == [Idle EXCEPT !.pc = "toggle", !.op = "toggle", !.sub = s,
                                   !.enabled = ~db.subs[s].enabled]
    <3>1. row.pc = "toggle" /\ row.op = "toggle" /\ ~row.orphan
      BY DEF Idle
    <3>2. /\ req' = [req EXCEPT ![r] = row] /\ up' = up /\ db' = db /\ req[r].pc = "idle"
          /\ temps' = temps
      BY <2>6 DEF BeginToggle
    <3> HIDE DEF row
    <3> QED BY <3>1, <3>2
  <2>7. ASSUME NEW s \in DOMAIN db.subs, NEW p \in Paths, NEW e \in BOOLEAN,
               BeginEdit(r, s, p, e)
        PROVE  \E row : Fits(row)
    <3> DEFINE row == [Idle EXCEPT !.pc = "edit", !.op = "edit", !.sub = s,
                                   !.path = p, !.enabled = e]
    <3>1. row.pc = "edit" /\ row.op = "edit" /\ row.sub = s /\ ~row.orphan
      BY DEF Idle
    <3>2. /\ req' = [req EXCEPT ![r] = row] /\ up' = up /\ db' = db /\ req[r].pc = "idle"
          /\ temps' = temps /\ IsFileSub(db, s)
      BY <2>7 DEF BeginEdit
    <3> HIDE DEF row
    <3> QED BY <3>1, <3>2
  <2> HIDE DEF Fits
  <2>8. \E row : Fits(row)
    BY <2>1, <2>2, <2>3, <2>4, <2>5, <2>6, <2>7 DEF Arrive
  <2> QED BY <2>8 DEF Fits
<1>2. row \in ReqRow
  <2>1. req' \in [Requests -> ReqRow] /\ req \in [Requests -> ReqRow]
    BY ArriveStep DEF IInv, TypeOK
  <2> QED BY <1>1, <2>1
<1>3. ~Staging(req[r])
  BY <1>1 DEF Staging
<1> QED BY <1>1, <1>2, <1>3 DEF StepOf

LEMMA FinishStepOf ==
    ASSUME NEW r \in Requests, Finish(r), up' = up,
           DOMAIN db.subs \subseteq DOMAIN db'.subs,
           (temps' = temps /\ ~Staging(req[r])) \/ temps' = temps \ {r}
    PROVE  StepOf(r)
<1>1. ~Staging(Idle) /\ Idle \in ReqRow
  BY IdleOK DEF Staging, Idle
<1> QED BY <1>1 DEF Finish, StepOf

(* From program counter a to b, keeping what the request works on.         *)
LEMMA GotoStepOf ==
    ASSUME IInv, IInv', NEW r \in Requests, up' = up, NEW row,
           req' = [req EXCEPT ![r] = row],
           DOMAIN db.subs \subseteq DOMAIN db'.subs,
           row.op = req[r].op, row.sub = req[r].sub, row.orphan = req[r].orphan,
           \/ temps' = temps /\ (Staging(row) <=> Staging(req[r]))
           \/ temps' = temps \ {r} /\ ~Staging(row)
    PROVE  StepOf(r)
<1>1. row \in ReqRow
  BY DEF IInv, TypeOK
<1> QED BY <1>1 DEF StepOf

LEMMA AcquireStepOf ==
    ASSUME IInv, NEW r \in Requests, Acquire(r)
    PROVE  StepOf(r)
<1>1. IInv'
  BY AcquireStep
<1>2. req[r] \in ReqRow
  BY RowFacts
<1>6. DOMAIN db.subs \subseteq DOMAIN db'.subs
  BY DEF Acquire, LookupUpload, FailLookup, LookupDelete, RefuseDelete
<1>3. CASE LookupUpload(r)
  <2>1. PICK f : req' = [req EXCEPT ![r] = [@ EXCEPT !.pc = "commit", !.file = f]]
    BY <1>3 DEF LookupUpload
  <2> DEFINE row == [req[r] EXCEPT !.pc = "commit", !.file = f]
  <2>2. req' = [req EXCEPT ![r] = row] /\ up' = up /\ temps' = temps /\ req[r].pc = "lock"
    BY <1>3, <2>1 DEF LookupUpload, At
  <2>3. /\ row.pc = "commit" /\ row.op = req[r].op /\ row.sub = req[r].sub
        /\ row.orphan = req[r].orphan
    BY <1>2 DEF ReqRow
  <2> HIDE DEF row
  <2> QED BY <1>1, <1>6, <2>2, <2>3, GotoStepOf DEF Staging
<1>4. CASE LookupDelete(r)
  <2> DEFINE row == [req[r] EXCEPT !.pc = "drow", !.content = db.files[req[r].file].content]
  <2>1. req' = [req EXCEPT ![r] = row] /\ up' = up /\ temps' = temps /\ req[r].pc = "dlock"
    BY <1>4 DEF LookupDelete, At
  <2>2. /\ row.pc = "drow" /\ row.op = req[r].op /\ row.sub = req[r].sub
        /\ row.orphan = req[r].orphan
    BY <1>2 DEF ReqRow
  <2> HIDE DEF row
  <2> QED BY <1>1, <1>6, <2>1, <2>2, GotoStepOf DEF Staging
<1>5. CASE FailLookup(r) \/ RefuseDelete(r)
  BY <1>5, <1>6, FinishStepOf DEF FailLookup, RefuseDelete, At, Staging
<1> QED BY <1>3, <1>4, <1>5 DEF Acquire

LEMMA ProceedStepOf ==
    ASSUME IInv, Consistent(db), NEW r \in Requests, Proceed(r)
    PROVE  StepOf(r)
<1>1. IInv'
  BY ProceedStep
<1>2. req[r] \in ReqRow /\ Tables(db)
  BY RowFacts
<1>8. DOMAIN db.subs \subseteq DOMAIN db'.subs
  BY <1>2, ProceedAlters, AlterDropsNoSub
<1>3. CASE Commit(r)
  <2>1. PICK pc \in {"insert", "attach"} : req' = [req EXCEPT ![r] = [@ EXCEPT !.pc = pc]]
    BY <1>3 DEF Commit, Goto
  <2> DEFINE row == [req[r] EXCEPT !.pc = pc]
  <2>2. req' = [req EXCEPT ![r] = row] /\ up' = up /\ temps' = temps \ {r}
    BY <1>3, <2>1 DEF Commit
  <2>3. /\ row.pc = pc /\ row.op = req[r].op /\ row.sub = req[r].sub
        /\ row.orphan = req[r].orphan
    BY <1>2 DEF ReqRow
  <2> HIDE DEF row
  <2> QED BY <1>1, <1>8, <2>1, <2>2, <2>3, GotoStepOf DEF Staging
<1>4. CASE InsertFile(r)
  <2>1. PICK f : req' = [req EXCEPT ![r] = [@ EXCEPT !.pc = "attach", !.file = f]]
    BY <1>4 DEF InsertFile
  <2> DEFINE row == [req[r] EXCEPT !.pc = "attach", !.file = f]
  <2>2. req' = [req EXCEPT ![r] = row] /\ up' = up /\ temps' = temps /\ req[r].pc = "insert"
    BY <1>4, <2>1 DEF InsertFile, At
  <2>3. /\ row.pc = "attach" /\ row.op = req[r].op /\ row.sub = req[r].sub
        /\ row.orphan = req[r].orphan
    BY <1>2 DEF ReqRow
  <2> HIDE DEF row
  <2> QED BY <1>1, <1>8, <2>2, <2>3, GotoStepOf DEF Staging
<1>5. CASE DeleteRow(r)
  <2> DEFINE row == [req[r] EXCEPT !.pc = "dblob"]
  <2>1. req' = [req EXCEPT ![r] = row] /\ up' = up /\ temps' = temps /\ req[r].pc = "drow"
    BY <1>5 DEF DeleteRow, Goto, At
  <2>2. /\ row.pc = "dblob" /\ row.op = req[r].op /\ row.sub = req[r].sub
        /\ row.orphan = req[r].orphan
    BY <1>2 DEF ReqRow
  <2> HIDE DEF row
  <2> QED BY <1>1, <1>8, <2>1, <2>2, GotoStepOf DEF Staging
<1>6. CASE FailCommit(r)
  BY <1>6, <1>8, FinishStepOf DEF FailCommit
<1>7. CASE \/ FailInsert(r) \/ FailDeleteRow(r) \/ RemoveBlob(r)
           \/ AttachNew(r) \/ AttachReplace(r) \/ AttachReplaceAll(r) \/ FailAttach(r)
           \/ FinishToggle(r) \/ FinishEdit(r)
  <2>1. /\ req[r].pc \in {"insert", "drow", "dblob", "attach", "toggle", "edit"}
        /\ Finish(r) /\ up' = up /\ temps' = temps
    BY <1>7 DEF FailInsert, FailDeleteRow, RemoveBlob, AttachNew, AttachReplace,
               AttachReplaceAll, FailAttach, FinishToggle, FinishEdit, At
  <2> QED BY <1>8, <2>1, FinishStepOf DEF Staging
<1> QED BY <1>3, <1>4, <1>5, <1>6, <1>7 DEF Proceed

LEMMA StepParts ==
    ASSUME IInv, Consistent(db), [Next]_vars
    PROVE  \/ \E r \in Requests : StepOf(r)
           \/ \E s \in DOMAIN db.subs : DropSubscription(s)
           \/ UNCHANGED <<req, temps, up>> /\ DOMAIN db.subs \subseteq DOMAIN db'.subs
           \/ up' = FALSE /\ req' = [r \in Requests |-> Idle]
           \/ ~up /\ temps' = {} /\ UNCHANGED req
<1>1. ASSUME AtOnce, ~(\E s \in DOMAIN db.subs : DropSubscription(s))
      PROVE  UNCHANGED <<req, temps, up>> /\ DOMAIN db.subs \subseteq DOMAIN db'.subs
  <2>1. /\ UNCHANGED <<req, temps, up>>
        /\ Alters(db, db', Toggling, MaxSubs)
    BY <1>1, AtOnceAlters DEF AtOnce, CreateText, UpdateText, BatchContent, DetachFile, Statement
  <2> QED BY <2>1, AlterDropsNoSub DEF IInv, TypeOK
<1> QED BY <1>1, ArriveStepOf, AcquireStepOf, ProceedStepOf
        DEF Next, Admin, Crash, Restart, vars

----------------------------------------------------------------------------
(* The second invariant: the tables are consistent, what a request loaded  *)
(* about its subscription stays true, and the staged uploads are accounted *)
(* for.                                                                    *)

SInv ==
    /\ IInv
    /\ Consistent(db)
    /\ \A r \in Requests : KeepsSub(req[r], db)
    /\ NoStrayUpload

LEMMA SInvInit == Init => SInv
<1> SUFFICES ASSUME Init PROVE SInv
  OBVIOUS
<1>1. IInv /\ Consistent(db)
  BY InitEstablishes, EmptyTables DEF Init
<1>2. \A r \in Requests : KeepsSub(req[r], db)
  BY IdleKeepsSub DEF Init
<1>3. NoStrayUpload
  BY DEF Init, NoStrayUpload, Idle
<1> QED BY <1>1, <1>2, <1>3 DEF SInv

LEMMA SInvStep == SInv /\ [Next]_vars => SInv'
<1> SUFFICES ASSUME SInv, [Next]_vars PROVE SInv'
  OBVIOUS
<1>1. IInv /\ Consistent(db) /\ Tables(db) /\ IInv'
  BY InductiveStep DEF SInv, IInv, TypeOK
<1>2. Consistent(db') /\ Evolves(db, db')
  BY <1>1, StepChanges, ChangeKeeps DEF Keeps
<1>3. /\ req \in [Requests -> ReqRow] /\ temps \subseteq Requests
      /\ \A x \in Requests : KeepsSub(req[x], db)
      /\ DOMAIN db.subs \subseteq 1 .. db.subSeq
      /\ up => temps = {x \in Requests : Staging(req[x])}
  BY DEF SInv, IInv, TypeOK, NoStrayUpload, Staging, Consistent, IdsBelowSequence
<1>4. ASSUME NEW r \in Requests, StepOf(r)
      PROVE  /\ \A x \in Requests : KeepsSub(req'[x], db')
             /\ up' => temps' = {x \in Requests : Staging(req'[x])}
  <2>0. DOMAIN db.subs \subseteq DOMAIN db'.subs
    BY <1>4 DEF StepOf
  <2>1. PICK row \in ReqRow :
          /\ req' = [req EXCEPT ![r] = row]
          /\ \/ row = Idle
             \/ row.op = req[r].op /\ row.sub = req[r].sub /\ row.orphan = req[r].orphan
             \/ db' = db /\ KeepsSub(row, db)
          /\ \/ temps' = temps /\ (Staging(row) <=> Staging(req[r]))
             \/ temps' = temps \cup {r} /\ Staging(row)
             \/ temps' = temps \ {r} /\ ~Staging(row)
    BY <1>4 DEF StepOf
  <2>2. req'[r] = row /\ \A x \in Requests \ {r} : req'[x] = req[x]
    BY <1>3, <2>1
  <2>3. up' = up
    BY <1>4 DEF StepOf
  <2>4. KeepsSub(row, db')
    <3>1. CASE row = Idle
      BY <3>1, IdleKeepsSub
    <3>2. CASE row.op = req[r].op /\ row.sub = req[r].sub /\ row.orphan = req[r].orphan
      <4>1. KeepsSub(req[r], db')
        BY <1>2, <1>3, <2>0, EvolvingKeepsSub
      <4> QED BY <3>2, <4>1 DEF KeepsSub
    <3> QED BY <2>1, <3>1, <3>2
  <2>5. \A x \in Requests : KeepsSub(req'[x], db')
    BY <1>2, <1>3, <2>0, <2>2, <2>4, EvolvingKeepsSub
  <2>6. up' => temps' = {x \in Requests : Staging(req'[x])}
    BY <1>3, <2>1, <2>2, <2>3
  <2> QED BY <2>5, <2>6
<1>5. CASE UNCHANGED <<req, temps, up>> /\ DOMAIN db.subs \subseteq DOMAIN db'.subs
  BY <1>1, <1>2, <1>3, <1>5, EvolvingKeepsSub DEF SInv, NoStrayUpload
<1>6. CASE up' = FALSE /\ req' = [r \in Requests |-> Idle]
  BY <1>1, <1>2, <1>6, IdleKeepsSub DEF SInv, NoStrayUpload
<1>7. CASE ~up /\ temps' = {} /\ UNCHANGED req
  <2>1. req = [r \in Requests |-> Idle]
    BY <1>1, <1>7 DEF IInv, StoppedIsIdle
  <2> QED BY <1>1, <1>2, <1>7, <2>1, IdleKeepsSub DEF SInv, NoStrayUpload, Idle
<1>8. ASSUME NEW r \in Requests, StepOf(r) PROVE SInv'
  BY <1>1, <1>2, <1>4, <1>8 DEF SInv, NoStrayUpload, Staging
<1>9. ASSUME NEW s \in DOMAIN db.subs, DropSubscription(s) PROVE SInv'
  <2>1. /\ db' = DeleteSubscription(db, s) /\ UNCHANGED <<temps, up>>
        /\ \A x \in Requests : req'[x] = Orphaned(req[x], s)
    BY <1>9 DEF DropSubscription, Orphaned
  <2>2. \A x \in Requests : KeepsSub(req'[x], db')
    BY <1>1, <1>3, <2>1, DeletionKeepsSub
  <2>3. \A x \in Requests : req'[x].pc = req[x].pc
    BY <1>3, <2>1, OrphanedSame
  <2>4. NoStrayUpload'
    BY <1>3, <2>1, <2>3 DEF NoStrayUpload, Staging
  <2> QED BY <1>1, <1>2, <2>2, <2>4 DEF SInv
<1> QED BY <1>1, <1>5, <1>6, <1>7, <1>8, <1>9, StepParts

LEMMA SInvariance == Spec => []SInv
BY SInvInit, SInvStep, PTL DEF Spec

LEMMA MovedUses ==
    ASSUME NEW d, Tables(d), NEW old, NEW new, old # new,
           NEW e, e = ReplaceFileAssociations(d, old, new)
    PROVE  Uses(e, old) = {} /\ Uses(e, new) = Uses(d, new) \cup Uses(d, old)
<1> DEFINE S == [s \in DOMAIN d.subs |->
                    IF d.subs[s].file = old THEN Repointed(d.subs[s], new) ELSE d.subs[s]]
<1>1. e = [d EXCEPT !.subs = S]
  BY DEF ReplaceFileAssociations, WithSubs
<1> HIDE DEF S
<1>2. e.subs = S
  BY <1>1 DEF Tables
<1>3. ASSUME NEW s \in DOMAIN d.subs
      PROVE  S[s].file = IF d.subs[s].file = old THEN new ELSE d.subs[s].file
  <2> DEFINE row == Repointed(d.subs[s], new)
  <2>1. d.subs[s] \in SubRow
    BY SubRowOf
  <2>2. row.file = new
    BY <2>1 DEF Repointed, SubRow
  <2>3. S[s] = IF d.subs[s].file = old THEN row ELSE d.subs[s]
    BY DEF S
  <2> HIDE DEF row
  <2> QED BY <2>2, <2>3
<1>4. DOMAIN S = DOMAIN d.subs
  BY DEF S
<1>5. \A s \in DOMAIN e.subs : e.subs[s].file # old
  BY <1>2, <1>3, <1>4
<1>6. \A s \in DOMAIN e.subs : e.subs[s].file = new <=> d.subs[s].file \in {old, new}
  BY <1>2, <1>3, <1>4
<1> QED BY <1>2, <1>4, <1>5, <1>6 DEF Uses

----------------------------------------------------------------------------
(* The theorems.                                                           *)

LEMMA Invariance == Spec => []IInv
BY InitEstablishes, InductiveStep, PTL DEF Spec

(* Every variable keeps its type: no handler files a row with an unset     *)
(* path or content, whatever it interleaves with.                          *)
THEOREM TypeCorrect == Spec => []TypeOK
<1>1. IInv => TypeOK
  BY DEF IInv
<1> QED BY <1>1, Invariance, PTL

(* Every listed file can be opened, for any number of requests uploading   *)
(* and deleting any contents, with failures and restarts anywhere          *)
(* (saveUploadedFile and deleteStoredFile under fileMu).                   *)
THEOREM FilesAvailable == Spec => []RowHasBlob
<1>1. IInv => RowHasBlob
  BY DEF IInv
<1> QED BY <1>1, Invariance, PTL

(* The id that saveUploadedFile returned names the uploaded content or     *)
(* nothing until it is used, although fileMu has been released.            *)
THEOREM UploadsKeepIds == Spec => []UploadKeepsItsId
<1>1. IInv => UploadKeepsItsId
  BY DEF IInv, UploadKeepsItsId, RequestOK, FilesWith
<1> QED BY <1>1, Invariance, PTL

(* Links, statistics and logs never lead to rows that are gone, however    *)
(* deletions and insertions overlap (DeleteFile's NOT EXISTS, the foreign  *)
(* keys of store.go:168-243).                                              *)
THEOREM RowsResolve == Spec => []NoDanglingRow
<1>1. SInv => NoDanglingRow
  BY DEF SInv, Consistent, NoDanglingRow
<1> QED BY <1>1, SInvariance, PTL

(* No error path of an upload and no crash leaves a staged file behind     *)
(* while the process runs (Stage, Commit, Discard, NewFileStorage).        *)
THEOREM UploadsCleanUp == Spec => []NoStrayUpload
<1>1. SInv => NoStrayUpload
  BY DEF SInv
<1> QED BY <1>1, SInvariance, PTL

(* A request acts on the subscription it loaded or on none: the id of a    *)
(* deleted one is never found again, and one that was loaded as a file     *)
(* subscription still is one (replaceSubscriptionFile, updateSubscription, *)
(* toggleSubscription; AUTOINCREMENT in store.go:146).                     *)
THEOREM RequestsKeepSubscriptions == Spec => []RequestKeepsItsSubscription
<1>1. SInv => RequestKeepsItsSubscription
  BY DEF SInv, KeepsSub, RequestKeepsItsSubscription
<1> QED BY <1>1, SInvariance, PTL

LEMMA StepKeeps ==
    ASSUME SInv, [Next]_vars
    PROVE  Keeps(db, db', Toggling)
<1>1. IInv /\ Consistent(db) /\ Tables(db)
  BY DEF SInv, IInv, TypeOK
<1> QED BY <1>1, StepChanges, ChangeKeeps

(* A revision names one file for ever: whatever the administrators do at   *)
(* once, another file, or none, comes with a later revision and a current  *)
(* counter of zero (ReplaceSubscriptionFile, ReplaceFileAssociations,      *)
(* DetachSubscriptionFile).                                                *)
THEOREM RevisionsNameFiles == Spec => NewFileNewRevision
<1>1. ASSUME SInv, [Next]_vars, NEW s \in DOMAIN db.subs \cap DOMAIN db'.subs
      PROVE  /\ db'.subs[s].revision >= db.subs[s].revision
             /\ db'.subs[s].file # db.subs[s].file =>
                   db'.subs[s].revision > db.subs[s].revision /\ db'.subs[s].current = 0
  <2>1. Evolves(db, db') /\ Tables(db) /\ Tables(db') /\ Consistent(db)
    BY <1>1, StepKeeps DEF Keeps, SInv, IInv, TypeOK
  <2>2. s \in 1 .. db.subSeq
    BY <2>1 DEF Consistent, IdsBelowSequence
  <2>3. Moves(db.subs[s], db'.subs[s])
    BY <2>1, <2>2 DEF Evolves
  <2>4. db.subs[s] \in SubRow /\ db'.subs[s] \in SubRow
    BY <2>1, SubRowOf
  <2>5. db.subs[s].revision \in Nat /\ db'.subs[s].revision \in Nat
    BY <2>4 DEF SubRow
  <2> QED BY <2>3, <2>5 DEF Moves
<1>2. SInv /\ [Next]_vars =>
      [\A s \in DOMAIN db.subs \cap DOMAIN db'.subs :
          LET old == db.subs[s]
              new == db'.subs[s]
          IN  /\ new.revision >= old.revision
              /\ new.file # old.file => new.revision > old.revision /\ new.current = 0]_vars
  BY <1>1
<1> QED BY <1>2, SInvariance, PTL DEF Spec, NewFileNewRevision

(* Only a toggle that decided on an older row can enable a subscription    *)
(* that has no file (SetSubscriptionEnabled has no condition on file_id,   *)
(* UpdateFileSubscription has).                                            *)
THEOREM TogglesAlone == Spec => OnlyTogglesEnableEmpty
<1>1. ASSUME SInv, [Next]_vars, NEW s \in DOMAIN db'.subs,
             IsFileSub(db', s), db'.subs[s].enabled, db'.subs[s].file = NoFile,
             ~(s \in DOMAIN db.subs /\ db.subs[s].enabled /\ db.subs[s].file = NoFile)
      PROVE  \E r \in Requests : req[r].pc = "toggle" /\ req[r].sub = s
  <2>1. EmptiesOnly(db, db', Toggling)
    BY <1>1, StepKeeps DEF Keeps
  <2>2. s \in Toggling
    BY <1>1, <2>1 DEF EmptiesOnly, EnabledEmpty, IsFileSub
  <2> QED BY <2>2 DEF Toggling
<1>2. SInv /\ [Next]_vars =>
      [\A s \in DOMAIN db'.subs :
          /\ IsFileSub(db', s) /\ db'.subs[s].enabled /\ db'.subs[s].file = NoFile
          /\ ~(s \in DOMAIN db.subs /\ db.subs[s].enabled /\ db.subs[s].file = NoFile)
          => \E r \in Requests : req[r].pc = "toggle" /\ req[r].sub = s]_vars
  BY <1>1
<1> QED BY <1>2, SInvariance, PTL DEF Spec, OnlyTogglesEnableEmpty

(* Replacing a listed file moves all of its subscriptions or none, also    *)
(* those added after the page was loaded (ReplaceFileAssociations).        *)
THEOREM ReplacesAll == Spec => ReplaceAllOrNone
<1>1. ASSUME SInv, [Next]_vars, NEW r \in Requests,
             req[r].op = "replaceAll", req[r].pc = "attach", req'[r].pc # "attach"
      PROVE  \/ db' = db
             \/ /\ Uses(db', req[r].old) = {}
                /\ Uses(db', req[r].file) = Uses(db, req[r].file) \cup Uses(db, req[r].old)
  <2>0. IInv /\ Consistent(db) /\ Tables(db) /\ req \in [Requests -> ReqRow]
    BY <1>1 DEF SInv, IInv, TypeOK
  <2>1. CASE AttachReplaceAll(r)
    <3>1. db' = ReplaceFileAssociations(db, req[r].old, req[r].file)
      BY <2>1 DEF AttachReplaceAll
    <3>2. CASE req[r].old = req[r].file
      BY <3>1, <3>2 DEF ReplaceFileAssociations
    <3> QED BY <2>0, <3>1, <3>2, MovedUses
  <2>2. CASE FailAttach(r)
    BY <1>1, <2>2 DEF FailAttach, Publish, Switch
  <2>3. CASE Arrive(r) \/ Acquire(r)
    BY <1>1, <2>3 DEF Arrive, BeginCreate, BeginReplace, BeginReplaceAll, BeginAssociate,
       BeginDelete, BeginToggle, BeginEdit, Staged, Begin, At,
       Acquire, LookupUpload, FailLookup, LookupDelete, RefuseDelete
  <2>4. CASE Proceed(r)
    BY <1>1, <2>1, <2>2, <2>4 DEF Proceed, Commit, FailCommit, InsertFile, FailInsert,
       AttachNew, AttachReplace, Publish, Switch, DeleteRow, FailDeleteRow, RemoveBlob,
       FinishToggle, FinishEdit, At
  <2>5. ASSUME NEW x \in Requests, x # r, StepOf(x)
        PROVE  FALSE
    BY <1>1, <2>0, <2>5 DEF StepOf
  <2>6. ASSUME NEW x \in Requests, x # r
        PROVE  ~Arrive(x) /\ ~Acquire(x) /\ ~Proceed(x)
    BY <2>0, <2>5, <2>6, ArriveStepOf, AcquireStepOf, ProceedStepOf
  <2>7. ~AtOnce /\ ~Restart /\ ~UNCHANGED vars
    <3>1. ASSUME NEW s, DropSubscription(s) PROVE FALSE
      BY <1>1, <2>0, <3>1, OrphanedSame DEF DropSubscription, Orphaned
    <3> QED BY <1>1, <3>1 DEF AtOnce, CreateText, UpdateText, BatchContent, DetachFile,
                              Statement, Restart, vars
  <2>8. CASE Crash
    BY <2>8 DEF Crash
  <2> QED BY <1>1, <2>3, <2>4, <2>6, <2>7, <2>8 DEF Next, Admin
<1>2. SInv /\ [Next]_vars =>
      [\A r \in Requests :
          req[r].op = "replaceAll" /\ req[r].pc = "attach" /\ req'[r].pc # "attach" =>
              \/ db' = db
              \/ /\ Uses(db', req[r].old) = {}
                 /\ Uses(db', req[r].file) = Uses(db, req[r].file) \cup Uses(db, req[r].old)]_vars
  BY <1>1
<1> QED BY <1>2, SInvariance, PTL DEF Spec, ReplaceAllOrNone

----------------------------------------------------------------------------
(* Files implements Library.  Since every row has its blob, the library's  *)
(* view depends on the database alone; each statement of Store is then an  *)
(* action of Library or invisible, and so is everything else.              *)

ListedOf(d) == {d.files[f].content : f \in DOMAIN d.files}
LinkOf(d, f) == IF f \in DOMAIN d.files THEN d.files[f].content ELSE None
ServesOf(d) == [s \in DOMAIN d.subs |-> LinkOf(d, d.subs[s].file)]

LEMMA Mapped ==
    ASSUME SInv
    PROVE  /\ {db.files[f].content : f \in Readable} = ListedOf(db)
           /\ [s \in DOMAIN db.subs |-> Serves(s)] = ServesOf(db)
<1>1. Readable = DOMAIN db.files
  BY DEF SInv, IInv, RowHasBlob, Readable
<1> QED BY <1>1 DEF ListedOf, ServesOf, Serves, LinkOf

LEMMA MappedNext ==
    ASSUME SInv'
    PROVE  /\ {db.files[f].content : f \in Readable}' = ListedOf(db')
           /\ [s \in DOMAIN db.subs |-> Serves(s)]' = ServesOf(db')
<1>1. Readable' = DOMAIN db'.files
  BY DEF SInv, IInv, RowHasBlob, Readable
<1> QED BY <1>1 DEF ListedOf, ServesOf, Serves, LinkOf

(* What a link serves depends on the files a link may lead to.             *)
LEMMA SameLinks ==
    ASSUME NEW d, NEW e, e.subs = d.subs,
           \A s \in DOMAIN d.subs : LinkOf(e, d.subs[s].file) = LinkOf(d, d.subs[s].file)
    PROVE  ServesOf(e) = ServesOf(d)
BY DEF ServesOf

LEMMA AddMaps ==
    ASSUME NEW d, Tables(d), Consistent(d), NEW c \in Contents,
           NEW e, e = CreateFile(d, c)
    PROVE  ListedOf(e) = ListedOf(d) \cup {c} /\ ServesOf(e) = ServesOf(d)
<1> DEFINE n == NextFileId(d)
<1>1. e.files = Put(d.files, n, [content |-> c, downloads |-> 0]) /\ e.subs = d.subs
  BY CreateFileEffect
<1>2. /\ n = d.fileSeq + 1 /\ d.fileSeq \in Nat /\ n # NoFile
      /\ DOMAIN d.files \subseteq 1 .. d.fileSeq
  BY DEF NextFileId, Tables, Consistent, IdsBelowSequence, NoFile
<1> HIDE DEF n
<1>3. DOMAIN e.files = DOMAIN d.files \cup {n} /\ n \notin DOMAIN d.files
  BY <1>1, <1>2 DEF Put
<1>4. e.files[n].content = c /\ \A f \in DOMAIN d.files : e.files[f] = d.files[f]
  BY <1>1, <1>3 DEF Put
<1>5. ListedOf(e) = ListedOf(d) \cup {c}
  BY <1>3, <1>4 DEF ListedOf
<1>6. ASSUME NEW s \in DOMAIN d.subs
      PROVE  LinkOf(e, d.subs[s].file) = LinkOf(d, d.subs[s].file)
  <2>1. d.subs[s].file \in DOMAIN d.files \cup {NoFile}
    BY DEF Consistent, ReferencesResolve
  <2> QED BY <1>2, <1>3, <1>4, <2>1 DEF LinkOf
<1> QED BY <1>1, <1>5, <1>6, SameLinks

LEMMA RemoveMaps ==
    ASSUME NEW d, Tables(d), Consistent(d), NEW f \in DOMAIN d.files, CanDeleteFile(d, f),
           NEW e, e = DeleteFile(d, f)
    PROVE  \E c \in ListedOf(d) :
              /\ \A l \in DOMAIN ServesOf(d) : ServesOf(d)[l] # c
              /\ ListedOf(e) = ListedOf(d) \ {c}
              /\ ServesOf(e) = ServesOf(d)
<1> DEFINE c == d.files[f].content
<1>1. e.files = Without(d.files, {f}) /\ e.subs = d.subs
  BY DeleteFileEffect
<1>2. /\ DOMAIN e.files = DOMAIN d.files \ {f}
      /\ \A g \in DOMAIN e.files : e.files[g] = d.files[g]
  BY <1>1 DEF Without
<1>3. \A g \in DOMAIN d.files : d.files[g].content = c => g = f
  BY DEF Consistent, ContentsUnique
<1>4. c \in ListedOf(d) /\ c # None
  BY NoneAssumption DEF ListedOf, Tables, FileRow
<1>5. ListedOf(e) = ListedOf(d) \ {c}
  BY <1>2, <1>3 DEF ListedOf
<1>6. \A s \in DOMAIN d.subs : d.subs[s].file # f
  BY DEF CanDeleteFile, Uses
<1>7. ASSUME NEW s \in DOMAIN d.subs
      PROVE  LinkOf(d, d.subs[s].file) # c
  BY <1>3, <1>4, <1>6 DEF LinkOf
<1>8. ASSUME NEW s \in DOMAIN d.subs
      PROVE  LinkOf(e, d.subs[s].file) = LinkOf(d, d.subs[s].file)
  BY <1>2, <1>6 DEF LinkOf
<1>9. ServesOf(e) = ServesOf(d)
  BY <1>1, <1>8, SameLinks
<1>10. \A l \in DOMAIN ServesOf(d) : ServesOf(d)[l] # c
  BY <1>7 DEF ServesOf
<1> HIDE DEF c
<1> QED BY <1>4, <1>5, <1>9, <1>10

LEMMA LinkListed ==
    ASSUME NEW d, NEW f
    PROVE  /\ LinkOf(d, f) \in ListedOf(d) \cup {None}
           /\ f \in DOMAIN d.files => LinkOf(d, f) \in ListedOf(d)
BY DEF LinkOf, ListedOf

LEMMA PublishMaps ==
    ASSUME NEW d, Tables(d), Consistent(d), NEW e, Inserts(d, e), d.subSeq < MaxSubs
    PROVE  \E l \in (1 .. MaxSubs) \ DOMAIN ServesOf(d), c \in ListedOf(d) \cup {None} :
              /\ ServesOf(e) = [k \in DOMAIN ServesOf(d) \cup {l} |->
                                   IF k = l THEN c ELSE ServesOf(d)[k]]
              /\ ListedOf(e) = ListedOf(d)
<1>1. PICK row \in SubRow : e = InsertSub(d, row)
  BY DEF Inserts
<1> DEFINE n == NextSubId(d)
           c == LinkOf(d, row.file)
<1>2. e.subs = Put(d.subs, n, row) /\ e.files = d.files
  BY <1>1, InsertSubEffect
<1>3. /\ n = d.subSeq + 1 /\ d.subSeq \in Nat
      /\ DOMAIN d.subs \subseteq 1 .. d.subSeq
  BY DEF NextSubId, Tables, Consistent, IdsBelowSequence
<1> HIDE DEF n
<1>4. n \in 1 .. MaxSubs /\ n \notin DOMAIN d.subs
  BY <1>3, BoundsAssumption
<1>5. e.subs = [k \in DOMAIN d.subs \cup {n} |-> IF k = n THEN row ELSE d.subs[k]]
  BY <1>2 DEF Put
<1>6. ListedOf(e) = ListedOf(d) /\ \A f : LinkOf(e, f) = LinkOf(d, f)
  BY <1>2 DEF ListedOf, LinkOf
<1>7. c \in ListedOf(d) \cup {None}
  BY LinkListed
<1>8. DOMAIN ServesOf(d) = DOMAIN d.subs /\ DOMAIN ServesOf(e) = DOMAIN d.subs \cup {n}
  BY <1>5 DEF ServesOf
<1>9. ASSUME NEW k \in DOMAIN d.subs \cup {n}
      PROVE  ServesOf(e)[k] = IF k = n THEN c ELSE ServesOf(d)[k]
  BY <1>4, <1>5, <1>6 DEF ServesOf
<1> HIDE DEF c
<1>10. ServesOf(e) = [k \in DOMAIN ServesOf(d) \cup {n} |-> IF k = n THEN c ELSE ServesOf(d)[k]]
  <2>1. ServesOf(e) = [k \in DOMAIN d.subs \cup {n} |-> ServesOf(e)[k]]
    BY <1>8 DEF ServesOf
  <2> QED BY <1>8, <1>9, <2>1
<1> QED BY <1>4, <1>6, <1>7, <1>8, <1>10

LEMMA RetireMaps ==
    ASSUME NEW d, Tables(d), NEW s \in DOMAIN d.subs, NEW e, e = DeleteSubscription(d, s)
    PROVE  /\ s \in DOMAIN ServesOf(d)
           /\ ServesOf(e) = [k \in DOMAIN ServesOf(d) \ {s} |-> ServesOf(d)[k]]
           /\ ListedOf(e) = ListedOf(d)
<1>1. e.subs = Without(d.subs, {s}) /\ e.files = d.files
  BY DeleteSubscriptionEffect DEF KeepsFiles
<1>2. e.subs = [k \in DOMAIN d.subs \ {s} |-> d.subs[k]]
  BY <1>1 DEF Without
<1>3. ListedOf(e) = ListedOf(d) /\ \A f : LinkOf(e, f) = LinkOf(d, f)
  BY <1>1 DEF ListedOf, LinkOf
<1> QED BY <1>2, <1>3 DEF ServesOf

LEMMA RewriteMaps ==
    ASSUME NEW d, Tables(d), Consistent(d), NEW e, NEW T, Rewrites(d, e, T)
    PROVE  /\ ListedOf(e) = ListedOf(d)
           /\ \/ ServesOf(e) = ServesOf(d)
              \/ \E l \in DOMAIN ServesOf(d), c \in ListedOf(d) \cup {None} :
                    ServesOf(e) = [ServesOf(d) EXCEPT ![l] = c]
              \/ \E b, c \in ListedOf(d) :
                    ServesOf(e) = [l \in DOMAIN ServesOf(d) |->
                                      IF ServesOf(d)[l] = b THEN c ELSE ServesOf(d)[l]]
<1>1. /\ e.files = d.files /\ DOMAIN e.subs = DOMAIN d.subs
      /\ Redirects(d, e.subs)
  BY DEF Rewrites, KeepsFiles
<1>2. ListedOf(e) = ListedOf(d) /\ \A f : LinkOf(e, f) = LinkOf(d, f)
  BY <1>1 DEF ListedOf, LinkOf
<1>3. PICK S \in SUBSET DOMAIN d.subs, f \in DOMAIN d.files \cup {NoFile} :
        /\ \A s \in DOMAIN d.subs : e.subs[s].file = IF s \in S THEN f ELSE d.subs[s].file
        /\ \/ S = {}
           \/ \E s \in DOMAIN d.subs : S = {s}
           \/ f # NoFile /\ \E old \in DOMAIN d.files : S = Uses(d, old)
  BY <1>1 DEF Redirects
<1> DEFINE V == ServesOf(d)
           W == ServesOf(e)
           c == LinkOf(d, f)
<1>4. /\ DOMAIN V = DOMAIN d.subs /\ DOMAIN W = DOMAIN d.subs
      /\ W = [s \in DOMAIN d.subs |-> W[s]] /\ V = [s \in DOMAIN d.subs |-> V[s]]
  BY <1>1 DEF ServesOf
<1>5. \A s \in DOMAIN d.subs : V[s] = LinkOf(d, d.subs[s].file)
  BY DEF ServesOf
<1>6. \A s \in DOMAIN d.subs : W[s] = IF s \in S THEN c ELSE V[s]
  <2>1. \A s \in DOMAIN d.subs : W[s] = LinkOf(d, e.subs[s].file)
    BY <1>1, <1>2 DEF ServesOf
  <2> QED BY <1>3, <1>5, <2>1
<1>7. c \in ListedOf(d) \cup {None} /\ (f # NoFile => c \in ListedOf(d))
  BY LinkListed
<1> HIDE DEF V, W, c
<1>8. CASE S = {}
  <2>1. W = V
    BY <1>4, <1>6, <1>8
  <2> QED BY <1>2, <2>1 DEF V, W
<1>9. CASE \E s \in DOMAIN d.subs : S = {s}
  <2>1. PICK s \in DOMAIN d.subs : S = {s}
    BY <1>9
  <2>2. W = [V EXCEPT ![s] = c]
    BY <1>4, <1>6, <2>1
  <2> QED BY <1>2, <1>4, <1>7, <2>2 DEF V, W
<1>10. CASE f # NoFile /\ \E old \in DOMAIN d.files : S = Uses(d, old)
  <2>1. PICK old \in DOMAIN d.files : S = Uses(d, old)
    BY <1>10
  <2> DEFINE b == d.files[old].content
  <2>2. b \in ListedOf(d) /\ b # None
    BY NoneAssumption DEF ListedOf, Tables, FileRow
  <2>3. ASSUME NEW s \in DOMAIN d.subs
        PROVE  V[s] = b <=> s \in S
    <3>1. V[s] = LinkOf(d, d.subs[s].file)
      BY <1>5
    <3>2. \A g \in DOMAIN d.files : d.files[g].content = b => g = old
      BY DEF Consistent, ContentsUnique
    <3>3. V[s] = b <=> d.subs[s].file = old
      BY <2>2, <3>1, <3>2 DEF LinkOf
    <3> QED BY <2>1, <3>3 DEF Uses
  <2> HIDE DEF b
  <2>4. W = [l \in DOMAIN V |-> IF V[l] = b THEN c ELSE V[l]]
    <3>1. \A s \in DOMAIN d.subs : W[s] = IF V[s] = b THEN c ELSE V[s]
      BY <1>6, <2>3
    <3> QED BY <1>4, <3>1
  <2> QED BY <1>2, <1>7, <1>10, <2>2, <2>4 DEF V, W
<1> QED BY <1>3, <1>8, <1>9, <1>10

LEMMA LibraryStep == SInv /\ SInv' /\ [Next]_vars => [Lib!Next]_(Lib!vars)
<1> SUFFICES ASSUME SInv, SInv', [Next]_vars PROVE [Lib!Next]_(Lib!vars)
  OBVIOUS
<1> DEFINE L == ListedOf(db)
           V == ServesOf(db)
           M == ListedOf(db')
           W == ServesOf(db')
<1>1. /\ {db.files[f].content : f \in Readable} = L
      /\ [s \in DOMAIN db.subs |-> Serves(s)] = V
  BY Mapped
<1>2. /\ {db.files[f].content : f \in Readable}' = M
      /\ [s \in DOMAIN db.subs |-> Serves(s)]' = W
  BY MappedNext
<1>3. Tables(db) /\ Consistent(db) /\ Changes(db, db', Toggling, MaxSubs)
  BY StepChanges DEF SInv, IInv, TypeOK
<1> HIDE DEF L, V, M, W
<1>4. CASE M = L /\ W = V
  BY <1>1, <1>2, <1>4 DEF Lib!vars
<1>5. CASE \E c \in Contents : M = L \cup {c} /\ W = V
  <2>1. Lib!Add
    BY <1>1, <1>2, <1>5 DEF Lib!Add
  <2> QED BY <2>1 DEF Lib!Next
<1>6. CASE \E c \in L : (\A l \in DOMAIN V : V[l] # c) /\ M = L \ {c} /\ W = V
  <2>1. Lib!Remove
    BY <1>1, <1>2, <1>6 DEF Lib!Remove
  <2> QED BY <2>1 DEF Lib!Next
<1>7. CASE \E l \in (1 .. MaxSubs) \ DOMAIN V, c \in L \cup {None} :
              /\ W = [k \in DOMAIN V \cup {l} |-> IF k = l THEN c ELSE V[k]]
              /\ M = L
  <2>1. Lib!Publish
    BY <1>1, <1>2, <1>7 DEF Lib!Publish
  <2> QED BY <2>1 DEF Lib!Next
<1>8. CASE M = L /\ \E l \in DOMAIN V, c \in L \cup {None} : W = [V EXCEPT ![l] = c]
  <2>1. Lib!Switch \/ Lib!Withdraw
    BY <1>1, <1>2, <1>8 DEF Lib!Switch, Lib!Withdraw
  <2> QED BY <2>1 DEF Lib!Next
<1>9. CASE /\ M = L
           /\ \E b, c \in L : W = [l \in DOMAIN V |-> IF V[l] = b THEN c ELSE V[l]]
  <2>1. Lib!SwitchAll
    <3>1. PICK b \in L, c \in L : W = [l \in DOMAIN V |-> IF V[l] = b THEN c ELSE V[l]]
      BY <1>9
    <3>2. [l \in DOMAIN [s \in DOMAIN db.subs |-> Serves(s)] |->
              IF [s \in DOMAIN db.subs |-> Serves(s)][l] = b THEN c
              ELSE [s \in DOMAIN db.subs |-> Serves(s)][l]]
            = [l \in DOMAIN V |-> IF V[l] = b THEN c ELSE V[l]]
      BY <1>1, Zenon
    <3>3. [s \in DOMAIN db.subs |-> Serves(s)]'
            = [l \in DOMAIN [s \in DOMAIN db.subs |-> Serves(s)] |->
                  IF [s \in DOMAIN db.subs |-> Serves(s)][l] = b THEN c
                  ELSE [s \in DOMAIN db.subs |-> Serves(s)][l]]
      BY <1>2, <3>1, <3>2, Zenon
    <3>4. UNCHANGED {db.files[f].content : f \in Readable}
      BY <1>1, <1>2, <1>9, Zenon
    <3>5. b \in {db.files[f].content : f \in Readable} /\ c \in {db.files[f].content : f \in Readable}
      BY <1>1, <3>1, Zenon
    <3> QED BY <3>3, <3>4, <3>5, ZenonT(60) DEF Lib!SwitchAll
  <2> QED BY <2>1 DEF Lib!Next
<1>10. CASE M = L /\ \E l \in DOMAIN V : W = [k \in DOMAIN V \ {l} |-> V[k]]
  <2>1. Lib!Retire
    BY <1>1, <1>2, <1>10 DEF Lib!Retire
  <2> QED BY <2>1 DEF Lib!Next
<1>11. CASE db' = db
  BY <1>4, <1>11 DEF L, V, M, W
<1>12. ASSUME NEW c \in Contents, db' = CreateFile(db, c)
       PROVE  M = L \cup {c} /\ W = V
  BY <1>3, <1>12, AddMaps DEF L, V, M, W
<1>13. ASSUME NEW f \in DOMAIN db.files, CanDeleteFile(db, f), db' = DeleteFile(db, f)
       PROVE  \E c \in L : (\A l \in DOMAIN V : V[l] # c) /\ M = L \ {c} /\ W = V
  BY <1>3, <1>13, RemoveMaps DEF L, V, M, W
<1>14. ASSUME Inserts(db, db'), db.subSeq < MaxSubs
       PROVE  \E l \in (1 .. MaxSubs) \ DOMAIN V, c \in L \cup {None} :
                 /\ W = [k \in DOMAIN V \cup {l} |-> IF k = l THEN c ELSE V[k]]
                 /\ M = L
  BY <1>3, <1>14, PublishMaps DEF L, V, M, W
<1>15. ASSUME Rewrites(db, db', Toggling)
       PROVE  /\ M = L
              /\ \/ W = V
                 \/ \E l \in DOMAIN V, c \in L \cup {None} : W = [V EXCEPT ![l] = c]
                 \/ \E b, c \in L : W = [l \in DOMAIN V |-> IF V[l] = b THEN c ELSE V[l]]
  BY <1>3, <1>15, RewriteMaps DEF L, V, M, W
<1>16. ASSUME NEW s \in DOMAIN db.subs, db' = DeleteSubscription(db, s)
       PROVE  /\ s \in DOMAIN V /\ M = L
              /\ W = [k \in DOMAIN V \ {s} |-> V[k]]
  BY <1>3, <1>16, RetireMaps DEF L, V, M, W
<1> QED
  <2>1. CASE \E c \in Contents : CanCreateFile(db, c) /\ db' = CreateFile(db, c)
    BY <1>5, <1>12, <2>1
  <2>2. CASE \E f \in DOMAIN db.files : CanDeleteFile(db, f) /\ db' = DeleteFile(db, f)
    BY <1>6, <1>13, <2>2
  <2>3. CASE Inserts(db, db') /\ db.subSeq < MaxSubs
    BY <1>7, <1>14, <2>3
  <2>4. CASE Rewrites(db, db', Toggling)
    BY <1>4, <1>8, <1>9, <1>15, <2>4
  <2>5. CASE \E s \in DOMAIN db.subs : db' = DeleteSubscription(db, s)
    BY <1>10, <1>16, <2>5
  <2> QED BY <1>3, <1>11, <2>1, <2>2, <2>3, <2>4, <2>5 DEF Changes, Alters

LEMMA LibraryInit == Init => Lib!Init
<1> SUFFICES ASSUME Init PROVE Lib!Init
  OBVIOUS
<1>1. DOMAIN db.files = {} /\ DOMAIN db.subs = {}
  BY DEF Init, EmptyDB, Empty
<1>2. {db.files[f].content : f \in Readable} = {}
  BY <1>1 DEF Readable
<1>3. [s \in DOMAIN db.subs |-> Serves(s)] = [l \in {} |-> None]
  BY <1>1
<1> QED BY <1>2, <1>3 DEF Lib!Init

(* Subscribers and administrators see nothing but the atomic steps of      *)
(* Library, whatever requests overlap, fail or die with the process.       *)
THEOREM RefinesLibrary == Spec => ImplementsLibrary
<1>1. Init => Lib!Init
  BY LibraryInit
<1>2. SInv /\ SInv' /\ [Next]_vars => [Lib!Next]_(Lib!vars)
  BY LibraryStep
<1> QED BY <1>1, <1>2, SInvariance, PTL DEF Spec, ImplementsLibrary, Lib!Spec
=============================================================================
