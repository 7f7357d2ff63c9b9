---------------------------- MODULE StoreProofs ----------------------------
(***************************************************************************)
(* What the statements of Store do to the tables, for every set of         *)
(* contents, paths and texts and every database.                           *)
(***************************************************************************)
EXTENDS Store, FiniteSetTheorems, TLAPS

LEMMA EmptyTables == Tables(EmptyDB) /\ Consistent(EmptyDB)
BY DEF Tables, EmptyDB, Empty, Consistent, IdsBelowSequence, ContentsUnique,
       PathsUnique, ReferencesResolve, TextHasNoFile

LEMMA PutFunction ==
    ASSUME NEW T, NEW f, f \in [DOMAIN f -> T], NEW k, NEW v \in T
    PROVE  /\ Put(f, k, v) \in [DOMAIN Put(f, k, v) -> T]
           /\ DOMAIN Put(f, k, v) = DOMAIN f \cup {k}
BY DEF Put

LEMMA UnfiledFunction ==
    ASSUME NEW logs, logs \in [DOMAIN logs -> Nat], DOMAIN logs \subseteq Nat \X Nat, NEW f
    PROVE  /\ Unfiled(logs, f) \in [DOMAIN Unfiled(logs, f) -> Nat]
           /\ DOMAIN Unfiled(logs, f) \subseteq Nat \X Nat
           /\ \A k \in DOMAIN Unfiled(logs, f) :
                 \E j \in DOMAIN logs :
                    k[1] = j[1] /\ (k[2] = NoFile \/ k[2] = j[2]) /\ (f # NoFile => k[2] # f)
<1> DEFINE key(k) == IF k[2] = f THEN <<k[1], NoFile>> ELSE k
           D == {key(j) : j \in DOMAIN logs}
           u(k) == IF k[2] = NoFile THEN Count(logs, k) + Count(logs, <<k[1], f>>)
                   ELSE logs[k]
<1>1. Unfiled(logs, f) = [k \in D |-> u(k)]
  BY DEF Unfiled
<1>2. \A j \in DOMAIN logs : j = <<j[1], j[2]>> /\ j[1] \in Nat /\ j[2] \in Nat
  OBVIOUS
<1>3. ASSUME NEW k \in D
      PROVE  /\ k \in Nat \X Nat
             /\ u(k) \in Nat
             /\ \E j \in DOMAIN logs :
                    k[1] = j[1] /\ (k[2] = NoFile \/ k[2] = j[2]) /\ (f # NoFile => k[2] # f)
  <2>1. PICK j \in DOMAIN logs : k = key(j)
    OBVIOUS
  <2>2. CASE j[2] = f
    <3>1. k = <<j[1], NoFile>> /\ k[1] = j[1] /\ k[2] = NoFile
      BY <2>1, <2>2
    <3>2. u(k) \in Nat
      BY <3>1 DEF Count
    <3>3. k \in Nat \X Nat
      BY <1>2, <3>1 DEF NoFile
    <3> QED BY <3>1, <3>2, <3>3
  <2>3. CASE j[2] # f
    <3>1. k = j
      BY <2>1, <2>3
    <3>2. u(k) \in Nat
      BY <3>1 DEF Count
    <3> QED BY <3>1, <3>2, <1>2, <2>3
  <2> QED BY <2>2, <2>3
<1> HIDE DEF D, u
<1> QED BY <1>1, <1>3

----------------------------------------------------------------------------

(* Assembling a database from its fields.                                  *)

LEMMA WithSubsEffect ==
    ASSUME NEW d, Tables(d), NEW S, S \in [DOMAIN S -> SubRow], DOMAIN S \subseteq Nat
    PROVE  /\ Tables(WithSubs(d, S))
           /\ WithSubs(d, S).subs = S
           /\ WithSubs(d, S).files = d.files
           /\ WithSubs(d, S).stats = d.stats
           /\ WithSubs(d, S).logs = d.logs
           /\ WithSubs(d, S).fileSeq = d.fileSeq
           /\ WithSubs(d, S).subSeq = d.subSeq
<1> DEFINE e == WithSubs(d, S)
<1>1. e = [d EXCEPT !.subs = S]
  BY DEF WithSubs
<1> HIDE DEF e
<1>2. /\ DOMAIN e = DOMAIN d
      /\ e.files = d.files /\ e.stats = d.stats /\ e.logs = d.logs
      /\ e.fileSeq = d.fileSeq /\ e.subSeq = d.subSeq
  BY <1>1 DEF Tables
<1>3. e.subs = S
  BY <1>1 DEF Tables
<1>4. Tables(e)
  BY <1>2, <1>3 DEF Tables
<1> QED BY <1>2, <1>3, <1>4 DEF e

----------------------------------------------------------------------------
(* files                                                                   *)

LEMMA CreateFileEffect ==
    ASSUME NEW d, Tables(d), NEW c \in Contents, NEW e, e = CreateFile(d, c)
    PROVE  /\ Tables(e)
           /\ e.files = Put(d.files, NextFileId(d), [content |-> c, downloads |-> 0])
           /\ e.subs = d.subs /\ e.stats = d.stats /\ e.logs = d.logs
           /\ e.fileSeq = d.fileSeq + 1 /\ e.subSeq = d.subSeq
<1> DEFINE F == Put(d.files, NextFileId(d), [content |-> c, downloads |-> 0])
<1>1. /\ d.files \in [DOMAIN d.files -> FileRow] /\ DOMAIN d.files \subseteq Nat
      /\ d.fileSeq + 1 \in Nat
  BY DEF Tables
<1>2. [content |-> c, downloads |-> 0] \in FileRow
  BY DEF FileRow
<1>3. F \in [DOMAIN F -> FileRow] /\ DOMAIN F \subseteq Nat
  <2>1. F \in [DOMAIN F -> FileRow]
    BY <1>1, <1>2, PutFunction
  <2>2. DOMAIN F \subseteq Nat
    BY <1>1 DEF NextFileId, Put
  <2> QED BY <2>1, <2>2
<1>4. e = [d EXCEPT !.files = F, !.fileSeq = d.fileSeq + 1]
  BY DEF CreateFile
<1> HIDE DEF F
<1>5. /\ DOMAIN e = DOMAIN d
      /\ e.subs = d.subs /\ e.stats = d.stats /\ e.logs = d.logs /\ e.subSeq = d.subSeq
  BY <1>4 DEF Tables
<1>6. e.files = F /\ e.fileSeq = d.fileSeq + 1
  BY <1>4 DEF Tables
<1>7. Tables(e)
  BY <1>1, <1>3, <1>5, <1>6 DEF Tables
<1> QED BY <1>5, <1>6, <1>7 DEF F

(* The statistics left belong to other files.                              *)
ForgetsFile(d, e, f) == \A k \in DOMAIN e.stats : k \in DOMAIN d.stats /\ k[1] # f

LEMMA DeleteFileEffect ==
    ASSUME NEW d, Tables(d), NEW f, NEW e, e = DeleteFile(d, f)
    PROVE  /\ Tables(e)
           /\ e.files = Without(d.files, {f})
           /\ ForgetsFile(d, e, f)
           /\ e.logs = Unfiled(d.logs, f)
           /\ e.subs = d.subs /\ e.fileSeq = d.fileSeq /\ e.subSeq = d.subSeq
<1> DEFINE F == Without(d.files, {f})
           S == Without(d.stats, {k \in DOMAIN d.stats : k[1] = f})
           L == Unfiled(d.logs, f)
<1>1. /\ d.files \in [DOMAIN d.files -> FileRow] /\ DOMAIN d.files \subseteq Nat
      /\ d.stats \in [DOMAIN d.stats -> Nat] /\ DOMAIN d.stats \subseteq Nat \X Nat
      /\ d.logs \in [DOMAIN d.logs -> Nat] /\ DOMAIN d.logs \subseteq Nat \X Nat
  BY DEF Tables
<1>2. F \in [DOMAIN F -> FileRow] /\ DOMAIN F \subseteq Nat
  BY <1>1 DEF Without
<1>3. /\ S \in [DOMAIN S -> Nat] /\ DOMAIN S \subseteq Nat \X Nat
      /\ \A k \in DOMAIN S : k \in DOMAIN d.stats /\ k[1] # f
  BY <1>1 DEF Without
<1>4. L \in [DOMAIN L -> Nat] /\ DOMAIN L \subseteq Nat \X Nat
  BY <1>1, UnfiledFunction
<1>5. e = [d EXCEPT !.files = F, !.stats = S, !.logs = L]
  BY DEF DeleteFile
<1> HIDE DEF F, S, L
<1>6. DOMAIN e = DOMAIN d /\ e.subs = d.subs /\ e.fileSeq = d.fileSeq /\ e.subSeq = d.subSeq
  BY <1>5 DEF Tables
<1>7. e.files = F /\ e.stats = S /\ e.logs = L
  BY <1>5 DEF Tables
<1>8. Tables(e)
  BY <1>2, <1>3, <1>4, <1>6, <1>7 DEF Tables
<1>9. ForgetsFile(d, e, f)
  BY <1>3, <1>7 DEF ForgetsFile
<1> QED BY <1>6, <1>7, <1>8, <1>9 DEF F, L

----------------------------------------------------------------------------
(* subscriptions                                                           *)

LEMMA InsertSubEffect ==
    ASSUME NEW d, Tables(d), NEW row \in SubRow
    PROVE  /\ Tables(InsertSub(d, row))
           /\ InsertSub(d, row).subs = Put(d.subs, NextSubId(d), row)
           /\ InsertSub(d, row).files = d.files
           /\ InsertSub(d, row).stats = d.stats
           /\ InsertSub(d, row).logs = d.logs
           /\ InsertSub(d, row).fileSeq = d.fileSeq
           /\ InsertSub(d, row).subSeq = d.subSeq + 1
<1> DEFINE S == Put(d.subs, NextSubId(d), row)
           e == InsertSub(d, row)
<1>1. d.subs \in [DOMAIN d.subs -> SubRow] /\ DOMAIN d.subs \subseteq Nat /\ d.subSeq \in Nat
  BY DEF Tables
<1>2. S \in [DOMAIN S -> SubRow] /\ DOMAIN S \subseteq Nat
  <2>1. S \in [DOMAIN S -> SubRow]
    BY <1>1, PutFunction
  <2>2. DOMAIN S \subseteq Nat
    BY <1>1 DEF NextSubId, Put
  <2> QED BY <2>1, <2>2
<1>3. e = [d EXCEPT !.subs = S, !.subSeq = d.subSeq + 1]
  BY DEF InsertSub
<1>4. d.subSeq + 1 \in Nat
  BY <1>1
<1> HIDE DEF S, e
<1>5. DOMAIN e = DOMAIN d /\ e.files = d.files /\ e.stats = d.stats /\ e.logs = d.logs
  BY <1>3 DEF Tables
<1>6. e.fileSeq = d.fileSeq /\ e.subs = S /\ e.subSeq = d.subSeq + 1
  BY <1>3 DEF Tables
<1>7. Tables(e)
  BY <1>2, <1>4, <1>5, <1>6 DEF Tables
<1> QED BY <1>5, <1>6, <1>7 DEF S, e

LEMMA SetSubEffect ==
    ASSUME NEW d, Tables(d), NEW s \in DOMAIN d.subs, NEW row \in SubRow
    PROVE  /\ Tables(SetSub(d, s, row))
           /\ SetSub(d, s, row).subs = [d.subs EXCEPT ![s] = row]
           /\ SetSub(d, s, row).files = d.files
           /\ SetSub(d, s, row).stats = d.stats
           /\ SetSub(d, s, row).logs = d.logs
           /\ SetSub(d, s, row).fileSeq = d.fileSeq
           /\ SetSub(d, s, row).subSeq = d.subSeq
<1> DEFINE S == [d.subs EXCEPT ![s] = row]
<1>1. d.subs \in [DOMAIN d.subs -> SubRow] /\ DOMAIN d.subs \subseteq Nat
  BY DEF Tables
<1>2. S \in [DOMAIN S -> SubRow] /\ DOMAIN S \subseteq Nat
  BY <1>1
<1>3. SetSub(d, s, row) = WithSubs(d, S)
  BY DEF SetSub
<1> HIDE DEF S
<1>4. /\ Tables(SetSub(d, s, row))
      /\ SetSub(d, s, row).subs = S
      /\ SetSub(d, s, row).files = d.files
      /\ SetSub(d, s, row).stats = d.stats
      /\ SetSub(d, s, row).logs = d.logs
      /\ SetSub(d, s, row).fileSeq = d.fileSeq
      /\ SetSub(d, s, row).subSeq = d.subSeq
  BY <1>2, <1>3, WithSubsEffect
<1> QED BY <1>4 DEF S

LEMMA RepointedRow ==
    ASSUME NEW row \in SubRow, NEW f \in Nat
    PROVE  Repointed(row, f) \in SubRow
<1>1. row.revision + 1 \in Nat
  BY DEF SubRow
<1> QED BY <1>1 DEF Repointed, SubRow

(* No statement about subscriptions touches the files table.               *)
KeepsFiles(d, e) == Tables(e) /\ e.files = d.files /\ e.fileSeq = d.fileSeq

LEMMA SubRowOf ==
    ASSUME NEW d, Tables(d), NEW s \in DOMAIN d.subs
    PROVE  d.subs[s] \in SubRow
BY DEF Tables

LEMMA CreateSubscriptionKeepsFiles ==
    ASSUME NEW d, Tables(d), NEW p \in Paths, NEW t \in Texts, NEW e \in BOOLEAN
    PROVE  KeepsFiles(d, CreateSubscription(d, p, t, e))
<1>1. NewSub(p, "text", t, NoFile, e) \in SubRow
  BY DEF NewSub, SubRow, NoFile
<1> QED BY <1>1, InsertSubEffect DEF CreateSubscription, KeepsFiles

LEMMA CreateFileSubscriptionKeepsFiles ==
    ASSUME NEW d, Tables(d), NEW p \in Paths, NEW f \in Nat, NEW e \in BOOLEAN
    PROVE  KeepsFiles(d, CreateFileSubscription(d, p, f, e))
<1>1. NewSub(p, "file", NoText, f, e) \in SubRow
  BY DEF NewSub, SubRow
<1> QED BY <1>1, InsertSubEffect DEF CreateFileSubscription, KeepsFiles

LEMMA UpdateSubscriptionKeepsFiles ==
    ASSUME NEW d, Tables(d), NEW s \in DOMAIN d.subs, NEW p \in Paths, NEW t \in Texts,
           NEW e \in BOOLEAN
    PROVE  KeepsFiles(d, UpdateSubscription(d, s, p, t, e))
<1>1. [d.subs[s] EXCEPT !.path = p, !.text = t, !.enabled = e] \in SubRow
  BY SubRowOf DEF SubRow
<1> QED BY <1>1, SetSubEffect DEF UpdateSubscription, KeepsFiles

LEMMA UpdateFileSubscriptionKeepsFiles ==
    ASSUME NEW d, Tables(d), NEW s \in DOMAIN d.subs, NEW p \in Paths, NEW e \in BOOLEAN
    PROVE  KeepsFiles(d, UpdateFileSubscription(d, s, p, e))
<1>1. [d.subs[s] EXCEPT !.path = p, !.enabled = e] \in SubRow
  BY SubRowOf DEF SubRow
<1> QED BY <1>1, SetSubEffect DEF UpdateFileSubscription, KeepsFiles

LEMMA SetSubscriptionEnabledKeepsFiles ==
    ASSUME NEW d, Tables(d), NEW s \in DOMAIN d.subs, NEW e \in BOOLEAN
    PROVE  KeepsFiles(d, SetSubscriptionEnabled(d, s, e))
<1>1. [d.subs[s] EXCEPT !.enabled = e] \in SubRow
  BY SubRowOf DEF SubRow
<1> QED BY <1>1, SetSubEffect DEF SetSubscriptionEnabled, KeepsFiles

LEMMA ReplaceSubscriptionFileKeepsFiles ==
    ASSUME NEW d, Tables(d), NEW s \in DOMAIN d.subs, NEW f \in Nat
    PROVE  KeepsFiles(d, ReplaceSubscriptionFile(d, s, f))
<1> DEFINE row == IF d.subs[s].file = f THEN d.subs[s] ELSE Repointed(d.subs[s], f)
<1>1. row \in SubRow
  BY SubRowOf, RepointedRow
<1>2. ReplaceSubscriptionFile(d, s, f) = SetSub(d, s, row)
  BY DEF ReplaceSubscriptionFile
<1> HIDE DEF row
<1>3. KeepsFiles(d, SetSub(d, s, row))
  BY <1>1, SetSubEffect DEF KeepsFiles
<1> QED BY <1>2, <1>3

LEMMA DetachSubscriptionFileKeepsFiles ==
    ASSUME NEW d, Tables(d), NEW s \in DOMAIN d.subs
    PROVE  KeepsFiles(d, DetachSubscriptionFile(d, s))
<1> DEFINE row == [d.subs[s] EXCEPT !.file = NoFile, !.enabled = FALSE,
                                    !.current = 0, !.revision = @ + 1]
<1>1. d.subs[s] \in SubRow /\ d.subs[s].revision + 1 \in Nat
  BY SubRowOf DEF SubRow
<1>2. row \in SubRow
  BY <1>1 DEF SubRow, NoFile
<1>3. DetachSubscriptionFile(d, s) = SetSub(d, s, row)
  BY DEF DetachSubscriptionFile
<1> HIDE DEF row
<1>4. KeepsFiles(d, SetSub(d, s, row))
  BY <1>2, SetSubEffect DEF KeepsFiles
<1> QED BY <1>3, <1>4

LEMMA ReplaceFileAssociationsKeepsFiles ==
    ASSUME NEW d, Tables(d), NEW old, NEW new \in Nat
    PROVE  KeepsFiles(d, ReplaceFileAssociations(d, old, new))
<1> DEFINE S == [s \in DOMAIN d.subs |->
                    IF d.subs[s].file = old THEN Repointed(d.subs[s], new) ELSE d.subs[s]]
<1>1. CASE old = new
  BY <1>1 DEF ReplaceFileAssociations, KeepsFiles
<1>2. CASE old # new
  <2>1. S \in [DOMAIN S -> SubRow] /\ DOMAIN S \subseteq Nat
    BY SubRowOf, RepointedRow DEF Tables
  <2>2. ReplaceFileAssociations(d, old, new) = WithSubs(d, S)
    BY <1>2 DEF ReplaceFileAssociations
  <2> HIDE DEF S
  <2> QED BY <2>1, <2>2, WithSubsEffect DEF KeepsFiles
<1> QED BY <1>1, <1>2

LEMMA BatchUpdateContentKeepsFiles ==
    ASSUME NEW d, Tables(d), NEW B, NEW t \in Texts
    PROVE  KeepsFiles(d, BatchUpdateContent(d, B, t))
<1> DEFINE S == [s \in DOMAIN d.subs |->
                    IF s \in B /\ d.subs[s].type = "text"
                    THEN [d.subs[s] EXCEPT !.text = t] ELSE d.subs[s]]
<1>1. ASSUME NEW s \in DOMAIN d.subs
      PROVE  [d.subs[s] EXCEPT !.text = t] \in SubRow
  BY SubRowOf DEF SubRow
<1>2. S \in [DOMAIN S -> SubRow] /\ DOMAIN S \subseteq Nat
  BY <1>1, SubRowOf DEF Tables
<1>3. BatchUpdateContent(d, B, t) = WithSubs(d, S)
  BY DEF BatchUpdateContent
<1> HIDE DEF S
<1> QED BY <1>2, <1>3, WithSubsEffect DEF KeepsFiles

(* The statistics and logs left belong to other subscriptions.             *)
ForgetsSub(d, e, s) ==
    /\ \A k \in DOMAIN e.stats : k \in DOMAIN d.stats /\ k[2] # s
    /\ \A k \in DOMAIN e.logs : k \in DOMAIN d.logs /\ k[1] # s

LEMMA DeleteSubscriptionEffect ==
    ASSUME NEW d, Tables(d), NEW s, NEW e, e = DeleteSubscription(d, s)
    PROVE  /\ KeepsFiles(d, e)
           /\ e.subs = Without(d.subs, {s})
           /\ ForgetsSub(d, e, s)
           /\ e.subSeq = d.subSeq
<1> DEFINE U == Without(d.subs, {s})
           S == Without(d.stats, {k \in DOMAIN d.stats : k[2] = s})
           L == Without(d.logs, {k \in DOMAIN d.logs : k[1] = s})
<1>1. /\ d.subs \in [DOMAIN d.subs -> SubRow] /\ DOMAIN d.subs \subseteq Nat
      /\ d.stats \in [DOMAIN d.stats -> Nat] /\ DOMAIN d.stats \subseteq Nat \X Nat
      /\ d.logs \in [DOMAIN d.logs -> Nat] /\ DOMAIN d.logs \subseteq Nat \X Nat
  BY DEF Tables
<1>2. U \in [DOMAIN U -> SubRow] /\ DOMAIN U \subseteq Nat
  BY <1>1 DEF Without
<1>3. /\ S \in [DOMAIN S -> Nat] /\ DOMAIN S \subseteq Nat \X Nat
      /\ \A k \in DOMAIN S : k \in DOMAIN d.stats /\ k[2] # s
  BY <1>1 DEF Without
<1>4. /\ L \in [DOMAIN L -> Nat] /\ DOMAIN L \subseteq Nat \X Nat
      /\ \A k \in DOMAIN L : k \in DOMAIN d.logs /\ k[1] # s
  BY <1>1 DEF Without
<1>5. e = [d EXCEPT !.subs = U, !.stats = S, !.logs = L]
  BY DEF DeleteSubscription
<1> HIDE DEF U, S, L
<1>6. DOMAIN e = DOMAIN d /\ e.files = d.files /\ e.fileSeq = d.fileSeq /\ e.subSeq = d.subSeq
  BY <1>5 DEF Tables
<1>7. e.subs = U /\ e.stats = S /\ e.logs = L
  BY <1>5 DEF Tables
<1>8. KeepsFiles(d, e)
  BY <1>2, <1>3, <1>4, <1>6, <1>7 DEF Tables, KeepsFiles
<1>9. ForgetsSub(d, e, s)
  BY <1>3, <1>4, <1>7 DEF ForgetsSub
<1> QED BY <1>6, <1>7, <1>8, <1>9 DEF U

----------------------------------------------------------------------------
(* access counters                                                         *)

LEMMA PutCount ==
    ASSUME NEW f, f \in [DOMAIN f -> Nat], DOMAIN f \subseteq Nat \X Nat,
           NEW k \in Nat \X Nat, NEW g, g = Put(f, k, Count(f, k) + 1)
    PROVE  /\ g \in [DOMAIN g -> Nat] /\ DOMAIN g \subseteq Nat \X Nat
           /\ DOMAIN g = DOMAIN f \cup {k}
<1>1. Count(f, k) + 1 \in Nat
  BY DEF Count
<1>2. g = [x \in DOMAIN f \cup {k} |-> IF x = k THEN Count(f, k) + 1 ELSE f[x]]
  BY DEF Put
<1> QED BY <1>1, <1>2

(* The only new rows of file_subscription_stats and access_logs in e.      *)
AddsKeysOf(d, e, s, f) ==
    /\ \A k \in DOMAIN e.stats \ DOMAIN d.stats : k = <<f, s>> /\ f # NoFile
    /\ \A k \in DOMAIN e.logs \ DOMAIN d.logs : k = <<s, f>>

(* The rows of other subscriptions, and what a row says besides its        *)
(* counters, stay as they are.                                             *)
LEMMA RecordAccessEffect ==
    ASSUME NEW d, Tables(d), NEW s \in DOMAIN d.subs, NEW f \in DOMAIN d.files \cup {NoFile},
           NEW revision, NEW e, e = RecordAccess(d, s, f, revision),
           NEW one, one = IF CountsAsCurrent(d.subs[s], f, revision) THEN 1 ELSE 0
    PROVE  /\ Tables(e)
           /\ DOMAIN e.subs = DOMAIN d.subs
           /\ \A t \in DOMAIN d.subs \ {s} : e.subs[t] = d.subs[t]
           /\ e.subs[s].type = d.subs[s].type
           /\ e.subs[s].file = d.subs[s].file
           /\ e.subs[s].revision = d.subs[s].revision
           /\ e.subs[s].path = d.subs[s].path
           /\ e.subs[s].current = d.subs[s].current + one
           /\ DOMAIN e.files = DOMAIN d.files
           /\ \A g \in DOMAIN d.files : e.files[g].content = d.files[g].content
           /\ AddsKeysOf(d, e, s, f)
           /\ e.fileSeq = d.fileSeq /\ e.subSeq = d.subSeq
<1> DEFINE F == IF f = NoFile THEN d.files
                ELSE [d.files EXCEPT ![f].downloads = @ + 1]
           U == [d.subs EXCEPT ![s].fetches = @ + 1, ![s].current = @ + one]
           S == IF f = NoFile THEN d.stats
                ELSE Put(d.stats, <<f, s>>, Count(d.stats, <<f, s>>) + 1)
           L == Put(d.logs, <<s, f>>, Count(d.logs, <<s, f>>) + 1)
<1>1. /\ d.files \in [DOMAIN d.files -> FileRow] /\ DOMAIN d.files \subseteq Nat
      /\ d.subs \in [DOMAIN d.subs -> SubRow] /\ DOMAIN d.subs \subseteq Nat
      /\ d.stats \in [DOMAIN d.stats -> Nat] /\ DOMAIN d.stats \subseteq Nat \X Nat
      /\ d.logs \in [DOMAIN d.logs -> Nat] /\ DOMAIN d.logs \subseteq Nat \X Nat
      /\ d.fileSeq \in Nat /\ d.subSeq \in Nat
  BY DEF Tables
<1>2. one \in Nat /\ <<f, s>> \in Nat \X Nat /\ <<s, f>> \in Nat \X Nat
  BY <1>1 DEF NoFile
<1>3. e = [files |-> F, subs |-> U, stats |-> S, logs |-> L,
           fileSeq |-> d.fileSeq, subSeq |-> d.subSeq]
  BY Zenon DEF RecordAccess
<1>4. /\ F \in [DOMAIN F -> FileRow] /\ DOMAIN F = DOMAIN d.files
      /\ \A g \in DOMAIN d.files : F[g].content = d.files[g].content
  <2>1. CASE f = NoFile
    BY <1>1, <2>1
  <2>2. CASE f # NoFile
    <3> DEFINE row == [d.files[f] EXCEPT !.downloads = d.files[f].downloads + 1]
    <3>1. row \in FileRow
      <4>1. d.files[f] \in FileRow /\ d.files[f].downloads + 1 \in Nat
        BY <1>1, <2>2 DEF FileRow
      <4> QED BY <4>1 DEF FileRow
    <3>2. F = [d.files EXCEPT ![f] = row]
      BY <2>2
    <3>3. row.content = d.files[f].content
      BY <1>1, <2>2 DEF FileRow
    <3> HIDE DEF F, row
    <3> QED BY <1>1, <3>1, <3>2, <3>3
  <2> QED BY <2>1, <2>2
<1>5. /\ U \in [DOMAIN U -> SubRow] /\ DOMAIN U = DOMAIN d.subs
      /\ \A t \in DOMAIN d.subs \ {s} : U[t] = d.subs[t]
      /\ U[s].type = d.subs[s].type
      /\ U[s].path = d.subs[s].path
      /\ U[s].file = d.subs[s].file
      /\ U[s].revision = d.subs[s].revision
      /\ U[s].current = d.subs[s].current + one
  <2> DEFINE row == [d.subs[s] EXCEPT !.fetches = d.subs[s].fetches + 1,
                                      !.current = d.subs[s].current + one]
  <2>1. d.subs[s] \in SubRow
    BY <1>1
  <2>2. d.subs[s].fetches + 1 \in Nat /\ d.subs[s].current + one \in Nat
    BY <1>2, <2>1 DEF SubRow
  <2>3. row \in SubRow
    BY <2>1, <2>2 DEF SubRow
  <2>4. /\ row.type = d.subs[s].type /\ row.file = d.subs[s].file
        /\ row.path = d.subs[s].path
        /\ row.revision = d.subs[s].revision /\ row.current = d.subs[s].current + one
    BY <2>1 DEF SubRow
  <2>5. U = [d.subs EXCEPT ![s] = row]
    BY <1>1
  <2> HIDE DEF U, row
  <2> QED BY <1>1, <2>3, <2>4, <2>5
<1>6. /\ S \in [DOMAIN S -> Nat] /\ DOMAIN S \subseteq Nat \X Nat
      /\ \A k \in DOMAIN S \ DOMAIN d.stats : k = <<f, s>> /\ f # NoFile
  <2> DEFINE P == Put(d.stats, <<f, s>>, Count(d.stats, <<f, s>>) + 1)
  <2>1. /\ P \in [DOMAIN P -> Nat] /\ DOMAIN P \subseteq Nat \X Nat
        /\ DOMAIN P = DOMAIN d.stats \cup {<<f, s>>}
    BY <1>1, <1>2, PutCount
  <2>2. S = IF f = NoFile THEN d.stats ELSE P
    OBVIOUS
  <2> HIDE DEF S, P
  <2> QED BY <1>1, <2>1, <2>2
<1>7. /\ L \in [DOMAIN L -> Nat] /\ DOMAIN L \subseteq Nat \X Nat
      /\ DOMAIN L = DOMAIN d.logs \cup {<<s, f>>}
  BY <1>1, <1>2, PutCount
<1> HIDE DEF F, U, S, L
<1>8. /\ DOMAIN e = {"files", "subs", "stats", "logs", "fileSeq", "subSeq"}
      /\ e.files = F /\ e.subs = U /\ e.stats = S /\ e.logs = L
      /\ e.fileSeq = d.fileSeq /\ e.subSeq = d.subSeq
  BY <1>3
<1>9. Tables(e)
  BY <1>1, <1>4, <1>5, <1>6, <1>7, <1>8 DEF Tables
<1>10. AddsKeysOf(d, e, s, f)
  BY <1>6, <1>7, <1>8 DEF AddsKeysOf
<1> QED BY <1>4, <1>5, <1>8, <1>9, <1>10

(* e counts one more access of s, and of f.                                *)
CountsOneOf(d, e, s, f) ==
    /\ e.subs[s].fetches = d.subs[s].fetches + 1
    /\ \A g \in DOMAIN d.files :
          e.files[g].downloads = IF f # NoFile /\ g = f THEN d.files[g].downloads + 1
                                 ELSE d.files[g].downloads

LEMMA RecordAccessCounts ==
    ASSUME NEW d, Tables(d), NEW s \in DOMAIN d.subs, NEW f \in DOMAIN d.files \cup {NoFile},
           NEW revision, NEW e, e = RecordAccess(d, s, f, revision)
    PROVE  CountsOneOf(d, e, s, f)
<1> DEFINE one == IF CountsAsCurrent(d.subs[s], f, revision) THEN 1 ELSE 0
<1>1. d.subs \in [DOMAIN d.subs -> SubRow] /\ d.files \in [DOMAIN d.files -> FileRow]
  BY DEF Tables
<1>2. /\ e.subs = [d.subs EXCEPT ![s] =
              [@ EXCEPT !.fetches = d.subs[s].fetches + 1, !.current = d.subs[s].current + one]]
      /\ e.files = IF f = NoFile THEN d.files
                   ELSE [d.files EXCEPT ![f] = [@ EXCEPT !.downloads = d.files[f].downloads + 1]]
  BY <1>1 DEF RecordAccess
<1> HIDE DEF one
<1>3. e.subs[s].fetches = d.subs[s].fetches + 1
  BY <1>1, <1>2 DEF SubRow
<1>4. ASSUME NEW g \in DOMAIN d.files
      PROVE  e.files[g].downloads = IF f # NoFile /\ g = f THEN d.files[g].downloads + 1
                                    ELSE d.files[g].downloads
  <2>1. d.files[g] \in FileRow
    BY <1>1
  <2> QED BY <1>2, <2>1 DEF FileRow
<1> QED BY <1>3, <1>4 DEF CountsOneOf

----------------------------------------------------------------------------
(* How an administrator's statement may change a subscription's row: its   *)
(* type and its fetches stay, and it publishes another file, or none, only *)
(* under a later revision with the current counter at zero.                *)
Moves(a, b) ==
    /\ b.type = a.type
    /\ b.fetches = a.fetches
    /\ \/ b.file = a.file /\ b.revision = a.revision /\ b.current = a.current
       \/ /\ b.type = "file"
          /\ b.revision > a.revision
          /\ b.current = 0
          /\ b.file # a.file \/ b.file = NoFile

EnabledEmpty(row) == row.type = "file" /\ row.enabled /\ row.file = NoFile

(* The rows of U lead where those of d lead, but for none, one, or all of  *)
(* the subscriptions of one file, which lead to one file or to none.       *)
Redirects(d, U) ==
    \E S \in SUBSET DOMAIN d.subs, f \in DOMAIN d.files \cup {NoFile} :
        /\ \A s \in DOMAIN d.subs : U[s].file = IF s \in S THEN f ELSE d.subs[s].file
        /\ \/ S = {}
           \/ \E s \in DOMAIN d.subs : S = {s}
           \/ f # NoFile /\ \E old \in DOMAIN d.files : S = Uses(d, old)

(* The statements that rewrite rows of the subscriptions table; only those *)
(* of T may enable a subscription without a file.                          *)
Rewrites(d, e, T) ==
    /\ KeepsFiles(d, e)
    /\ e.stats = d.stats /\ e.logs = d.logs /\ e.subSeq = d.subSeq
    /\ DOMAIN e.subs = DOMAIN d.subs
    /\ \A s \in DOMAIN d.subs :
          /\ Moves(d.subs[s], e.subs[s])
          /\ e.subs[s].file \in DOMAIN d.files \cup {NoFile, d.subs[s].file}
          /\ s \notin T /\ EnabledEmpty(e.subs[s]) => EnabledEmpty(d.subs[s])
    /\ PathsUnique(d) => PathsUnique(e)
    /\ Redirects(d, e.subs)

(* Those that insert one.                                                  *)
Inserts(d, e) ==
    \E row \in SubRow :
        /\ e = InsertSub(d, row)
        /\ SubsAt(d, row.path) = {}
        /\ row.file \in DOMAIN d.files \cup {NoFile}
        /\ row.type = "text" => row.file = NoFile
        /\ row.current = 0
        /\ ~EnabledEmpty(row)

(* Every statement of an administrator's handler, while no more than max   *)
(* subscriptions have been inserted; and those that delete none.           *)
Alters(d, e, T, max) ==
    \/ e = d
    \/ \E c \in Contents : CanCreateFile(d, c) /\ e = CreateFile(d, c)
    \/ \E f \in DOMAIN d.files : CanDeleteFile(d, f) /\ e = DeleteFile(d, f)
    \/ Inserts(d, e) /\ d.subSeq < max
    \/ Rewrites(d, e, T)

Changes(d, e, T, max) ==
    \/ Alters(d, e, T, max)
    \/ \E s \in DOMAIN d.subs : e = DeleteSubscription(d, s)

LEMMA AlterDropsNoSub ==
    ASSUME NEW d, Tables(d), NEW e, NEW T, NEW max, Alters(d, e, T, max)
    PROVE  DOMAIN d.subs \subseteq DOMAIN e.subs
<1>1. ASSUME NEW c \in Contents, e = CreateFile(d, c) PROVE e.subs = d.subs
  BY <1>1 DEF CreateFile, Tables
<1>2. ASSUME NEW f, e = DeleteFile(d, f) PROVE e.subs = d.subs
  BY <1>2 DEF DeleteFile, Tables
<1>3. ASSUME Inserts(d, e) PROVE DOMAIN d.subs \subseteq DOMAIN e.subs
  <2>1. PICK row \in SubRow : e = InsertSub(d, row)
    BY <1>3 DEF Inserts
  <2> QED BY <2>1, InsertSubEffect DEF Put
<1> QED BY <1>1, <1>2, <1>3 DEF Alters, Rewrites

LEMMA SameRowMoves == ASSUME NEW a PROVE Moves(a, a)
BY DEF Moves

LEMMA SameFilesRedirect ==
    ASSUME NEW d, NEW U, \A s \in DOMAIN d.subs : U[s].file = d.subs[s].file
    PROVE  Redirects(d, U)
<1>1. \A s \in DOMAIN d.subs : U[s].file = IF s \in {} THEN NoFile ELSE d.subs[s].file
  OBVIOUS
<1>2. {} \in SUBSET DOMAIN d.subs /\ NoFile \in DOMAIN d.files \cup {NoFile}
  OBVIOUS
<1> QED BY <1>1, <1>2 DEF Redirects

LEMMA RewriteOne ==
    ASSUME NEW d, Tables(d), NEW s \in DOMAIN d.subs, NEW row \in SubRow, NEW T,
           Moves(d.subs[s], row),
           row.file \in DOMAIN d.files \cup {NoFile, d.subs[s].file},
           row.path = d.subs[s].path \/ PathFree(d, row.path, s),
           s \notin T /\ EnabledEmpty(row) => EnabledEmpty(d.subs[s])
    PROVE  Rewrites(d, SetSub(d, s, row), T)
<1> DEFINE e == SetSub(d, s, row)
<1>1. /\ Tables(e) /\ e.subs = [d.subs EXCEPT ![s] = row]
      /\ e.files = d.files /\ e.stats = d.stats /\ e.logs = d.logs
      /\ e.fileSeq = d.fileSeq /\ e.subSeq = d.subSeq
  BY SetSubEffect
<1> HIDE DEF e
<1>2. d.subs \in [DOMAIN d.subs -> SubRow]
  BY DEF Tables
<1>3. /\ DOMAIN e.subs = DOMAIN d.subs /\ e.subs[s] = row
      /\ \A t \in DOMAIN d.subs \ {s} : e.subs[t] = d.subs[t]
  BY <1>1, <1>2
<1>4. ASSUME NEW t \in DOMAIN d.subs
      PROVE  /\ Moves(d.subs[t], e.subs[t])
             /\ e.subs[t].file \in DOMAIN d.files \cup {NoFile, d.subs[t].file}
             /\ t \notin T /\ EnabledEmpty(e.subs[t]) => EnabledEmpty(d.subs[t])
  <2>1. CASE t = s
    BY <1>3, <2>1
  <2>2. CASE t # s
    BY <1>3, <2>2, SameRowMoves
  <2> QED BY <2>1, <2>2
<1>5. ASSUME PathsUnique(d) PROVE PathsUnique(e)
  <2>1. \A t \in DOMAIN d.subs \ {s} : d.subs[t].path # row.path
    BY <1>5 DEF PathsUnique, PathFree, SubsAt
  <2> QED BY <1>3, <1>5, <2>1 DEF PathsUnique
<1>6. Redirects(d, e.subs)
  <2>1. CASE row.file = d.subs[s].file
    <3>1. \A t \in DOMAIN d.subs : e.subs[t].file = d.subs[t].file
      BY <1>3, <2>1
    <3> QED BY <3>1, SameFilesRedirect
  <2>2. CASE row.file # d.subs[s].file
    <3>1. row.file \in DOMAIN d.files \cup {NoFile}
      BY <2>2
    <3>2. \A t \in DOMAIN d.subs : e.subs[t].file = IF t \in {s} THEN row.file ELSE d.subs[t].file
      BY <1>3
    <3>3. {s} \in SUBSET DOMAIN d.subs
      OBVIOUS
    <3> QED BY <3>1, <3>2, <3>3 DEF Redirects
  <2> QED BY <2>1, <2>2
<1>7. Rewrites(d, e, T)
  BY <1>1, <1>3, <1>4, <1>5, <1>6 DEF Rewrites, KeepsFiles
<1> QED BY <1>7 DEF e

(* The rows of all subscriptions at once, their paths staying.             *)
LEMMA RewriteAll ==
    ASSUME NEW d, Tables(d), NEW S, DOMAIN S = DOMAIN d.subs,
           \A s \in DOMAIN d.subs :
              /\ S[s] \in SubRow
              /\ S[s].path = d.subs[s].path
              /\ Moves(d.subs[s], S[s])
              /\ S[s].file \in DOMAIN d.files \cup {NoFile, d.subs[s].file}
              /\ EnabledEmpty(S[s]) => EnabledEmpty(d.subs[s]),
           S = [s \in DOMAIN S |-> S[s]],
           Redirects(d, S)
    PROVE  Rewrites(d, WithSubs(d, S), {})
<1> DEFINE e == WithSubs(d, S)
<1>1. S \in [DOMAIN S -> SubRow] /\ DOMAIN S \subseteq Nat
  BY DEF Tables
<1>2. /\ Tables(e) /\ e.subs = S
      /\ e.files = d.files /\ e.stats = d.stats /\ e.logs = d.logs
      /\ e.fileSeq = d.fileSeq /\ e.subSeq = d.subSeq
  BY <1>1, WithSubsEffect
<1> HIDE DEF e
<1>3. PathsUnique(d) => PathsUnique(e)
  BY <1>2 DEF PathsUnique
<1>4. Rewrites(d, e, {})
  BY <1>2, <1>3 DEF Rewrites, KeepsFiles
<1> QED BY <1>4 DEF e

LEMMA RepointedMoves ==
    ASSUME NEW row \in SubRow, row.type = "file", NEW f \in Nat, f # row.file
    PROVE  /\ Repointed(row, f) \in SubRow /\ Moves(row, Repointed(row, f))
           /\ Repointed(row, f).file = f /\ Repointed(row, f).path = row.path
<1> DEFINE new == Repointed(row, f)
<1>1. new = [row EXCEPT !.file = f, !.current = 0, !.revision = row.revision + 1]
  BY DEF Repointed
<1> HIDE DEF new
<1>2. row.revision \in Nat
  BY DEF SubRow
<1>3. /\ new.type = row.type /\ new.file = f /\ new.path = row.path
      /\ new.revision = row.revision + 1 /\ new.current = 0
      /\ new.fetches = row.fetches
  BY <1>1 DEF SubRow
<1>4. Moves(row, new)
  BY <1>2, <1>3 DEF Moves
<1>5. new \in SubRow
  BY RepointedRow DEF new
<1> QED BY <1>3, <1>4, <1>5 DEF new

----------------------------------------------------------------------------
(* Each statement about subscriptions is one or the other.                 *)

LEMMA CreateSubscriptionInserts ==
    ASSUME NEW d, NEW p \in Paths, NEW t \in Texts, NEW e \in BOOLEAN,
           CanCreateSubscription(d, p)
    PROVE  Inserts(d, CreateSubscription(d, p, t, e))
<1> DEFINE row == NewSub(p, "text", t, NoFile, e)
<1>1. /\ row \in SubRow /\ row.path = p /\ row.file = NoFile /\ row.current = 0
      /\ row.type = "text"
  BY DEF NewSub, SubRow, NoFile
<1>2. CreateSubscription(d, p, t, e) = InsertSub(d, row)
  BY DEF CreateSubscription
<1> HIDE DEF row
<1> QED BY <1>1, <1>2 DEF Inserts, CanCreateSubscription, EnabledEmpty

LEMMA CreateFileSubscriptionInserts ==
    ASSUME NEW d, NEW p \in Paths, NEW f \in Nat, NEW e \in BOOLEAN,
           CanCreateFileSubscription(d, p, f), NoFile \notin DOMAIN d.files
    PROVE  Inserts(d, CreateFileSubscription(d, p, f, e))
<1> DEFINE row == NewSub(p, "file", NoText, f, e)
<1>1. /\ row \in SubRow /\ row.path = p /\ row.file = f /\ row.current = 0
      /\ row.type = "file"
  BY DEF NewSub, SubRow
<1>2. CreateFileSubscription(d, p, f, e) = InsertSub(d, row)
  BY DEF CreateFileSubscription
<1> HIDE DEF row
<1> QED BY <1>1, <1>2 DEF Inserts, CanCreateFileSubscription, EnabledEmpty

LEMMA UpdateSubscriptionRewrites ==
    ASSUME NEW d, Tables(d), NEW s, NEW p \in Paths, NEW t \in Texts, NEW e \in BOOLEAN,
           CanUpdateSubscription(d, s, p)
    PROVE  Rewrites(d, UpdateSubscription(d, s, p, t, e), {})
<1> DEFINE row == [d.subs[s] EXCEPT !.path = p, !.text = t, !.enabled = e]
<1>1. s \in DOMAIN d.subs /\ d.subs[s].type = "text" /\ PathFree(d, p, s)
  BY DEF CanUpdateSubscription, IsTextSub
<1>2. d.subs[s] \in SubRow
  BY <1>1, SubRowOf
<1>3. /\ row \in SubRow /\ row.path = p /\ row.type = "text"
      /\ row.file = d.subs[s].file /\ row.revision = d.subs[s].revision
      /\ row.current = d.subs[s].current /\ row.fetches = d.subs[s].fetches
  BY <1>1, <1>2 DEF SubRow
<1>4. UpdateSubscription(d, s, p, t, e) = SetSub(d, s, row)
  BY DEF UpdateSubscription
<1> HIDE DEF row
<1> QED BY <1>1, <1>3, <1>4, RewriteOne DEF Moves, EnabledEmpty

LEMMA UpdateFileSubscriptionRewrites ==
    ASSUME NEW d, Tables(d), NEW s, NEW p \in Paths, NEW e \in BOOLEAN,
           CanUpdateFileSubscription(d, s, p, e)
    PROVE  Rewrites(d, UpdateFileSubscription(d, s, p, e), {})
<1> DEFINE row == [d.subs[s] EXCEPT !.path = p, !.enabled = e]
<1>1. /\ s \in DOMAIN d.subs /\ PathFree(d, p, s)
      /\ d.subs[s].file # NoFile \/ ~e
  BY DEF CanUpdateFileSubscription, IsFileSub
<1>2. d.subs[s] \in SubRow
  BY <1>1, SubRowOf
<1>3. /\ row \in SubRow /\ row.path = p /\ row.type = d.subs[s].type
      /\ row.file = d.subs[s].file /\ row.revision = d.subs[s].revision
      /\ row.current = d.subs[s].current /\ row.enabled = e
      /\ row.fetches = d.subs[s].fetches
  BY <1>2 DEF SubRow
<1>4. UpdateFileSubscription(d, s, p, e) = SetSub(d, s, row)
  BY DEF UpdateFileSubscription
<1> HIDE DEF row
<1> QED BY <1>1, <1>3, <1>4, RewriteOne DEF Moves, EnabledEmpty

LEMMA SetSubscriptionEnabledRewrites ==
    ASSUME NEW d, Tables(d), NEW s \in DOMAIN d.subs, NEW e \in BOOLEAN, NEW T, s \in T
    PROVE  Rewrites(d, SetSubscriptionEnabled(d, s, e), T)
<1> DEFINE row == [d.subs[s] EXCEPT !.enabled = e]
<1>1. d.subs[s] \in SubRow
  BY SubRowOf
<1>2. /\ row \in SubRow /\ row.path = d.subs[s].path /\ row.type = d.subs[s].type
      /\ row.file = d.subs[s].file /\ row.revision = d.subs[s].revision
      /\ row.current = d.subs[s].current /\ row.fetches = d.subs[s].fetches
  BY <1>1 DEF SubRow
<1>3. SetSubscriptionEnabled(d, s, e) = SetSub(d, s, row)
  BY DEF SetSubscriptionEnabled
<1> HIDE DEF row
<1> QED BY <1>2, <1>3, RewriteOne DEF Moves

LEMMA ReplaceSubscriptionFileRewrites ==
    ASSUME NEW d, Tables(d), NEW s, NEW f \in Nat, CanReplaceSubscriptionFile(d, s, f),
           NoFile \notin DOMAIN d.files
    PROVE  Rewrites(d, ReplaceSubscriptionFile(d, s, f), {})
<1> DEFINE row == IF d.subs[s].file = f THEN d.subs[s] ELSE Repointed(d.subs[s], f)
<1>1. s \in DOMAIN d.subs /\ d.subs[s].type = "file" /\ f \in DOMAIN d.files
  BY DEF CanReplaceSubscriptionFile, IsFileSub
<1>2. d.subs[s] \in SubRow
  BY <1>1, SubRowOf
<1>3. /\ row \in SubRow /\ row.path = d.subs[s].path /\ row.file = f
      /\ Moves(d.subs[s], row)
  BY <1>1, <1>2, RepointedMoves, SameRowMoves
<1>4. ReplaceSubscriptionFile(d, s, f) = SetSub(d, s, row)
  BY DEF ReplaceSubscriptionFile
<1>5. ~EnabledEmpty(row)
  BY <1>1, <1>3 DEF EnabledEmpty
<1> HIDE DEF row
<1> QED BY <1>1, <1>3, <1>4, <1>5, RewriteOne

LEMMA DetachSubscriptionFileRewrites ==
    ASSUME NEW d, Tables(d), NEW s, CanDetachSubscriptionFile(d, s)
    PROVE  Rewrites(d, DetachSubscriptionFile(d, s), {})
<1> DEFINE row == [d.subs[s] EXCEPT !.file = NoFile, !.enabled = FALSE,
                                    !.current = 0, !.revision = @ + 1]
<1>1. s \in DOMAIN d.subs /\ d.subs[s].type = "file"
  BY DEF CanDetachSubscriptionFile, IsFileSub
<1>2. d.subs[s] \in SubRow /\ d.subs[s].revision \in Nat /\ d.subs[s].revision + 1 \in Nat
  BY <1>1, SubRowOf DEF SubRow
<1>3. /\ row.path = d.subs[s].path /\ row.type = "file"
      /\ row.file = NoFile /\ row.revision = d.subs[s].revision + 1
      /\ row.current = 0 /\ row.enabled = FALSE
      /\ row.fetches = d.subs[s].fetches
  BY <1>1, <1>2 DEF SubRow
<1>6. row \in SubRow
  BY <1>2 DEF SubRow, NoFile
<1>4. DetachSubscriptionFile(d, s) = SetSub(d, s, row)
  BY DEF DetachSubscriptionFile
<1> HIDE DEF row
<1>5. Moves(d.subs[s], row) /\ ~EnabledEmpty(row)
  BY <1>1, <1>2, <1>3 DEF Moves, EnabledEmpty
<1> QED BY <1>1, <1>3, <1>4, <1>5, <1>6, RewriteOne

LEMMA ReplaceFileAssociationsRewrites ==
    ASSUME NEW d, Tables(d), TextHasNoFile(d), NoFile \notin DOMAIN d.files,
           NEW old, NEW new \in Nat, CanReplaceFileAssociations(d, old, new)
    PROVE  Rewrites(d, ReplaceFileAssociations(d, old, new), {})
<1> DEFINE S == [s \in DOMAIN d.subs |->
                    IF d.subs[s].file = old THEN Repointed(d.subs[s], new) ELSE d.subs[s]]
<1>1. {old, new} \subseteq DOMAIN d.files
  BY DEF CanReplaceFileAssociations
<1>2. CASE old = new
  <2>1. ReplaceFileAssociations(d, old, new) = d
    BY <1>2 DEF ReplaceFileAssociations
  <2>2. Redirects(d, d.subs)
    BY SameFilesRedirect
  <2> QED BY <2>1, <2>2, SameRowMoves DEF Rewrites, KeepsFiles
<1>3. CASE old # new
  <2>1. ASSUME NEW s \in DOMAIN d.subs
        PROVE  /\ S[s] \in SubRow
               /\ S[s].path = d.subs[s].path
               /\ Moves(d.subs[s], S[s])
               /\ S[s].file \in DOMAIN d.files \cup {NoFile, d.subs[s].file}
               /\ EnabledEmpty(S[s]) => EnabledEmpty(d.subs[s])
    <3>1. d.subs[s] \in SubRow
      BY SubRowOf
    <3>2. CASE d.subs[s].file = old
      <4>1. d.subs[s].type = "file"
        BY <1>1, <3>1, <3>2 DEF TextHasNoFile, SubRow
      <4>2. S[s] = Repointed(d.subs[s], new)
        BY <3>2
      <4> QED BY <1>1, <1>3, <3>1, <3>2, <4>1, <4>2, RepointedMoves DEF EnabledEmpty
    <3>3. CASE d.subs[s].file # old
      BY <3>1, <3>3, SameRowMoves
    <3> QED BY <3>2, <3>3
  <2>2. ReplaceFileAssociations(d, old, new) = WithSubs(d, S)
    BY <1>3 DEF ReplaceFileAssociations
  <2>3. DOMAIN S = DOMAIN d.subs /\ S = [s \in DOMAIN S |-> S[s]]
    OBVIOUS
  <2>4. \A s \in DOMAIN d.subs :
            S[s].file = IF s \in Uses(d, old) THEN new ELSE d.subs[s].file
    <3>1. ASSUME NEW s \in DOMAIN d.subs
          PROVE  Repointed(d.subs[s], new).file = new
      BY SubRowOf DEF Repointed, SubRow
    <3> QED BY <3>1 DEF Uses
  <2> HIDE DEF S
  <2>5. Redirects(d, S)
    <3>1. Uses(d, old) \in SUBSET DOMAIN d.subs
      BY DEF Uses
    <3> QED BY <1>1, <2>4, <3>1 DEF Redirects
  <2> QED BY <2>1, <2>2, <2>3, <2>5, RewriteAll
<1> QED BY <1>2, <1>3

LEMMA BatchUpdateContentRewrites ==
    ASSUME NEW d, Tables(d), NEW B, NEW t \in Texts
    PROVE  Rewrites(d, BatchUpdateContent(d, B, t), {})
<1> DEFINE S == [s \in DOMAIN d.subs |->
                    IF s \in B /\ d.subs[s].type = "text"
                    THEN [d.subs[s] EXCEPT !.text = t] ELSE d.subs[s]]
<1>1. ASSUME NEW s \in DOMAIN d.subs
      PROVE  /\ S[s] \in SubRow
             /\ S[s].path = d.subs[s].path
             /\ Moves(d.subs[s], S[s])
             /\ S[s].file \in DOMAIN d.files \cup {NoFile, d.subs[s].file}
             /\ EnabledEmpty(S[s]) => EnabledEmpty(d.subs[s])
             /\ S[s].file = d.subs[s].file
  <2> DEFINE row == [d.subs[s] EXCEPT !.text = t]
  <2>1. d.subs[s] \in SubRow
    BY SubRowOf
  <2>2. /\ row \in SubRow /\ row.path = d.subs[s].path /\ row.type = d.subs[s].type
        /\ row.file = d.subs[s].file /\ row.revision = d.subs[s].revision
        /\ row.current = d.subs[s].current /\ row.enabled = d.subs[s].enabled
        /\ row.fetches = d.subs[s].fetches
    BY <2>1 DEF SubRow
  <2>3. S[s] = row \/ S[s] = d.subs[s]
    OBVIOUS
  <2> HIDE DEF row, S
  <2> QED BY <2>1, <2>2, <2>3, SameRowMoves DEF Moves, EnabledEmpty
<1>2. BatchUpdateContent(d, B, t) = WithSubs(d, S)
  BY DEF BatchUpdateContent
<1>3. DOMAIN S = DOMAIN d.subs /\ S = [s \in DOMAIN S |-> S[s]]
  OBVIOUS
<1> HIDE DEF S
<1>4. Redirects(d, S)
  BY <1>1, SameFilesRedirect
<1> QED BY <1>1, <1>2, <1>3, <1>4, RewriteAll

----------------------------------------------------------------------------
(* What every statement keeps, and how it lets subscriptions develop: an   *)
(* id names the subscription it named before or a new one.                 *)

Evolves(d, e) ==
    /\ d.subSeq \in Nat /\ e.subSeq \in Nat /\ d.subSeq <= e.subSeq
    /\ \A s \in DOMAIN e.subs :
          \/ s \in DOMAIN d.subs /\ Moves(d.subs[s], e.subs[s])
          \/ s \in d.subSeq + 1 .. e.subSeq /\ e.subs[s].current = 0

EmptiesOnly(d, e, T) ==
    \A s \in DOMAIN e.subs \ T :
        EnabledEmpty(e.subs[s]) => s \in DOMAIN d.subs /\ EnabledEmpty(d.subs[s])

Keeps(d, e, T) == Tables(e) /\ Consistent(e) /\ Evolves(d, e) /\ EmptiesOnly(d, e, T)

LEMMA SameSubsEvolve ==
    ASSUME NEW d, Tables(d), NEW e, e.subs = d.subs, e.subSeq = d.subSeq, NEW T
    PROVE  Evolves(d, e) /\ EmptiesOnly(d, e, T)
<1>1. d.subSeq \in Nat
  BY DEF Tables
<1> QED BY <1>1, SameRowMoves DEF Evolves, EmptiesOnly

LEMMA CreateFileKeeps ==
    ASSUME NEW d, Tables(d), Consistent(d), NEW c \in Contents, CanCreateFile(d, c),
           NEW e, e = CreateFile(d, c), NEW T
    PROVE  Keeps(d, e, T)
<1> DEFINE n == NextFileId(d)
<1>1. /\ Tables(e)
      /\ e.files = Put(d.files, n, [content |-> c, downloads |-> 0])
      /\ e.subs = d.subs /\ e.stats = d.stats /\ e.logs = d.logs
      /\ e.fileSeq = d.fileSeq + 1 /\ e.subSeq = d.subSeq
  BY CreateFileEffect
<1>2. /\ n = d.fileSeq + 1 /\ d.fileSeq \in Nat
      /\ DOMAIN d.files \subseteq 1 .. d.fileSeq /\ DOMAIN d.subs \subseteq 1 .. d.subSeq
  BY DEF NextFileId, Tables, Consistent, IdsBelowSequence
<1> HIDE DEF n
<1>3. DOMAIN e.files = DOMAIN d.files \cup {n} /\ n \notin DOMAIN d.files
  BY <1>1, <1>2 DEF Put
<1>4. e.files[n].content = c /\ \A f \in DOMAIN d.files : e.files[f] = d.files[f]
  BY <1>1, <1>3 DEF Put
<1>5. IdsBelowSequence(e)
  BY <1>1, <1>2, <1>3 DEF IdsBelowSequence
<1>6. ContentsUnique(e)
  <2>1. \A f \in DOMAIN d.files : d.files[f].content # c
    BY DEF CanCreateFile, FilesWith
  <2> QED BY <1>3, <1>4, <2>1 DEF Consistent, ContentsUnique
<1>7. PathsUnique(e) /\ TextHasNoFile(e)
  BY <1>1 DEF Consistent, PathsUnique, TextHasNoFile
<1>8. ReferencesResolve(e)
  BY <1>1, <1>3 DEF Consistent, ReferencesResolve
<1> QED BY <1>1, <1>5, <1>6, <1>7, <1>8, SameSubsEvolve DEF Keeps, Consistent

LEMMA DeleteFileKeeps ==
    ASSUME NEW d, Tables(d), Consistent(d), NEW f \in DOMAIN d.files, CanDeleteFile(d, f),
           NEW e, e = DeleteFile(d, f), NEW T
    PROVE  Keeps(d, e, T)
<1>1. /\ Tables(e)
      /\ e.files = Without(d.files, {f})
      /\ ForgetsFile(d, e, f)
      /\ e.logs = Unfiled(d.logs, f)
      /\ e.subs = d.subs /\ e.fileSeq = d.fileSeq /\ e.subSeq = d.subSeq
  BY DeleteFileEffect
<1>2. /\ DOMAIN e.files = DOMAIN d.files \ {f}
      /\ \A g \in DOMAIN e.files : e.files[g] = d.files[g]
  BY <1>1 DEF Without
<1>3. /\ DOMAIN d.files \subseteq 1 .. d.fileSeq /\ DOMAIN d.subs \subseteq 1 .. d.subSeq
      /\ d.fileSeq \in Nat
  BY DEF Tables, Consistent, IdsBelowSequence
<1>4. f # NoFile
  BY <1>3 DEF NoFile
<1>5. IdsBelowSequence(e)
  BY <1>1, <1>2, <1>3 DEF IdsBelowSequence
<1>6. ContentsUnique(e)
  BY <1>2 DEF Consistent, ContentsUnique
<1>7. PathsUnique(e) /\ TextHasNoFile(e)
  BY <1>1 DEF Consistent, PathsUnique, TextHasNoFile
<1>8. ASSUME NEW s \in DOMAIN e.subs
      PROVE  e.subs[s].file \in DOMAIN e.files \cup {NoFile}
  BY <1>1, <1>2 DEF Consistent, ReferencesResolve, CanDeleteFile, Uses
<1>9. ASSUME NEW k \in DOMAIN e.stats
      PROVE  k[1] \in DOMAIN e.files /\ k[2] \in DOMAIN e.subs
  <2>1. k \in DOMAIN d.stats /\ k[1] # f
    BY <1>1 DEF ForgetsFile
  <2> QED BY <1>1, <1>2, <2>1 DEF Consistent, ReferencesResolve
<1>10. ASSUME NEW k \in DOMAIN e.logs
       PROVE  k[1] \in DOMAIN e.subs /\ k[2] \in DOMAIN e.files \cup {NoFile}
  <2>1. d.logs \in [DOMAIN d.logs -> Nat] /\ DOMAIN d.logs \subseteq Nat \X Nat
    BY DEF Tables
  <2>2. PICK j \in DOMAIN d.logs :
            k[1] = j[1] /\ (k[2] = NoFile \/ k[2] = j[2]) /\ (f # NoFile => k[2] # f)
    BY <1>1, <2>1, UnfiledFunction
  <2>3. j[1] \in DOMAIN d.subs /\ j[2] \in DOMAIN d.files \cup {NoFile}
    BY DEF Consistent, ReferencesResolve
  <2> QED BY <1>1, <1>2, <1>4, <2>2, <2>3
<1>11. ReferencesResolve(e)
  BY <1>8, <1>9, <1>10 DEF ReferencesResolve
<1> QED BY <1>1, <1>5, <1>6, <1>7, <1>11, SameSubsEvolve DEF Keeps, Consistent

LEMMA InsertKeeps ==
    ASSUME NEW d, Tables(d), Consistent(d), NEW e, Inserts(d, e), NEW T
    PROVE  Keeps(d, e, T)
<1>1. PICK row \in SubRow :
          /\ e = InsertSub(d, row)
          /\ SubsAt(d, row.path) = {}
          /\ row.file \in DOMAIN d.files \cup {NoFile}
          /\ row.type = "text" => row.file = NoFile
          /\ row.current = 0
          /\ ~EnabledEmpty(row)
  BY DEF Inserts
<1> DEFINE n == NextSubId(d)
<1>2. /\ Tables(e) /\ e.subs = Put(d.subs, n, row)
      /\ e.files = d.files /\ e.stats = d.stats /\ e.logs = d.logs
      /\ e.fileSeq = d.fileSeq /\ e.subSeq = d.subSeq + 1
  BY <1>1, InsertSubEffect
<1>3. /\ n = d.subSeq + 1 /\ d.subSeq \in Nat
      /\ DOMAIN d.files \subseteq 1 .. d.fileSeq /\ DOMAIN d.subs \subseteq 1 .. d.subSeq
  BY DEF NextSubId, Tables, Consistent, IdsBelowSequence
<1> HIDE DEF n
<1>4. DOMAIN e.subs = DOMAIN d.subs \cup {n} /\ n \notin DOMAIN d.subs
  BY <1>2, <1>3 DEF Put
<1>5. e.subs[n] = row /\ \A s \in DOMAIN d.subs : e.subs[s] = d.subs[s]
  BY <1>2, <1>4 DEF Put
<1>6. IdsBelowSequence(e)
  BY <1>2, <1>3, <1>4 DEF IdsBelowSequence
<1>7. ContentsUnique(e)
  BY <1>2 DEF Consistent, ContentsUnique
<1>8. PathsUnique(e)
  <2>1. \A s \in DOMAIN d.subs : d.subs[s].path # row.path
    BY <1>1 DEF SubsAt
  <2> QED BY <1>4, <1>5, <2>1 DEF Consistent, PathsUnique
<1>9. ReferencesResolve(e)
  BY <1>1, <1>2, <1>4, <1>5 DEF Consistent, ReferencesResolve
<1>10. TextHasNoFile(e)
  BY <1>1, <1>4, <1>5 DEF Consistent, TextHasNoFile
<1>11. Evolves(d, e)
  BY <1>1, <1>2, <1>3, <1>4, <1>5, SameRowMoves DEF Evolves
<1>12. EmptiesOnly(d, e, T)
  BY <1>1, <1>4, <1>5 DEF EmptiesOnly
<1> QED BY <1>2, <1>6, <1>7, <1>8, <1>9, <1>10, <1>11, <1>12 DEF Keeps, Consistent

LEMMA RewriteKeeps ==
    ASSUME NEW d, Tables(d), Consistent(d), NEW e, NEW T, Rewrites(d, e, T)
    PROVE  Keeps(d, e, T)
<1>1. /\ Tables(e) /\ e.files = d.files /\ e.stats = d.stats /\ e.logs = d.logs
      /\ e.fileSeq = d.fileSeq /\ e.subSeq = d.subSeq /\ d.subSeq \in Nat
      /\ DOMAIN e.subs = DOMAIN d.subs
  BY DEF Rewrites, KeepsFiles, Tables
<1>2. IdsBelowSequence(e) /\ ContentsUnique(e) /\ PathsUnique(e)
  BY <1>1 DEF Rewrites, Consistent, IdsBelowSequence, ContentsUnique
<1>3. ReferencesResolve(e)
  BY <1>1 DEF Rewrites, Consistent, ReferencesResolve
<1>4. TextHasNoFile(e)
  <2>1. ASSUME NEW s \in DOMAIN d.subs, e.subs[s].type = "text"
        PROVE  e.subs[s].file = NoFile /\ e.subs[s].current = 0
    BY <2>1 DEF Rewrites, Moves, Consistent, TextHasNoFile
  <2> QED BY <1>1, <2>1 DEF TextHasNoFile
<1>5. Evolves(d, e) /\ EmptiesOnly(d, e, T)
  BY <1>1 DEF Rewrites, Evolves, EmptiesOnly
<1> QED BY <1>1, <1>2, <1>3, <1>4, <1>5 DEF Keeps, Consistent

LEMMA DeleteSubscriptionKeeps ==
    ASSUME NEW d, Tables(d), Consistent(d), NEW s \in DOMAIN d.subs,
           NEW e, e = DeleteSubscription(d, s), NEW T
    PROVE  Keeps(d, e, T)
<1>1. /\ KeepsFiles(d, e)
      /\ e.subs = Without(d.subs, {s})
      /\ ForgetsSub(d, e, s)
      /\ e.subSeq = d.subSeq
  BY DeleteSubscriptionEffect
<1>2. /\ Tables(e) /\ e.files = d.files /\ e.fileSeq = d.fileSeq /\ e.subSeq = d.subSeq
      /\ d.subSeq \in Nat
      /\ DOMAIN e.subs = DOMAIN d.subs \ {s}
      /\ \A t \in DOMAIN e.subs : e.subs[t] = d.subs[t]
  BY <1>1 DEF Without, KeepsFiles, Tables
<1>3. IdsBelowSequence(e) /\ ContentsUnique(e) /\ PathsUnique(e) /\ TextHasNoFile(e)
  BY <1>2 DEF Consistent, IdsBelowSequence, ContentsUnique, PathsUnique, TextHasNoFile
<1>4. ASSUME NEW k \in DOMAIN e.stats
      PROVE  k[1] \in DOMAIN e.files /\ k[2] \in DOMAIN e.subs
  <2>1. k \in DOMAIN d.stats /\ k[2] # s
    BY <1>1 DEF ForgetsSub
  <2> QED BY <1>1, <1>2, <2>1 DEF Consistent, ReferencesResolve
<1>5. ASSUME NEW k \in DOMAIN e.logs
      PROVE  k[1] \in DOMAIN e.subs /\ k[2] \in DOMAIN e.files \cup {NoFile}
  <2>1. k \in DOMAIN d.logs /\ k[1] # s
    BY <1>1 DEF ForgetsSub
  <2> QED BY <1>1, <1>2, <2>1 DEF Consistent, ReferencesResolve
<1>6. ReferencesResolve(e)
  BY <1>2, <1>4, <1>5 DEF Consistent, ReferencesResolve
<1>7. Evolves(d, e) /\ EmptiesOnly(d, e, T)
  BY <1>2, SameRowMoves DEF Evolves, EmptiesOnly
<1> QED BY <1>2, <1>3, <1>6, <1>7 DEF Keeps, Consistent

LEMMA ChangeKeeps ==
    ASSUME NEW d, Tables(d), Consistent(d), NEW e, NEW T, NEW max, Changes(d, e, T, max)
    PROVE  Keeps(d, e, T)
<1>1. CASE e = d
  BY <1>1, SameSubsEvolve DEF Keeps
<1> QED BY <1>1, CreateFileKeeps, DeleteFileKeeps, InsertKeeps, RewriteKeeps,
           DeleteSubscriptionKeeps DEF Changes, Alters

(* Ids handed out by d mean in e what they meant in d, or nothing.         *)
Succeeds(d, e) ==
    /\ d.fileSeq \in Nat /\ e.fileSeq \in Nat /\ d.fileSeq <= e.fileSeq
    /\ \A f \in 0 .. d.fileSeq : f \in DOMAIN e.files =>
          f \in DOMAIN d.files /\ e.files[f].content = d.files[f].content

LEMMA ChangeSucceeds ==
    ASSUME NEW d, Tables(d), NEW e, NEW T, NEW max, Changes(d, e, T, max)
    PROVE  Succeeds(d, e)
<1>1. d.fileSeq \in Nat
  BY DEF Tables
<1>2. ASSUME e.files = d.files, e.fileSeq = d.fileSeq
      PROVE  Succeeds(d, e)
  BY <1>1, <1>2 DEF Succeeds
<1>3. ASSUME NEW c \in Contents, e = CreateFile(d, c)
      PROVE  Succeeds(d, e)
  <2>1. /\ e.files = Put(d.files, NextFileId(d), [content |-> c, downloads |-> 0])
        /\ e.fileSeq = d.fileSeq + 1
    BY <1>3, CreateFileEffect
  <2>2. ASSUME NEW f \in 0 .. d.fileSeq, f \in DOMAIN e.files
        PROVE  f \in DOMAIN d.files /\ e.files[f] = d.files[f]
    BY <1>1, <2>1, <2>2 DEF Put, NextFileId
  <2> QED BY <1>1, <2>1, <2>2 DEF Succeeds
<1>4. ASSUME NEW f \in DOMAIN d.files, e = DeleteFile(d, f)
      PROVE  Succeeds(d, e)
  <2>1. e.files = Without(d.files, {f}) /\ e.fileSeq = d.fileSeq
    BY <1>4, DeleteFileEffect
  <2>2. \A g \in DOMAIN e.files : g \in DOMAIN d.files /\ e.files[g] = d.files[g]
    BY <2>1 DEF Without
  <2> QED BY <1>1, <2>1, <2>2 DEF Succeeds
<1>5. ASSUME Inserts(d, e)
      PROVE  Succeeds(d, e)
  BY <1>2, <1>5, InsertSubEffect DEF Inserts
<1>6. ASSUME NEW s \in DOMAIN d.subs, e = DeleteSubscription(d, s)
      PROVE  Succeeds(d, e)
  BY <1>2, <1>6, DeleteSubscriptionEffect DEF KeepsFiles
<1>7. Rewrites(d, e, T) => Succeeds(d, e)
  BY <1>2 DEF Rewrites, KeepsFiles
<1> QED BY <1>2, <1>3, <1>4, <1>5, <1>6, <1>7 DEF Changes, Alters

----------------------------------------------------------------------------
(* The statements of the public side touch counters and logs only.         *)

Tallies(d, e) ==
    /\ Tables(e)
    /\ Consistent(d) => Consistent(e)
    /\ e.fileSeq = d.fileSeq /\ e.subSeq = d.subSeq
    /\ DOMAIN e.files = DOMAIN d.files /\ DOMAIN e.subs = DOMAIN d.subs
    /\ \A f \in DOMAIN d.files : e.files[f].content = d.files[f].content
    /\ \A s \in DOMAIN d.subs :
          /\ e.subs[s].type = d.subs[s].type
          /\ e.subs[s].file = d.subs[s].file
          /\ e.subs[s].revision = d.subs[s].revision

LEMMA RecordAccessTallies ==
    ASSUME NEW d, Tables(d), NEW s, NEW f, CanRecordAccess(d, s, f), NEW revision,
           NEW e, e = RecordAccess(d, s, f, revision)
    PROVE  Tallies(d, e)
<1> DEFINE one == IF CountsAsCurrent(d.subs[s], f, revision) THEN 1 ELSE 0
<1>1. s \in DOMAIN d.subs /\ f \in DOMAIN d.files \cup {NoFile}
  BY DEF CanRecordAccess
<1>3. d.subs[s].type = "text" => one = 0
  BY DEF CountsAsCurrent
<1>0. one = IF CountsAsCurrent(d.subs[s], f, revision) THEN 1 ELSE 0
  OBVIOUS
<1> HIDE DEF one
<1>2. /\ Tables(e)
      /\ DOMAIN e.subs = DOMAIN d.subs
      /\ \A t \in DOMAIN d.subs \ {s} : e.subs[t] = d.subs[t]
      /\ e.subs[s].type = d.subs[s].type
      /\ e.subs[s].file = d.subs[s].file
      /\ e.subs[s].revision = d.subs[s].revision
      /\ e.subs[s].path = d.subs[s].path
      /\ e.subs[s].current = d.subs[s].current + one
      /\ DOMAIN e.files = DOMAIN d.files
      /\ \A g \in DOMAIN d.files : e.files[g].content = d.files[g].content
      /\ AddsKeysOf(d, e, s, f)
      /\ e.fileSeq = d.fileSeq /\ e.subSeq = d.subSeq
  BY <1>0, <1>1, RecordAccessEffect
<1>4. /\ DOMAIN e.subs = DOMAIN d.subs
      /\ \A t \in DOMAIN d.subs :
            /\ e.subs[t].type = d.subs[t].type
            /\ e.subs[t].file = d.subs[t].file
            /\ e.subs[t].path = d.subs[t].path
            /\ e.subs[t].revision = d.subs[t].revision
  <2>1. ASSUME NEW t \in DOMAIN d.subs, t # s PROVE e.subs[t] = d.subs[t]
    BY <1>2, <2>1
  <2> QED BY <1>2, <2>1
<1>5. ASSUME Consistent(d) PROVE Consistent(e)
  <2>1. IdsBelowSequence(e) /\ ContentsUnique(e)
    BY <1>2, <1>5 DEF Consistent, IdsBelowSequence, ContentsUnique
  <2>2. PathsUnique(e)
    BY <1>4, <1>5 DEF Consistent, PathsUnique
  <2>3. TextHasNoFile(e)
    <3>1. ASSUME NEW t \in DOMAIN d.subs, e.subs[t].type = "text"
          PROVE  e.subs[t].file = NoFile /\ e.subs[t].current = 0
      <4>1. d.subs[t].type = "text" /\ d.subs[t].file = NoFile /\ d.subs[t].current = 0
        BY <1>4, <1>5, <3>1 DEF Consistent, TextHasNoFile
      <4>2. e.subs[t].current = 0
        BY <1>2, <1>3, <4>1
      <4> QED BY <1>4, <4>1, <4>2
    <3> QED BY <1>4, <3>1 DEF TextHasNoFile
  <2>4. ASSUME NEW k \in DOMAIN e.stats
        PROVE  k[1] \in DOMAIN e.files /\ k[2] \in DOMAIN e.subs
    <3>1. CASE k \in DOMAIN d.stats
      BY <1>2, <1>5, <3>1 DEF Consistent, ReferencesResolve
    <3>2. CASE k \notin DOMAIN d.stats
      BY <1>1, <1>2, <3>2 DEF AddsKeysOf
    <3> QED BY <3>1, <3>2
  <2>5. ASSUME NEW k \in DOMAIN e.logs
        PROVE  k[1] \in DOMAIN e.subs /\ k[2] \in DOMAIN e.files \cup {NoFile}
    <3>1. CASE k \in DOMAIN d.logs
      BY <1>2, <1>5, <3>1 DEF Consistent, ReferencesResolve
    <3>2. CASE k \notin DOMAIN d.logs
      BY <1>1, <1>2, <3>2 DEF AddsKeysOf
    <3> QED BY <3>1, <3>2
  <2>6. ReferencesResolve(e)
    BY <1>2, <1>4, <1>5, <2>4, <2>5 DEF Consistent, ReferencesResolve
  <2> QED BY <2>1, <2>2, <2>3, <2>6 DEF Consistent
<1> QED BY <1>2, <1>4, <1>5 DEF Tallies

LEMMA ClearAccessLogsTallies ==
    ASSUME NEW d, Tables(d), NEW s, NEW e, e = ClearAccessLogs(d, s)
    PROVE  Tallies(d, e) /\ e.subs = d.subs
<1> DEFINE L == Without(d.logs, {k \in DOMAIN d.logs : k[1] = s})
<1>1. d.logs \in [DOMAIN d.logs -> Nat] /\ DOMAIN d.logs \subseteq Nat \X Nat
  BY DEF Tables
<1>2. /\ L \in [DOMAIN L -> Nat] /\ DOMAIN L \subseteq Nat \X Nat
      /\ DOMAIN L \subseteq DOMAIN d.logs
  BY <1>1 DEF Without
<1>3. e = [d EXCEPT !.logs = L]
  BY DEF ClearAccessLogs
<1> HIDE DEF L
<1>4. /\ DOMAIN e = DOMAIN d /\ e.files = d.files /\ e.subs = d.subs /\ e.stats = d.stats
      /\ e.fileSeq = d.fileSeq /\ e.subSeq = d.subSeq /\ e.logs = L
  BY <1>3 DEF Tables
<1>5. Tables(e)
  BY <1>2, <1>4 DEF Tables
<1>6. Consistent(d) => Consistent(e)
  BY <1>2, <1>4 DEF Consistent, IdsBelowSequence, ContentsUnique, PathsUnique,
                    ReferencesResolve, TextHasNoFile
<1> QED BY <1>4, <1>5, <1>6 DEF Tallies

----------------------------------------------------------------------------
(* Every statement keeps a current count part of the count of its file and *)
(* subscription.                                                           *)

LEMMA CountIsNat ==
    ASSUME NEW d, Tables(d), NEW k
    PROVE  Count(d.stats, k) \in Nat
BY DEF Tables, Count

LEMMA WithoutCount ==
    ASSUME NEW f, NEW K, NEW k, k \notin K
    PROVE  Count(Without(f, K), k) = Count(f, k)
BY DEF Count, Without

LEMMA ChangeInHistory ==
    ASSUME NEW d, Tables(d), Consistent(d), CurrentInHistory(d),
           NEW e, NEW T, NEW max, Changes(d, e, T, max)
    PROVE  CurrentInHistory(e)
<1>1. ASSUME e.subs = d.subs, e.stats = d.stats PROVE CurrentInHistory(e)
  BY <1>1 DEF CurrentInHistory
<1>2. ASSUME NEW c \in Contents, e = CreateFile(d, c) PROVE CurrentInHistory(e)
  BY <1>1, <1>2, CreateFileEffect
<1>3. ASSUME NEW f \in DOMAIN d.files, CanDeleteFile(d, f), e = DeleteFile(d, f)
      PROVE  CurrentInHistory(e)
  <2> DEFINE K == {k \in DOMAIN d.stats : k[1] = f}
  <2>1. e.subs = d.subs /\ e.stats = Without(d.stats, K)
    BY <1>3 DEF DeleteFile, Tables
  <2>2. ASSUME NEW s \in DOMAIN d.subs
        PROVE  d.subs[s].current <= Count(e.stats, <<d.subs[s].file, s>>)
    <3>1. d.subs[s].file # f
      BY <1>3 DEF CanDeleteFile, Uses
    <3>2. <<d.subs[s].file, s>> \notin K
      BY <3>1
    <3> HIDE DEF K
    <3> QED BY <2>1, <3>2, WithoutCount DEF CurrentInHistory
  <2> QED BY <2>1, <2>2 DEF CurrentInHistory
<1>4. ASSUME Inserts(d, e) PROVE CurrentInHistory(e)
  <2>1. PICK row \in SubRow : e = InsertSub(d, row) /\ row.current = 0
    BY <1>4 DEF Inserts
  <2>2. e.subs = Put(d.subs, NextSubId(d), row) /\ e.stats = d.stats
    BY <2>1, InsertSubEffect
  <2>3. ASSUME NEW s \in DOMAIN e.subs
        PROVE  e.subs[s].current = 0 \/ (s \in DOMAIN d.subs /\ e.subs[s] = d.subs[s])
    BY <2>1, <2>2, <2>3 DEF Put
  <2>4. \A k : 0 <= Count(e.stats, k)
    BY <2>2, CountIsNat
  <2> QED BY <2>2, <2>3, <2>4 DEF CurrentInHistory
<1>5. ASSUME Rewrites(d, e, T) PROVE CurrentInHistory(e)
  <2>1. e.stats = d.stats /\ DOMAIN e.subs = DOMAIN d.subs
    BY <1>5 DEF Rewrites
  <2>2. ASSUME NEW s \in DOMAIN d.subs
        PROVE  \/ e.subs[s].file = d.subs[s].file /\ e.subs[s].current = d.subs[s].current
               \/ e.subs[s].current = 0
    BY <1>5, <2>2 DEF Rewrites, Moves
  <2>3. \A k : 0 <= Count(e.stats, k)
    BY <2>1, CountIsNat
  <2> QED BY <2>1, <2>2, <2>3 DEF CurrentInHistory
<1>6. ASSUME NEW t \in DOMAIN d.subs, e = DeleteSubscription(d, t) PROVE CurrentInHistory(e)
  <2> DEFINE K == {k \in DOMAIN d.stats : k[2] = t}
  <2>1. e.subs = Without(d.subs, {t}) /\ e.stats = Without(d.stats, K)
    BY <1>6 DEF DeleteSubscription, Tables
  <2>2. ASSUME NEW s \in DOMAIN e.subs
        PROVE  /\ s \in DOMAIN d.subs /\ e.subs[s] = d.subs[s]
               /\ <<d.subs[s].file, s>> \notin K
    BY <2>1, <2>2 DEF Without
  <2> HIDE DEF K
  <2>3. ASSUME NEW s \in DOMAIN e.subs
        PROVE  Count(e.stats, <<e.subs[s].file, s>>) = Count(d.stats, <<d.subs[s].file, s>>)
    <3> DEFINE k == <<d.subs[s].file, s>>
    <3>1. k \notin K /\ k = <<e.subs[s].file, s>>
      BY <2>2, <2>3
    <3> HIDE DEF k
    <3>2. Count(e.stats, k) = Count(d.stats, k)
      BY <2>1, <3>1, WithoutCount
    <3> QED BY <3>1, <3>2 DEF k
  <2> QED BY <2>2, <2>3 DEF CurrentInHistory
<1> QED BY <1>1, <1>2, <1>3, <1>4, <1>5, <1>6 DEF Changes, Alters

LEMMA RecordAccessInHistory ==
    ASSUME NEW d, Tables(d), CurrentInHistory(d), NEW s, NEW f, CanRecordAccess(d, s, f),
           NEW revision, NEW e, e = RecordAccess(d, s, f, revision)
    PROVE  CurrentInHistory(e)
<1> DEFINE one == IF CountsAsCurrent(d.subs[s], f, revision) THEN 1 ELSE 0
<1>1. s \in DOMAIN d.subs /\ f \in DOMAIN d.files \cup {NoFile}
  BY DEF CanRecordAccess
<1>2. e.stats = IF f = NoFile THEN d.stats
                ELSE Put(d.stats, <<f, s>>, Count(d.stats, <<f, s>>) + 1)
  BY DEF RecordAccess
<1>3. one = 1 => f # NoFile /\ d.subs[s].file = f
  BY DEF CountsAsCurrent
<1>4. one \in {0, 1} /\ one = IF CountsAsCurrent(d.subs[s], f, revision) THEN 1 ELSE 0
  OBVIOUS
<1> HIDE DEF one
<1>5. /\ DOMAIN e.subs = DOMAIN d.subs
      /\ \A t \in DOMAIN d.subs \ {s} : e.subs[t] = d.subs[t]
      /\ e.subs[s].file = d.subs[s].file
      /\ e.subs[s].current = d.subs[s].current + one
  BY <1>1, <1>4, RecordAccessEffect
<1>6. ASSUME NEW k
      PROVE  /\ Count(e.stats, k) >= Count(d.stats, k)
             /\ k = <<f, s>> /\ f # NoFile => Count(e.stats, k) = Count(d.stats, k) + 1
  <2>1. Count(d.stats, k) \in Nat /\ Count(d.stats, <<f, s>>) \in Nat
    BY CountIsNat
  <2>2. CASE f = NoFile
    BY <1>2, <2>1, <2>2
  <2>3. CASE f # NoFile
    <3>1. Count(e.stats, k) = IF k = <<f, s>> THEN Count(d.stats, <<f, s>>) + 1
                              ELSE Count(d.stats, k)
      BY <1>2, <2>3 DEF Count, Put
    <3> QED BY <2>1, <2>3, <3>1
  <2> QED BY <2>2, <2>3
<1>7. ASSUME NEW t \in DOMAIN d.subs
      PROVE  e.subs[t].current <= Count(e.stats, <<e.subs[t].file, t>>)
  <2> DEFINE n == Count(d.stats, <<d.subs[t].file, t>>)
             m == Count(e.stats, <<d.subs[t].file, t>>)
  <2>1. d.subs[t].current <= n /\ n \in Nat /\ d.subs[t].current \in Nat
    BY CountIsNat, SubRowOf DEF CurrentInHistory, SubRow
  <2>2. m >= n /\ (t = s /\ one = 1 => m = n + 1)
    BY <1>3, <1>6
  <2>3. e.subs[t].file = d.subs[t].file
    BY <1>5
  <2>4. \/ e.subs[t].current = d.subs[t].current
        \/ t = s /\ one = 1 /\ e.subs[t].current = d.subs[t].current + 1
    BY <1>4, <1>5, <2>1
  <2>5. m \in Nat
    BY <1>2, <2>1, <1>6, RecordAccessTallies, CountIsNat DEF Tallies
  <2> HIDE DEF n, m
  <2>6. e.subs[t].current <= m
    BY <2>1, <2>2, <2>4, <2>5
  <2> QED BY <2>3, <2>6 DEF m
<1> QED BY <1>5, <1>7 DEF CurrentInHistory

LEMMA ClearAccessLogsInHistory ==
    ASSUME NEW d, Tables(d), CurrentInHistory(d), NEW s, NEW e, e = ClearAccessLogs(d, s)
    PROVE  CurrentInHistory(e)
<1>1. e.subs = d.subs /\ e.stats = d.stats
  BY DEF ClearAccessLogs, Tables
<1> QED BY <1>1 DEF CurrentInHistory

----------------------------------------------------------------------------
(* Counters that add up.  An access is counted as a pair of a counter's key*)
(* and a number, so that sums are the cardinalities of sets: a counter that*)
(* goes takes accesses away, and one that moves to another key, as those of*)
(* log rows do when their file is deleted, takes them along.               *)

LEMMA InAccesses ==
    ASSUME NEW f, NEW P, NEW p
    PROVE  p \in Accesses(f, P) <=>
               \E k \in DOMAIN f \cap P : p[1] = k /\ p \in {k} \X (1 .. f[k])
BY DEF Accesses

LEMMA Fewer ==
    ASSUME NEW B, IsFiniteSet(B), NEW A, A \subseteq B
    PROVE  /\ IsFiniteSet(A) /\ Cardinality(A) <= Cardinality(B)
           /\ Cardinality(A) \in Nat /\ Cardinality(B) \in Nat
BY FS_Subset, FS_CardinalityType

LEMMA AtMostOneMore ==
    ASSUME NEW B, IsFiniteSet(B), NEW x, NEW A, A \subseteq B \cup {x}
    PROVE  /\ IsFiniteSet(A) /\ Cardinality(A) <= Cardinality(B) + 1
           /\ Cardinality(A) \in Nat /\ Cardinality(B) \in Nat
<1> DEFINE C == B \cup {x}
<1>1. /\ IsFiniteSet(C) /\ Cardinality(B) \in Nat
      /\ Cardinality(C) = Cardinality(B) \/ Cardinality(C) = Cardinality(B) + 1
  BY FS_AddElement, FS_CardinalityType
<1>2. A \subseteq C
  OBVIOUS
<1> HIDE DEF C
<1> QED BY <1>1, <1>2, Fewer

LEMMA NarrowerAccesses ==
    ASSUME NEW f, NEW P, NEW g, NEW Q,
           \A k \in DOMAIN g \cap Q : k \in DOMAIN f \cap P /\ g[k] = f[k]
    PROVE  Accesses(g, Q) \subseteq Accesses(f, P)
BY DEF Accesses

LEMMA OneMoreAccess ==
    ASSUME NEW f, f \in [DOMAIN f -> Nat], NEW k, NEW g, g = Put(f, k, Count(f, k) + 1), NEW P
    PROVE  /\ Accesses(g, P) \subseteq Accesses(f, P) \cup {<<k, Count(f, k) + 1>>}
           /\ k \notin P => Accesses(g, P) \subseteq Accesses(f, P)
<1>1. DOMAIN g = DOMAIN f \cup {k} /\ g[k] = Count(f, k) + 1
  BY DEF Put
<1>2. \A j \in DOMAIN f \ {k} : g[j] = f[j]
  BY DEF Put
<1>3. ASSUME k \notin P PROVE Accesses(g, P) \subseteq Accesses(f, P)
  BY <1>1, <1>2, <1>3, NarrowerAccesses
<1>4. ASSUME NEW p \in Accesses(g, P), p # <<k, Count(f, k) + 1>>
      PROVE  p \in Accesses(f, P)
  <2>1. PICK j \in DOMAIN g \cap P : p \in {j} \X (1 .. g[j])
    BY InAccesses
  <2>2. CASE j # k
    <3>1. j \in DOMAIN f \cap P /\ g[j] = f[j]
      BY <1>1, <1>2, <2>2
    <3> QED BY <2>1, <3>1 DEF Accesses
  <2>3. CASE j = k
    <3>1. PICK i \in 1 .. g[k] : p = <<k, i>>
      BY <2>1, <2>3
    <3>2. Count(f, k) \in Nat /\ (k \in DOMAIN f => Count(f, k) = f[k])
      BY DEF Count
    <3>3. i \in 1 .. Count(f, k)
      BY <1>1, <1>4, <3>1, <3>2
    <3>4. k \in DOMAIN f
      BY <3>2, <3>3 DEF Count
    <3>5. p \in {k} \X (1 .. f[k])
      BY <3>1, <3>2, <3>3, <3>4
    <3> QED BY <2>3, <3>4, <3>5 DEF Accesses
  <2> QED BY <2>2, <2>3
<1> QED BY <1>3, <1>4

(* Unfiled moves the accesses of f to the rows without a file and loses    *)
(* none: numbered after those that are there, they can be told apart.      *)
LEMMA UnfiledAccesses ==
    ASSUME NEW logs, logs \in [DOMAIN logs -> Nat], DOMAIN logs \subseteq Nat \X Nat,
           NEW f \in Nat, f # NoFile, NEW S, S \subseteq Nat,
           IsFiniteSet(Accesses(logs, S \X Nat))
    PROVE  /\ IsFiniteSet(Accesses(Unfiled(logs, f), S \X Nat))
           /\ Total(Unfiled(logs, f), S \X Nat) <= Total(logs, S \X Nat)
<1> DEFINE L == Unfiled(logs, f)
           A == Accesses(L, S \X Nat)
           B == Accesses(logs, S \X Nat)
           stays(s, g, i) == g # NoFile \/ i <= Count(logs, <<s, g>>)
           to(s, g, i) == IF stays(s, g, i) THEN <<<<s, g>>, i>>
                          ELSE <<<<s, f>>, i - Count(logs, <<s, NoFile>>)>>
           m == [p \in A |-> to(p[1][1], p[1][2], p[2])]
<1>1. ASSUME NEW s, NEW g, <<s, g>> \in DOMAIN L
      PROVE  /\ s \in Nat /\ g \in Nat /\ g # f
             /\ g # NoFile => <<s, g>> \in DOMAIN logs /\ L[<<s, g>>] = logs[<<s, g>>]
             /\ g = NoFile => L[<<s, g>>] = Count(logs, <<s, NoFile>>) + Count(logs, <<s, f>>)
  <2> DEFINE key(k) == IF k[2] = f THEN <<k[1], NoFile>> ELSE k
             D == {key(j) : j \in DOMAIN logs}
  <2>1. PICK j \in DOMAIN logs : <<s, g>> = key(j)
    BY <1>1 DEF Unfiled
  <2>2. j = <<j[1], j[2]>> /\ j[1] \in Nat /\ j[2] \in Nat
    OBVIOUS
  <2>3. \/ j[2] = f /\ s = j[1] /\ g = NoFile
        \/ j[2] # f /\ s = j[1] /\ g = j[2] /\ <<s, g>> = j
    BY <2>1, <2>2
  <2>4. L[<<s, g>>] = IF g = NoFile THEN Count(logs, <<s, g>>) + Count(logs, <<s, f>>)
                      ELSE logs[<<s, g>>]
    BY <1>1 DEF Unfiled
  <2> QED BY <2>2, <2>3, <2>4 DEF NoFile
<1>2. ASSUME NEW p \in A
      PROVE  \E s \in S, g \in Nat, i \in Nat \ {0} :
                 p = <<<<s, g>>, i>> /\ <<s, g>> \in DOMAIN L /\ i <= L[<<s, g>>]
  <2>1. PICK k \in DOMAIN L \cap (S \X Nat) : p \in {k} \X (1 .. L[k])
    BY DEF Accesses
  <2>2. PICK s \in S, g \in Nat : k = <<s, g>>
    BY <2>1
  <2>3. L[k] \in Nat
    BY <2>1, UnfiledFunction
  <2>4. PICK i \in 1 .. L[k] : p = <<k, i>>
    BY <2>1
  <2> QED BY <2>1, <2>2, <2>3, <2>4
<1> HIDE DEF L
<1>3. \A k : Count(logs, k) \in Nat
  BY DEF Count
<1>4. ASSUME NEW s \in S, NEW g \in Nat, NEW i \in Nat \ {0},
             <<s, g>> \in DOMAIN L, i <= L[<<s, g>>]
      PROVE  to(s, g, i) \in B
  <2>1. CASE g # NoFile
    <3> DEFINE k == <<s, g>>
    <3>1. k \in DOMAIN logs /\ L[k] = logs[k]
      BY <1>1, <1>4, <2>1
    <3>2. logs[k] \in Nat /\ k \in S \X Nat
      BY <3>1
    <3>3. i <= L[k]
      BY <1>4
    <3> HIDE DEF k
    <3>4. k \in DOMAIN logs \cap (S \X Nat) /\ i \in 1 .. logs[k]
      BY <3>1, <3>2, <3>3
    <3>5. to(s, g, i) = <<k, i>>
      BY <2>1 DEF k
    <3> QED BY <3>4, <3>5 DEF Accesses
  <2>2. CASE g = NoFile /\ i <= Count(logs, <<s, NoFile>>)
    <3>1. <<s, g>> \in DOMAIN logs \cap (S \X Nat) /\ i \in 1 .. logs[<<s, g>>]
      BY <1>3, <1>4, <2>2 DEF Count
    <3> QED BY <2>2, <3>1 DEF Accesses
  <2>3. CASE g = NoFile /\ ~(i <= Count(logs, <<s, NoFile>>))
    <3> DEFINE j == i - Count(logs, <<s, NoFile>>)
    <3>1. j \in 1 .. Count(logs, <<s, f>>)
      BY <1>1, <1>3, <1>4, <2>3
    <3>2. <<s, f>> \in DOMAIN logs \cap (S \X Nat) /\ j \in 1 .. logs[<<s, f>>]
      BY <1>3, <3>1 DEF Count
    <3>3. to(s, g, i) = <<<<s, f>>, j>>
      BY <2>3
    <3> HIDE DEF j
    <3> QED BY <3>2, <3>3 DEF Accesses
  <2> QED BY <2>1, <2>2, <2>3
<1>5. ASSUME NEW s \in S, NEW g \in Nat, NEW i \in Nat, g # f,
             NEW t \in S, NEW h \in Nat, NEW j \in Nat, h # f,
             to(s, g, i) = to(t, h, j)
      PROVE  s = t /\ g = h /\ i = j
  <2>1. Count(logs, <<s, NoFile>>) \in Nat /\ Count(logs, <<t, NoFile>>) \in Nat
    BY <1>3
  <2>2. CASE stays(s, g, i) /\ stays(t, h, j)
    BY <1>5, <2>2
  <2>3. CASE ~stays(s, g, i) /\ ~stays(t, h, j)
    BY <1>5, <2>1, <2>3
  <2>4. CASE (stays(s, g, i) /\ ~stays(t, h, j)) \/ (~stays(s, g, i) /\ stays(t, h, j))
    BY <1>5, <2>4
  <2> QED BY <2>2, <2>3, <2>4
<1>6. ASSUME NEW p \in A
      PROVE  \E s \in S, g \in Nat, i \in Nat :
                 p = <<<<s, g>>, i>> /\ g # f /\ m[p] = to(s, g, i) /\ m[p] \in B
  <2>1. PICK s \in S, g \in Nat, i \in Nat \ {0} :
            p = <<<<s, g>>, i>> /\ <<s, g>> \in DOMAIN L /\ i <= L[<<s, g>>]
    BY <1>2
  <2>2. p[1][1] = s /\ p[1][2] = g /\ p[2] = i
    BY <2>1
  <2>3. m[p] = to(s, g, i)
    BY <2>2
  <2>4. g # f
    BY <1>1, <2>1
  <2>5. to(s, g, i) \in B
    BY <1>4, <2>1
  <2> QED BY <2>1, <2>3, <2>4, <2>5
<1> HIDE DEF A, B, to
<1>7. m \in [A -> B]
  BY <1>6
<1> HIDE DEF m
<1>8. \A p, q \in A : m[p] = m[q] => p = q
  BY <1>5, <1>6
<1>9. m \in Injection(A, B)
  BY <1>7, <1>8 DEF Injection, IsInjective
<1>10. IsFiniteSet(A) /\ Cardinality(A) <= Cardinality(B)
  BY <1>9, FS_Injection DEF B
<1> QED BY <1>10 DEF A, B, L, Total

AddsUp(d) ==
    /\ IsFiniteSet(Accesses(d.stats, Nat \X Nat))
    /\ IsFiniteSet(Accesses(d.logs, Nat \X Nat))
    /\ CountersAddUp(d)

LEMMA NoAccesses ==
    ASSUME NEW f, NEW P, \A k \in DOMAIN f : k \notin P
    PROVE  Total(f, P) = 0
<1>1. Accesses(f, P) = {}
  BY DEF Accesses
<1> QED BY <1>1, FS_EmptySet DEF Total

(* What is left of the counters, and of the logs of any subscriptions.     *)
FewerStats(d, e) ==
    \A k \in DOMAIN e.stats : k \in DOMAIN d.stats /\ e.stats[k] = d.stats[k]
FewerLogs(d, e) ==
    \A S \in SUBSET Nat :
        IsFiniteSet(Accesses(d.logs, S \X Nat)) =>
            /\ IsFiniteSet(Accesses(e.logs, S \X Nat))
            /\ Total(e.logs, S \X Nat) <= Total(d.logs, S \X Nat)

(* A row is that of d, or new and without accesses.                        *)
SubHasRoom(d, e, s) ==
    \/ s \in DOMAIN d.subs /\ e.subs[s].fetches = d.subs[s].fetches
    \/ (\A k \in DOMAIN e.stats : k[2] # s) /\ (\A k \in DOMAIN e.logs : k[1] # s)
FileHasRoom(d, e, f) ==
    \/ f \in DOMAIN d.files /\ e.files[f].downloads = d.files[f].downloads
    \/ \A k \in DOMAIN e.stats : k[1] # f

LEMMA FiniteParts ==
    ASSUME NEW f, IsFiniteSet(Accesses(f, Nat \X Nat)), NEW P, P \subseteq Nat \X Nat
    PROVE  IsFiniteSet(Accesses(f, P)) /\ Total(f, P) \in Nat
<1>1. Accesses(f, P) \subseteq Accesses(f, Nat \X Nat)
  BY NarrowerAccesses
<1> QED BY <1>1, Fewer DEF Total

LEMMA FewerStatsTotal ==
    ASSUME NEW d, AddsUp(d), NEW e, FewerStats(d, e), NEW P, P \subseteq Nat \X Nat
    PROVE  /\ IsFiniteSet(Accesses(e.stats, P))
           /\ Total(e.stats, P) <= Total(d.stats, P)
           /\ Total(e.stats, P) \in Nat /\ Total(d.stats, P) \in Nat
<1>1. Accesses(e.stats, P) \subseteq Accesses(d.stats, P)
  BY NarrowerAccesses DEF FewerStats
<1>2. IsFiniteSet(Accesses(d.stats, P))
  BY FiniteParts DEF AddsUp
<1> QED BY <1>1, <1>2, Fewer DEF Total

LEMMA StaysAdded ==
    ASSUME NEW d, Tables(d), AddsUp(d), NEW e, Tables(e), FewerStats(d, e), FewerLogs(d, e),
           \A s \in DOMAIN e.subs : SubHasRoom(d, e, s),
           \A f \in DOMAIN e.files : FileHasRoom(d, e, f)
    PROVE  AddsUp(e)
<1>1. IsFiniteSet(Accesses(e.stats, Nat \X Nat))
  BY FewerStatsTotal
<1>2. IsFiniteSet(Accesses(e.logs, Nat \X Nat))
  BY DEF FewerLogs, AddsUp
<1>3. ASSUME NEW s \in DOMAIN e.subs
      PROVE  /\ Total(e.stats, Nat \X {s}) <= e.subs[s].fetches
             /\ Total(e.logs, {s} \X Nat) <= e.subs[s].fetches
  <2>1. s \in Nat /\ e.subs[s].fetches \in Nat
    BY SubRowOf DEF Tables, SubRow
  <2>2. CASE s \in DOMAIN d.subs /\ e.subs[s].fetches = d.subs[s].fetches
    <3>1. /\ Total(d.stats, Nat \X {s}) <= e.subs[s].fetches
          /\ Total(d.logs, {s} \X Nat) <= e.subs[s].fetches
      BY <2>2 DEF AddsUp, CountersAddUp
    <3>2. /\ Total(e.stats, Nat \X {s}) <= Total(d.stats, Nat \X {s})
          /\ Total(e.stats, Nat \X {s}) \in Nat /\ Total(d.stats, Nat \X {s}) \in Nat
      BY <2>1, FewerStatsTotal
    <3>3. IsFiniteSet(Accesses(d.logs, {s} \X Nat)) /\ Total(d.logs, {s} \X Nat) \in Nat
      BY <2>1, FiniteParts DEF AddsUp
    <3>4. Total(e.logs, {s} \X Nat) <= Total(d.logs, {s} \X Nat)
      BY <2>1, <3>3 DEF FewerLogs
    <3>5. Total(e.logs, {s} \X Nat) \in Nat
      BY <1>2, <2>1, FiniteParts
    <3> QED BY <2>1, <3>1, <3>2, <3>3, <3>4, <3>5
  <2>3. CASE (\A k \in DOMAIN e.stats : k[2] # s) /\ (\A k \in DOMAIN e.logs : k[1] # s)
    <3>1. Total(e.stats, Nat \X {s}) = 0
      BY <2>3, NoAccesses
    <3>2. Total(e.logs, {s} \X Nat) = 0
      BY <2>3, NoAccesses
    <3> QED BY <2>1, <3>1, <3>2
  <2> QED BY <2>2, <2>3 DEF SubHasRoom
<1>4. ASSUME NEW f \in DOMAIN e.files
      PROVE  Total(e.stats, {f} \X Nat) <= e.files[f].downloads
  <2>1. f \in Nat /\ e.files[f].downloads \in Nat
    BY DEF Tables, FileRow
  <2>2. CASE f \in DOMAIN d.files /\ e.files[f].downloads = d.files[f].downloads
    <3>1. Total(d.stats, {f} \X Nat) <= e.files[f].downloads
      BY <2>2 DEF AddsUp, CountersAddUp
    <3>2. /\ Total(e.stats, {f} \X Nat) <= Total(d.stats, {f} \X Nat)
          /\ Total(e.stats, {f} \X Nat) \in Nat /\ Total(d.stats, {f} \X Nat) \in Nat
      BY <2>1, FewerStatsTotal
    <3> QED BY <2>1, <3>1, <3>2
  <2>3. CASE \A k \in DOMAIN e.stats : k[1] # f
    BY <2>1, <2>3, NoAccesses
  <2> QED BY <2>2, <2>3 DEF FileHasRoom
<1> QED BY <1>1, <1>2, <1>3, <1>4 DEF AddsUp, CountersAddUp

LEMMA EmptyAddsUp == AddsUp(EmptyDB)
<1>1. EmptyDB.stats = Empty /\ EmptyDB.logs = Empty
  BY DEF EmptyDB
<1>2. Accesses(Empty, Nat \X Nat) = {}
  BY DEF Accesses, Empty
<1>3. EmptyDB.subs = Empty /\ EmptyDB.files = Empty /\ DOMAIN Empty = {}
  BY DEF EmptyDB, Empty
<1>4. CountersAddUp(EmptyDB)
  BY <1>3 DEF CountersAddUp
<1> QED BY <1>1, <1>2, <1>4, FS_EmptySet DEF AddsUp


LEMMA FewerKeysFewerLogs ==
    ASSUME NEW d, NEW e, \A k \in DOMAIN e.logs : k \in DOMAIN d.logs /\ e.logs[k] = d.logs[k]
    PROVE  FewerLogs(d, e)
<1>1. ASSUME NEW S \in SUBSET Nat, IsFiniteSet(Accesses(d.logs, S \X Nat))
      PROVE  /\ IsFiniteSet(Accesses(e.logs, S \X Nat))
             /\ Total(e.logs, S \X Nat) <= Total(d.logs, S \X Nat)
  <2>1. Accesses(e.logs, S \X Nat) \subseteq Accesses(d.logs, S \X Nat)
    BY NarrowerAccesses
  <2> QED BY <1>1, <2>1, Fewer DEF Total
<1> QED BY <1>1 DEF FewerLogs

LEMMA ChangeAddsUp ==
    ASSUME NEW d, Tables(d), Consistent(d), AddsUp(d),
           NEW e, NEW T, NEW max, Changes(d, e, T, max)
    PROVE  AddsUp(e)
<1>1. /\ Tables(e)
      /\ \A k \in DOMAIN d.stats : k[1] \in 1 .. d.fileSeq /\ k[2] \in 1 .. d.subSeq
      /\ \A k \in DOMAIN d.logs : k[1] \in 1 .. d.subSeq
      /\ d.fileSeq \in Nat /\ d.subSeq \in Nat
  BY ChangeKeeps DEF Keeps, Consistent, ReferencesResolve, IdsBelowSequence, Tables
<1>2. ASSUME e.stats = d.stats, e.logs = d.logs
      PROVE  FewerStats(d, e) /\ FewerLogs(d, e)
  BY <1>2, FewerKeysFewerLogs DEF FewerStats
<1>3. ASSUME NEW c \in Contents, e = CreateFile(d, c) PROVE AddsUp(e)
  <2>1. /\ e.files = Put(d.files, NextFileId(d), [content |-> c, downloads |-> 0])
        /\ e.subs = d.subs /\ e.stats = d.stats /\ e.logs = d.logs
    BY <1>3, CreateFileEffect
  <2>2. ASSUME NEW f \in DOMAIN e.files PROVE FileHasRoom(d, e, f)
    <3>1. CASE f = NextFileId(d)
      BY <1>1, <2>1, <3>1 DEF FileHasRoom, NextFileId
    <3>2. CASE f # NextFileId(d)
      BY <2>1, <3>2 DEF FileHasRoom, Put
    <3> QED BY <3>1, <3>2
  <2>3. \A s \in DOMAIN e.subs : SubHasRoom(d, e, s)
    BY <2>1 DEF SubHasRoom
  <2> QED BY <1>1, <1>2, <2>1, <2>2, <2>3, StaysAdded
<1>4. ASSUME NEW f \in DOMAIN d.files, e = DeleteFile(d, f) PROVE AddsUp(e)
  <2>1. e.files = Without(d.files, {f}) /\ e.subs = d.subs /\ e.logs = Unfiled(d.logs, f)
    BY <1>4, DeleteFileEffect
  <2>2. e.stats = Without(d.stats, {k \in DOMAIN d.stats : k[1] = f})
    BY <1>4 DEF DeleteFile, Tables
  <2>3. FewerStats(d, e)
    BY <2>2 DEF FewerStats, Without
  <2>4. FewerLogs(d, e)
    <3>1. f \in Nat /\ f # NoFile
      BY <1>4 DEF Consistent, IdsBelowSequence, Tables, NoFile
    <3>2. ASSUME NEW S \in SUBSET Nat, IsFiniteSet(Accesses(d.logs, S \X Nat))
          PROVE  /\ IsFiniteSet(Accesses(e.logs, S \X Nat))
                 /\ Total(e.logs, S \X Nat) <= Total(d.logs, S \X Nat)
      <4>1. d.logs \in [DOMAIN d.logs -> Nat] /\ DOMAIN d.logs \subseteq Nat \X Nat
        BY DEF Tables
      <4> QED BY <2>1, <3>1, <3>2, <4>1, UnfiledAccesses
    <3> QED BY <3>2 DEF FewerLogs
  <2>5. \A g \in DOMAIN e.files : FileHasRoom(d, e, g)
    BY <2>1 DEF FileHasRoom, Without
  <2>6. \A s \in DOMAIN e.subs : SubHasRoom(d, e, s)
    BY <2>1 DEF SubHasRoom
  <2> QED BY <1>1, <2>3, <2>4, <2>5, <2>6, StaysAdded
<1>5. ASSUME Inserts(d, e) PROVE AddsUp(e)
  <2>1. PICK row \in SubRow : e = InsertSub(d, row)
    BY <1>5 DEF Inserts
  <2>2. /\ e.subs = Put(d.subs, NextSubId(d), row)
        /\ e.files = d.files /\ e.stats = d.stats /\ e.logs = d.logs
    BY <2>1, InsertSubEffect
  <2>3. ASSUME NEW s \in DOMAIN e.subs PROVE SubHasRoom(d, e, s)
    <3>1. CASE s = NextSubId(d)
      BY <1>1, <2>2, <3>1 DEF SubHasRoom, NextSubId
    <3>2. CASE s # NextSubId(d)
      BY <2>2, <3>2 DEF SubHasRoom, Put
    <3> QED BY <3>1, <3>2
  <2>4. \A f \in DOMAIN e.files : FileHasRoom(d, e, f)
    BY <2>2 DEF FileHasRoom
  <2> QED BY <1>1, <1>2, <2>2, <2>3, <2>4, StaysAdded
<1>6. ASSUME Rewrites(d, e, T) PROVE AddsUp(e)
  <2>1. /\ e.files = d.files /\ e.stats = d.stats /\ e.logs = d.logs
        /\ DOMAIN e.subs = DOMAIN d.subs
        /\ \A s \in DOMAIN d.subs : e.subs[s].fetches = d.subs[s].fetches
    BY <1>6 DEF Rewrites, KeepsFiles, Moves
  <2>2. /\ \A s \in DOMAIN e.subs : SubHasRoom(d, e, s)
        /\ \A f \in DOMAIN e.files : FileHasRoom(d, e, f)
    BY <2>1 DEF SubHasRoom, FileHasRoom
  <2> QED BY <1>1, <1>2, <2>1, <2>2, StaysAdded
<1>7. ASSUME NEW s \in DOMAIN d.subs, e = DeleteSubscription(d, s) PROVE AddsUp(e)
  <2>1. /\ e.files = d.files /\ e.subs = Without(d.subs, {s})
        /\ e.stats = Without(d.stats, {k \in DOMAIN d.stats : k[2] = s})
        /\ e.logs = Without(d.logs, {k \in DOMAIN d.logs : k[1] = s})
    BY <1>7 DEF DeleteSubscription, Tables
  <2>2. FewerStats(d, e) /\ FewerLogs(d, e)
    BY <2>1, FewerKeysFewerLogs DEF FewerStats, Without
  <2>3. /\ \A t \in DOMAIN e.subs : SubHasRoom(d, e, t)
        /\ \A f \in DOMAIN e.files : FileHasRoom(d, e, f)
    BY <2>1 DEF SubHasRoom, FileHasRoom, Without
  <2> QED BY <1>1, <2>2, <2>3, StaysAdded
<1> QED BY <1>3, <1>4, <1>5, <1>6, <1>7 DEF Changes, Alters

LEMMA ClearAccessLogsAddsUp ==
    ASSUME NEW d, Tables(d), AddsUp(d), NEW s, NEW e, e = ClearAccessLogs(d, s)
    PROVE  AddsUp(e)
<1>1. /\ e.files = d.files /\ e.subs = d.subs /\ e.stats = d.stats
      /\ e.logs = Without(d.logs, {k \in DOMAIN d.logs : k[1] = s})
  BY DEF ClearAccessLogs, Tables
<1>2. Tables(e)
  BY ClearAccessLogsTallies DEF Tallies
<1>3. FewerStats(d, e) /\ FewerLogs(d, e)
  BY <1>1, FewerKeysFewerLogs DEF FewerStats, Without
<1>4. /\ \A t \in DOMAIN e.subs : SubHasRoom(d, e, t)
      /\ \A f \in DOMAIN e.files : FileHasRoom(d, e, f)
  BY <1>1 DEF SubHasRoom, FileHasRoom
<1> QED BY <1>2, <1>3, <1>4, StaysAdded

(* One more access makes the sums that contain its counter larger by one.  *)
LEMMA OneMoreInTotal ==
    ASSUME NEW f, f \in [DOMAIN f -> Nat], IsFiniteSet(Accesses(f, Nat \X Nat)),
           NEW k, NEW g, g = f \/ g = Put(f, k, Count(f, k) + 1),
           NEW P, P \subseteq Nat \X Nat
    PROVE  /\ IsFiniteSet(Accesses(g, P))
           /\ Total(g, P) \in Nat /\ Total(f, P) \in Nat
           /\ Total(g, P) <= Total(f, P) + 1
           /\ k \notin P \/ g = f => Total(g, P) <= Total(f, P)
<1>1. IsFiniteSet(Accesses(f, P)) /\ Total(f, P) \in Nat
  BY FiniteParts
<1>2. CASE g = f
  BY <1>1, <1>2
<1>3. CASE g = Put(f, k, Count(f, k) + 1) /\ g # f
  <2> DEFINE x == <<k, Count(f, k) + 1>>
  <2>1. /\ Accesses(g, P) \subseteq Accesses(f, P) \cup {x}
        /\ k \notin P => Accesses(g, P) \subseteq Accesses(f, P)
    BY <1>3, OneMoreAccess
  <2> HIDE DEF x
  <2>2. /\ IsFiniteSet(Accesses(g, P)) /\ Total(g, P) \in Nat
        /\ Total(g, P) <= Total(f, P) + 1
    BY <1>1, <2>1, AtMostOneMore DEF Total
  <2>3. k \notin P => Total(g, P) <= Total(f, P)
    BY <1>1, <2>1, Fewer DEF Total
  <2> QED BY <1>1, <1>3, <2>2, <2>3
<1> QED BY <1>2, <1>3

LEMMA RecordAccessAddsUp ==
    ASSUME NEW d, Tables(d), AddsUp(d), NEW s, NEW f, CanRecordAccess(d, s, f),
           NEW revision, NEW e, e = RecordAccess(d, s, f, revision)
    PROVE  AddsUp(e)
<1> DEFINE j == <<f, s>>
           k == <<s, f>>
<1>1. s \in DOMAIN d.subs /\ f \in DOMAIN d.files \cup {NoFile}
  BY DEF CanRecordAccess
<1>2. CountsOneOf(d, e, s, f)
  BY <1>1, RecordAccessCounts
<1>3. /\ Tables(e) /\ DOMAIN e.subs = DOMAIN d.subs /\ DOMAIN e.files = DOMAIN d.files
  BY RecordAccessTallies DEF Tallies
<1>4. \A t \in DOMAIN d.subs \ {s} : e.subs[t] = d.subs[t]
  BY DEF RecordAccess, Tables
<1>5. /\ d.stats \in [DOMAIN d.stats -> Nat] /\ d.logs \in [DOMAIN d.logs -> Nat]
      /\ DOMAIN d.subs \subseteq Nat /\ DOMAIN d.files \subseteq Nat
      /\ IsFiniteSet(Accesses(d.stats, Nat \X Nat))
      /\ IsFiniteSet(Accesses(d.logs, Nat \X Nat))
  BY DEF Tables, AddsUp
<1>6. /\ e.stats = d.stats \/ e.stats = Put(d.stats, j, Count(d.stats, j) + 1)
      /\ f = NoFile => e.stats = d.stats
      /\ e.logs = d.logs \/ e.logs = Put(d.logs, k, Count(d.logs, k) + 1)
  BY DEF RecordAccess
<1>7. /\ \A t : t # s => j \notin Nat \X {t} /\ k \notin {t} \X Nat
      /\ \A g : g # f => j \notin {g} \X Nat
  OBVIOUS
<1> HIDE DEF j, k
<1>8. ASSUME NEW P, P \subseteq Nat \X Nat
      PROVE  /\ IsFiniteSet(Accesses(e.stats, P)) /\ IsFiniteSet(Accesses(e.logs, P))
             /\ Total(e.stats, P) \in Nat /\ Total(d.stats, P) \in Nat
             /\ Total(e.logs, P) \in Nat /\ Total(d.logs, P) \in Nat
             /\ Total(e.stats, P) <= Total(d.stats, P) + 1
             /\ j \notin P \/ f = NoFile => Total(e.stats, P) <= Total(d.stats, P)
             /\ Total(e.logs, P) <= Total(d.logs, P) + 1
             /\ k \notin P => Total(e.logs, P) <= Total(d.logs, P)
  BY <1>5, <1>6, <1>8, OneMoreInTotal
<1>9. ASSUME NEW t \in DOMAIN e.subs
      PROVE  /\ Total(e.stats, Nat \X {t}) <= e.subs[t].fetches
             /\ Total(e.logs, {t} \X Nat) <= e.subs[t].fetches
  <2>1. /\ Total(d.stats, Nat \X {t}) <= d.subs[t].fetches
        /\ Total(d.logs, {t} \X Nat) <= d.subs[t].fetches
        /\ d.subs[t].fetches \in Nat
    BY <1>3, SubRowOf DEF AddsUp, CountersAddUp, SubRow
  <2>2. Nat \X {t} \subseteq Nat \X Nat /\ {t} \X Nat \subseteq Nat \X Nat
    BY <1>3, <1>5
  <2>3. CASE t = s
    BY <1>2, <1>8, <2>1, <2>2, <2>3 DEF CountsOneOf
  <2>4. CASE t # s
    <3>1. e.subs[t].fetches = d.subs[t].fetches
      BY <1>3, <1>4, <2>4
    <3>2. j \notin Nat \X {t} /\ k \notin {t} \X Nat
      BY <1>7, <2>4
    <3> QED BY <1>8, <2>1, <2>2, <3>1, <3>2
  <2> QED BY <2>3, <2>4
<1>10. ASSUME NEW g \in DOMAIN e.files
       PROVE  Total(e.stats, {g} \X Nat) <= e.files[g].downloads
  <2>1. Total(d.stats, {g} \X Nat) <= d.files[g].downloads /\ d.files[g].downloads \in Nat
    BY <1>3 DEF AddsUp, CountersAddUp, Tables, FileRow
  <2>2. {g} \X Nat \subseteq Nat \X Nat
    BY <1>3, <1>5
  <2>3. CASE f # NoFile /\ g = f
    BY <1>2, <1>3, <1>8, <2>1, <2>2, <2>3 DEF CountsOneOf
  <2>4. CASE ~(f # NoFile /\ g = f)
    <3>1. e.files[g].downloads = d.files[g].downloads
      BY <1>2, <1>3, <2>4 DEF CountsOneOf
    <3>2. j \notin {g} \X Nat \/ f = NoFile
      BY <1>7, <2>4
    <3> QED BY <1>8, <2>1, <2>2, <3>1, <3>2
  <2> QED BY <2>3, <2>4
<1> QED BY <1>8, <1>9, <1>10 DEF AddsUp, CountersAddUp
=============================================================================
