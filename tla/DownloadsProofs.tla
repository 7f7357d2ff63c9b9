-------------------------- MODULE DownloadsProofs --------------------------
(***************************************************************************)
(* Proofs about Downloads, for any number of visitors and requests.        *)
(*                                                                         *)
(* A download takes no lock and checks nothing again, so all it has is     *)
(* what its subscription's row said when it was loaded.  FetchOK says what *)
(* that is still worth: a revision that is still the row's names the file  *)
(* the row still has.  It survives the steps of everybody else because     *)
(* those only let the tables develop as Follows says: ids are not reused,  *)
(* revisions only grow, and another file comes with another revision.      *)
(***************************************************************************)
EXTENDS Downloads, FilesProofs

Follows(d, e) ==
    /\ d.subSeq \in Nat /\ e.subSeq \in Nat /\ d.subSeq <= e.subSeq
    /\ \A s \in DOMAIN e.subs :
          \/ /\ s \in DOMAIN d.subs
             /\ e.subs[s].type = d.subs[s].type
             /\ \/ e.subs[s].file = d.subs[s].file /\ e.subs[s].revision = d.subs[s].revision
                \/ e.subs[s].revision > d.subs[s].revision
          \/ s \in d.subSeq + 1 .. e.subSeq
    /\ Succeeds(d, e)

LEMMA EvolvingFollows ==
    ASSUME NEW d, NEW e, Evolves(d, e), Succeeds(d, e)
    PROVE  Follows(d, e)
BY DEF Evolves, Moves, Follows

LEMMA TalliedFollows ==
    ASSUME NEW d, Tables(d), NEW e, Tallies(d, e)
    PROVE  Follows(d, e)
<1>1. d.subSeq \in Nat /\ d.fileSeq \in Nat
  BY DEF Tables
<1> QED BY <1>1 DEF Tallies, Follows, Succeeds

----------------------------------------------------------------------------
(* What a download still knows.                                            *)

FetchOK(q, d) ==
    q.pc # "idle" =>
        /\ q.sub \in 1 .. d.subSeq
        /\ q.sub \in DOMAIN d.subs =>
              LET row == d.subs[q.sub]
              IN  /\ q.revision <= row.revision
                  /\ row.type = "file" => q.file # NoFile
                  /\ row.type = "file" /\ q.revision = row.revision =>
                        /\ q.file = row.file
                        /\ q.pc # "missed"
                        /\ q.pc = "open" => q.content = d.files[q.file].content

ServedOK(k, d) ==
    /\ k[1] \in 1 .. d.subSeq
    /\ k[1] \in DOMAIN d.subs => k[2] <= d.subs[k[1]].revision

DInv ==
    /\ DTypeOK
    /\ SInv
    /\ \A v \in Visitors : FetchOK(fetch[v], db)
    /\ \A k \in DOMAIN served : ServedOK(k, db)
    /\ CurrentCountExact
    /\ CurrentInHistory(db)
    /\ AddsUp(db)

LEMMA RevisionIsNat ==
    ASSUME NEW d, Tables(d), NEW s \in DOMAIN d.subs
    PROVE  d.subs[s].revision \in Nat /\ d.subs[s].current \in Nat /\ d.subs[s].file \in Nat
BY SubRowOf DEF SubRow

LEMMA FetchStays ==
    ASSUME NEW d, Tables(d), Consistent(d), NEW e, Tables(e), Consistent(e), Follows(d, e),
           NEW q \in FetchRow, FetchOK(q, d)
    PROVE  FetchOK(q, e)
<1> SUFFICES ASSUME q.pc # "idle" PROVE FetchOK(q, e)
  BY DEF FetchOK
<1>1. q.sub \in 1 .. e.subSeq
  BY DEF FetchOK, Follows
<1>2. ASSUME q.sub \in DOMAIN e.subs
      PROVE  /\ q.revision <= e.subs[q.sub].revision
             /\ e.subs[q.sub].type = "file" => q.file # NoFile
             /\ e.subs[q.sub].type = "file" /\ q.revision = e.subs[q.sub].revision =>
                   /\ q.file = e.subs[q.sub].file
                   /\ q.pc # "missed"
                   /\ q.pc = "open" => q.content = e.files[q.file].content
  <2> DEFINE s == q.sub
  <2>1. /\ s \in DOMAIN d.subs
        /\ e.subs[s].type = d.subs[s].type
        /\ \/ e.subs[s].file = d.subs[s].file /\ e.subs[s].revision = d.subs[s].revision
           \/ e.subs[s].revision > d.subs[s].revision
    BY <1>2 DEF Follows, FetchOK
  <2>2. /\ q.revision <= d.subs[s].revision
        /\ d.subs[s].type = "file" => q.file # NoFile
        /\ d.subs[s].type = "file" /\ q.revision = d.subs[s].revision =>
              /\ q.file = d.subs[s].file
              /\ q.pc # "missed"
              /\ q.pc = "open" => q.content = d.files[q.file].content
    BY <2>1 DEF FetchOK
  <2>3. q.revision \in Nat /\ d.subs[s].revision \in Nat /\ e.subs[s].revision \in Nat
    BY <1>2, <2>1, RevisionIsNat DEF FetchRow
  <2> HIDE DEF s
  <2>4. q.revision <= e.subs[s].revision
    BY <2>1, <2>2, <2>3
  <2>5. ASSUME e.subs[s].type = "file", q.revision = e.subs[s].revision
        PROVE  /\ q.file = e.subs[s].file /\ q.pc # "missed"
               /\ q.pc = "open" => q.content = e.files[q.file].content
    <3>1. q.revision = d.subs[s].revision /\ e.subs[s].file = d.subs[s].file
      BY <2>1, <2>2, <2>3, <2>5
    <3>2. /\ q.file = d.subs[s].file /\ q.pc # "missed" /\ q.file # NoFile
          /\ q.pc = "open" => q.content = d.files[q.file].content
      BY <2>1, <2>2, <2>5, <3>1
    <3>3. q.file \in DOMAIN d.files /\ q.file \in DOMAIN e.files
      BY <1>2, <2>1, <3>1, <3>2 DEF s, Consistent, ReferencesResolve
    <3>4. q.file \in 0 .. d.fileSeq
      BY <3>3 DEF Tables, Consistent, IdsBelowSequence
    <3>5. e.files[q.file].content = d.files[q.file].content
      BY <3>3, <3>4 DEF Follows, Succeeds
    <3> QED BY <3>1, <3>2, <3>5
  <2> QED BY <2>1, <2>2, <2>4, <2>5 DEF s
<1> QED BY <1>1, <1>2 DEF FetchOK

LEMMA ServedStays ==
    ASSUME NEW d, Tables(d), NEW e, Tables(e), Follows(d, e),
           NEW k \in Nat \X Nat, ServedOK(k, d)
    PROVE  ServedOK(k, e)
<1>1. k[1] \in Nat /\ k[2] \in Nat
  OBVIOUS
<1>2. k[1] \in 1 .. e.subSeq
  BY DEF ServedOK, Follows
<1>3. ASSUME k[1] \in DOMAIN e.subs PROVE k[2] <= e.subs[k[1]].revision
  <2>1. /\ k[1] \in DOMAIN d.subs /\ k[2] <= d.subs[k[1]].revision
        /\ e.subs[k[1]].revision >= d.subs[k[1]].revision
    BY <1>3, RevisionIsNat DEF ServedOK, Follows
  <2> QED BY <1>1, <1>3, <2>1, RevisionIsNat
<1> QED BY <1>2, <1>3 DEF ServedOK

----------------------------------------------------------------------------
(* The steps of Files, with the downloads looking on.                      *)

LEMMA AdminFollows ==
    ASSUME SInv, [Next]_vars
    PROVE  /\ SInv' /\ Tables(db') /\ Consistent(db')
           /\ Evolves(db, db') /\ Follows(db, db')
           /\ CurrentInHistory(db) => CurrentInHistory(db')
           /\ AddsUp(db) => AddsUp(db')
<1>1. IInv /\ Consistent(db) /\ Tables(db)
  BY DEF SInv, IInv, TypeOK
<1>2. Tables(db') /\ Consistent(db') /\ Evolves(db, db')
  BY StepKeeps DEF Keeps
<1>3. Succeeds(db, db')
  BY <1>1, StepChanges, ChangeSucceeds
<1>4. CurrentInHistory(db) => CurrentInHistory(db')
  BY <1>1, StepChanges, ChangeInHistory
<1>5. AddsUp(db) => AddsUp(db')
  BY <1>1, StepChanges, ChangeAddsUp
<1> QED BY <1>2, <1>3, <1>4, <1>5, SInvStep, EvolvingFollows

LEMMA SubOfFile ==
    ASSUME NEW d, NEW s, IsFileSub(d, s)
    PROVE  s \in DOMAIN d.subs /\ d.subs[s].type = "file"
BY DEF IsFileSub

LEMMA NotServedYet ==
    ASSUME NEW d, Tables(d), DTypeOK, \A k \in DOMAIN served : ServedOK(k, d),
           NEW s \in Nat, NEW n \in Nat,
           (s \in DOMAIN d.subs /\ n > d.subs[s].revision) \/ s > d.subSeq
    PROVE  Count(served, <<s, n>>) = 0
<1>1. <<s, n>>[1] = s /\ <<s, n>>[2] = n
  OBVIOUS
<1>2. ASSUME <<s, n>> \in DOMAIN served PROVE FALSE
  <2>1. ServedOK(<<s, n>>, d)
    BY <1>2
  <2>2. s \in 1 .. d.subSeq /\ (s \in DOMAIN d.subs => n <= d.subs[s].revision)
    BY <1>1, <2>1 DEF ServedOK
  <2>3. d.subSeq \in Nat
    BY DEF Tables
  <2> QED BY <2>2, <2>3, RevisionIsNat
<1> QED BY <1>2 DEF Count

LEMMA CountsStay ==
    ASSUME NEW d, Tables(d), NEW e, Tables(e), Evolves(d, e), DTypeOK,
           \A k \in DOMAIN served : ServedOK(k, d),
           NEW s \in DOMAIN e.subs,
           s \in DOMAIN d.subs /\ d.subs[s].type = "file"
               => d.subs[s].current = Count(served, <<s, d.subs[s].revision>>),
           e.subs[s].type = "file"
    PROVE  e.subs[s].current = Count(served, <<s, e.subs[s].revision>>)
<1>1. s \in Nat /\ e.subs[s].revision \in Nat /\ d.subSeq \in Nat
  BY RevisionIsNat DEF Tables
<1>2. CASE s \in DOMAIN d.subs /\ Moves(d.subs[s], e.subs[s])
  <2>1. CASE e.subs[s].revision = d.subs[s].revision /\ e.subs[s].current = d.subs[s].current
    BY <1>2, <2>1 DEF Moves
  <2>2. CASE e.subs[s].revision > d.subs[s].revision /\ e.subs[s].current = 0
    BY <1>1, <1>2, <2>2, NotServedYet
  <2> QED BY <1>2, <2>1, <2>2 DEF Moves
<1>3. CASE s \in d.subSeq + 1 .. e.subSeq /\ e.subs[s].current = 0
  <2>1. s > d.subSeq
    BY <1>1, <1>3 DEF Evolves
  <2> QED BY <1>1, <1>3, <2>1, NotServedYet
<1> QED BY <1>2, <1>3 DEF Evolves

(* A step of the administrators, of a crash, or of nobody: the downloads   *)
(* stay as they are or die with the process.                               *)
LEMMA DAdminStep ==
    ASSUME DInv, [Next]_vars, served' = served,
           fetch' = fetch \/ fetch' = [v \in Visitors |-> NoFetch]
    PROVE  DInv'
<1>1. /\ DTypeOK /\ SInv /\ IInv /\ Tables(db) /\ Consistent(db)
      /\ fetch \in [Visitors -> FetchRow] /\ DOMAIN served \subseteq Nat \X Nat
      /\ \A v \in Visitors : FetchOK(fetch[v], db)
      /\ \A k \in DOMAIN served : ServedOK(k, db)
  BY DEF DInv, DTypeOK, SInv, IInv, TypeOK
<1>2. /\ SInv' /\ Tables(db') /\ Consistent(db')
      /\ Evolves(db, db') /\ Follows(db, db') /\ CurrentInHistory(db') /\ AddsUp(db')
  BY <1>1, AdminFollows DEF DInv
<1>3. NoFetch \in FetchRow /\ FetchOK(NoFetch, db')
  BY DEF NoFetch, FetchRow, FetchOK, NoFile
<1>4. DTypeOK'
  BY <1>1, <1>2, <1>3 DEF DTypeOK, SInv, IInv
<1>5. \A v \in Visitors : FetchOK(fetch'[v], db')
  BY <1>1, <1>2, <1>3, FetchStays
<1>6. \A k \in DOMAIN served' : ServedOK(k, db')
  BY <1>1, <1>2, ServedStays
<1>7. CurrentCountExact'
  <2>1. ASSUME NEW s \in DOMAIN db'.subs, db'.subs[s].type = "file"
        PROVE  db'.subs[s].current = Count(served, <<s, db'.subs[s].revision>>)
    <3>1. s \in DOMAIN db.subs /\ db.subs[s].type = "file"
              => db.subs[s].current = Count(served, <<s, db.subs[s].revision>>)
      BY DEF DInv, CurrentCountExact, IsFileSub
    <3> QED BY <1>1, <1>2, <2>1, <3>1, CountsStay
  <2> QED BY <2>1 DEF CurrentCountExact, IsFileSub
<1> QED BY <1>2, <1>4, <1>5, <1>6, <1>7 DEF DInv

----------------------------------------------------------------------------
(* The steps of the downloads.                                             *)

(* One download moves on, and the tables are left alone.                   *)
LEMMA FetchMoves ==
    ASSUME DInv, NEW v \in Visitors, NEW q \in FetchRow, FetchOK(q, db),
           fetch' = [fetch EXCEPT ![v] = q], UNCHANGED <<vars, served>>
    PROVE  DInv'
<1>1. /\ fetch \in [Visitors -> FetchRow]
      /\ \A w \in Visitors : FetchOK(fetch[w], db)
  BY DEF DInv, DTypeOK
<1>2. UNCHANGED <<db, blobs, temps, fileMu, req, up>>
  BY DEF vars
<1>3. fetch' \in [Visitors -> FetchRow] /\ \A w \in Visitors : FetchOK(fetch'[w], db')
  BY <1>1, <1>2
<1>4. SInv'
  BY SInvStep DEF DInv
<1>5. DTypeOK'
  BY <1>3, <1>4 DEF DInv, DTypeOK, SInv, IInv
<1>6. CurrentCountExact' /\ CurrentInHistory(db') /\ AddsUp(db') /\ \A k \in DOMAIN served' : ServedOK(k, db')
  BY <1>2 DEF DInv, CurrentCountExact
<1> QED BY <1>3, <1>4, <1>5, <1>6 DEF DInv

LEMMA FetchFacts ==
    ASSUME DInv, NEW v \in Visitors
    PROVE  /\ fetch[v] \in FetchRow /\ FetchOK(fetch[v], db)
           /\ SInv /\ IInv /\ Tables(db) /\ Consistent(db)
BY DEF DInv, DTypeOK, SInv, IInv, TypeOK

LEMMA BeginFetchStep ==
    ASSUME DInv, NEW v \in Visitors, NEW p \in Paths, NEW h \in BOOLEAN, BeginFetch(v, p, h)
    PROVE  DInv'
<1>1. PICK s \in DOMAIN db.subs :
          /\ db.subs[s].type = "file" => db.subs[s].file # NoFile
          /\ fetch' = [fetch EXCEPT ![v] =
                 [pc |-> IF db.subs[s].type = "file" THEN "lookup" ELSE "record",
                  head |-> h, sub |-> s, revision |-> db.subs[s].revision,
                  file |-> db.subs[s].file, content |-> None]]
          /\ UNCHANGED <<vars, served>>
  BY DEF BeginFetch, Servable, SubsAt
<1> DEFINE row == db.subs[s]
           q == [pc |-> IF row.type = "file" THEN "lookup" ELSE "record",
                 head |-> h, sub |-> s, revision |-> row.revision,
                 file |-> row.file, content |-> None]
<1>2. Tables(db) /\ Consistent(db)
  BY FetchFacts
<1>3. /\ row.revision \in Nat /\ row.file \in Nat /\ s \in Nat
      /\ row.type \in {"text", "file"}
  BY <1>2, RevisionIsNat, SubRowOf DEF Tables, SubRow
<1>4. s \in 1 .. db.subSeq /\ (row.type = "text" => row.file = NoFile)
  BY <1>2 DEF Consistent, IdsBelowSequence, TextHasNoFile
<1>5. q \in FetchRow
  BY <1>3 DEF FetchRow
<1>6. FetchOK(q, db)
  BY <1>1, <1>3, <1>4 DEF FetchOK
<1>7. fetch' = [fetch EXCEPT ![v] = q] /\ UNCHANGED <<vars, served>>
  BY <1>1
<1> HIDE DEF q
<1> QED BY <1>5, <1>6, <1>7, FetchMoves

LEMMA EndFetchStep ==
    ASSUME DInv, NEW v \in Visitors, FetchEnd(v), UNCHANGED <<vars, served>>
    PROVE  DInv'
<1>1. NoFetch \in FetchRow /\ FetchOK(NoFetch, db)
  BY DEF NoFetch, FetchRow, FetchOK, NoFile
<1> QED BY <1>1, FetchMoves DEF FetchEnd

LEMMA LookupFileStep == ASSUME DInv, NEW v \in Visitors, LookupFile(v) PROVE DInv'
<1> DEFINE q == fetch[v]
           found == [q EXCEPT !.pc = "open", !.content = db.files[q.file].content]
           gone == [q EXCEPT !.pc = "missed"]
<1>1. q \in FetchRow /\ FetchOK(q, db) /\ Tables(db) /\ Consistent(db)
  BY FetchFacts
<1>2. q.pc = "lookup" /\ UNCHANGED <<vars, served>>
  BY DEF LookupFile, FetchAt
<1>3. CASE q.file \in DOMAIN db.files
  <2>1. fetch' = [fetch EXCEPT ![v] = found]
    BY <1>3 DEF LookupFile
  <2>2. db.files[q.file].content \in Contents
    BY <1>1, <1>3 DEF Tables, FileRow
  <2>3. found \in FetchRow
    BY <1>1, <2>2 DEF FetchRow
  <2>4. /\ found.pc = "open" /\ found.content = db.files[q.file].content
        /\ found.sub = q.sub /\ found.revision = q.revision
        /\ found.file = q.file
    BY <1>1 DEF FetchRow
  <2> HIDE DEF q, found
  <2>5. FetchOK(found, db)
    BY <1>1, <1>2, <2>4 DEF FetchOK
  <2> QED BY <1>2, <2>1, <2>3, <2>5, FetchMoves
<1>4. CASE q.file \notin DOMAIN db.files
  <2>1. fetch' = [fetch EXCEPT ![v] = gone]
    BY <1>4 DEF LookupFile, FetchGoto
  <2>2. gone \in FetchRow
    BY <1>1 DEF FetchRow
  <2>3. /\ gone.pc = "missed" /\ gone.sub = q.sub /\ gone.revision = q.revision
        /\ gone.file = q.file
    BY <1>1 DEF FetchRow
  <2> HIDE DEF q, gone
  <2>4. q.sub \in DOMAIN db.subs => db.subs[q.sub].file \in DOMAIN db.files \cup {NoFile}
    BY <1>1 DEF Consistent, ReferencesResolve
  <2>5. FetchOK(gone, db)
    BY <1>1, <1>2, <1>4, <2>3, <2>4 DEF FetchOK
  <2> QED BY <1>2, <2>1, <2>2, <2>5, FetchMoves
<1> QED BY <1>3, <1>4

LEMMA OpenBlobStep == ASSUME DInv, NEW v \in Visitors, OpenBlob(v) PROVE DInv'
<1> DEFINE q == fetch[v]
           pc == IF q.content \notin blobs THEN "missed"
                 ELSE IF q.head THEN "send" ELSE "record"
           next == [q EXCEPT !.pc = pc]
<1>1. q \in FetchRow /\ FetchOK(q, db) /\ IInv /\ Tables(db) /\ Consistent(db)
  BY FetchFacts
<1>2. q.pc = "open" /\ UNCHANGED <<vars, served>> /\ fetch' = [fetch EXCEPT ![v] = next]
  BY DEF OpenBlob, FetchAt, FetchGoto
<1>3. next \in FetchRow
  BY <1>1 DEF FetchRow
<1>4. /\ next.pc = pc /\ next.sub = q.sub /\ next.revision = q.revision
      /\ next.file = q.file
  BY <1>1 DEF FetchRow
<1>5. /\ pc = "missed" => q.content \notin blobs
      /\ pc # "open" /\ pc # "idle"
  OBVIOUS
<1> HIDE DEF q, pc, next
<1>6. ASSUME q.sub \in DOMAIN db.subs, db.subs[q.sub].type = "file",
             q.revision = db.subs[q.sub].revision
      PROVE  pc # "missed"
  <2>1. /\ q.file = db.subs[q.sub].file /\ q.file # NoFile
        /\ q.content = db.files[q.file].content
    BY <1>1, <1>2, <1>6 DEF FetchOK
  <2>2. q.file \in DOMAIN db.files
    BY <1>1, <1>6, <2>1 DEF Consistent, ReferencesResolve
  <2> QED BY <1>1, <1>5, <2>1, <2>2 DEF IInv, RowHasBlob
<1>7. FetchOK(next, db)
  BY <1>1, <1>2, <1>4, <1>5, <1>6 DEF FetchOK
<1> QED BY <1>2, <1>3, <1>7, FetchMoves

----------------------------------------------------------------------------
(* The steps that write counters and logs.                                 *)

(* Counting an access disturbs nothing the administrators' requests know.  *)
LEMMA TalliedSInv ==
    ASSUME SInv, Tallies(db, db'), UNCHANGED <<blobs, temps, fileMu, req, up>>
    PROVE  SInv'
<1>1. IInv /\ Tables(db) /\ Tables(db') /\ Consistent(db) /\ Consistent(db')
  BY DEF SInv, IInv, TypeOK, Tallies
<1>2. /\ db'.fileSeq = db.fileSeq /\ db'.subSeq = db.subSeq
      /\ DOMAIN db'.files = DOMAIN db.files /\ DOMAIN db'.subs = DOMAIN db.subs
      /\ \A f \in DOMAIN db.files : db'.files[f].content = db.files[f].content
      /\ \A s \in DOMAIN db.subs : db'.subs[s].type = db.subs[s].type
  BY DEF Tallies
<1>3. TypeOK' /\ RowHasBlob' /\ Mutex' /\ StoppedIsIdle'
  BY <1>1, <1>2 DEF IInv, TypeOK, RowHasBlob, Mutex, StoppedIsIdle
<1>4. FileIdsBelow' /\ ContentsUnique(db')
  BY <1>1 DEF Consistent, IdsBelowSequence, FileIdsBelow
<1>5. ASSUME NEW r \in Requests PROVE RequestOK(req'[r], db', blobs')
  <2>1. \A c : FilesWith(db', c) = FilesWith(db, c)
    BY <1>2 DEF FilesWith
  <2>2. RequestOK(req[r], db, blobs)
    BY <1>1 DEF IInv
  <2>3. req'[r] = req[r] /\ blobs' = blobs
    OBVIOUS
  <2> QED BY <1>2, <2>1, <2>2, <2>3 DEF RequestOK
<1>6. ASSUME NEW r \in Requests PROVE KeepsSub(req'[r], db')
  BY <1>2 DEF SInv, KeepsSub, IsFileSub
<1>7. NoStrayUpload'
  BY DEF SInv, NoStrayUpload
<1> QED BY <1>1, <1>3, <1>4, <1>5, <1>6, <1>7 DEF SInv, IInv

LEMMA CountPut ==
    ASSUME NEW f, NEW k, NEW j, NEW n, n = Count(f, k) + 1
    PROVE  Count(Put(f, k, n), j) = IF j = k THEN Count(f, k) + 1 ELSE Count(f, j)
BY DEF Count, Put

(* What a recorded access changes.                                         *)
LEMMA RecordEffect ==
    ASSUME DInv, NEW v \in Visitors, Record(v)
    PROVE  LET q == fetch[v]
               now == IF CountsAsCurrent(db.subs[q.sub], q.file, q.revision) THEN 1 ELSE 0
           IN  /\ q.sub \in DOMAIN db.subs /\ q.pc = "record"
               /\ Tallies(db, db') /\ CurrentInHistory(db') /\ AddsUp(db')
               /\ db'.subs[q.sub].current = db.subs[q.sub].current + now
               /\ \A s \in DOMAIN db.subs \ {q.sub} : db'.subs[s] = db.subs[s]
<1> DEFINE q == fetch[v]
           s == q.sub
           f == q.file
           loaded == q.revision
           now == IF CountsAsCurrent(db.subs[s], f, loaded) THEN 1 ELSE 0
<1>1. /\ q.pc = "record" /\ CanRecordAccess(db, s, f)
      /\ db' = RecordAccess(db, s, f, loaded) /\ Tables(db)
      /\ CurrentInHistory(db) /\ AddsUp(db)
  BY FetchFacts DEF Record, FetchAt, DInv
<1>2. s \in DOMAIN db.subs /\ f \in DOMAIN db.files \cup {NoFile}
  BY <1>1 DEF CanRecordAccess
<1>3. now = IF CountsAsCurrent(db.subs[s], f, loaded) THEN 1 ELSE 0
  OBVIOUS
<1> HIDE DEF q, s, f, loaded, now
<1>4. Tallies(db, db') /\ CurrentInHistory(db') /\ AddsUp(db')
  BY <1>1, RecordAccessTallies, RecordAccessInHistory, RecordAccessAddsUp
<1>5. /\ db'.subs[s].current = db.subs[s].current + now
      /\ \A t \in DOMAIN db.subs \ {s} : db'.subs[t] = db.subs[t]
  BY <1>1, <1>2, <1>3, RecordAccessEffect
<1> QED BY <1>1, <1>2, <1>4, <1>5 DEF q, s, f, loaded, now

LEMMA RecordStep == ASSUME DInv, NEW v \in Visitors, Record(v) PROVE DInv'
<1> DEFINE q == fetch[v]
           s == q.sub
           key == <<s, q.revision>>
           one == IF CountsAsCurrent(db.subs[s], q.file, q.revision) THEN 1 ELSE 0
           sent == [q EXCEPT !.pc = "send"]
<1>1. /\ q \in FetchRow /\ FetchOK(q, db) /\ SInv /\ Tables(db) /\ Consistent(db)
      /\ fetch \in [Visitors -> FetchRow]
      /\ served \in [DOMAIN served -> Nat] /\ DOMAIN served \subseteq Nat \X Nat
      /\ \A w \in Visitors : FetchOK(fetch[w], db)
      /\ \A k \in DOMAIN served : ServedOK(k, db)
  BY FetchFacts DEF DInv, DTypeOK
<1>2. /\ s \in DOMAIN db.subs /\ q.pc = "record"
      /\ Tallies(db, db') /\ CurrentInHistory(db') /\ AddsUp(db')
      /\ db'.subs[s].current = db.subs[s].current + one
      /\ \A t \in DOMAIN db.subs \ {s} : db'.subs[t] = db.subs[t]
  BY RecordEffect
<1>3. /\ served' = Put(served, key, Count(served, key) + 1)
      /\ fetch' = [fetch EXCEPT ![v] = sent]
      /\ UNCHANGED <<blobs, temps, fileMu, req, up>>
  BY DEF Record, FetchGoto
<1>4. /\ SInv' /\ Tables(db') /\ Consistent(db') /\ Follows(db, db')
      /\ DOMAIN db'.subs = DOMAIN db.subs
      /\ \A t \in DOMAIN db.subs : /\ db'.subs[t].type = db.subs[t].type
                                   /\ db'.subs[t].revision = db.subs[t].revision
  BY <1>1, <1>2, <1>3, TalliedSInv, TalliedFollows DEF Tallies
<1>5. key \in Nat \X Nat /\ key[1] = s /\ key[2] = q.revision
  BY <1>1 DEF FetchRow
<1>6. /\ sent \in FetchRow /\ sent.pc = "send" /\ sent.sub = q.sub
      /\ sent.revision = q.revision /\ sent.file = q.file
  BY <1>1 DEF FetchRow
<1>7. IsFileSub(db, s) /\ q.revision = db.subs[s].revision => one = 1
  BY <1>1, <1>2 DEF FetchOK, CountsAsCurrent, IsFileSub
<1>8. IsFileSub(db, s) /\ q.revision # db.subs[s].revision => one = 0
  BY DEF CountsAsCurrent
<1>9. ServedOK(key, db)
  <2>1. s \in 1 .. db.subSeq
    BY <1>1, <1>2 DEF Consistent, IdsBelowSequence
  <2>2. q.revision <= db.subs[s].revision
    BY <1>1, <1>2 DEF FetchOK
  <2> HIDE DEF key, s
  <2> QED BY <1>5, <2>1, <2>2 DEF ServedOK
<1>10. FetchOK(sent, db)
  <2> HIDE DEF sent
  <2> QED BY <1>1, <1>2, <1>6 DEF FetchOK
<1>11. DOMAIN served' = DOMAIN served \cup {key} /\ served' \in [DOMAIN served' -> Nat]
  <2> HIDE DEF key
  <2> QED BY <1>1, <1>3, <1>5, PutCount
<1> HIDE DEF sent, one, key
<1>12. fetch' \in [Visitors -> FetchRow] /\ \A w \in Visitors : FetchOK(fetch'[w], db')
  <2>1. \A w \in Visitors : fetch'[w] \in FetchRow /\ FetchOK(fetch'[w], db)
    BY <1>1, <1>3, <1>6, <1>10
  <2>2. fetch' \in [Visitors -> FetchRow]
    BY <1>1, <1>3, <1>6
  <2> HIDE DEF q, s
  <2> QED BY <1>1, <1>4, <2>1, <2>2, FetchStays
<1>13. \A k \in DOMAIN served' : ServedOK(k, db')
  BY <1>1, <1>4, <1>5, <1>9, <1>11, ServedStays
<1>14. DTypeOK'
  BY <1>1, <1>4, <1>5, <1>11, <1>12 DEF DTypeOK, SInv, IInv
<1>15. CurrentCountExact'
  <2>1. ASSUME NEW t \in DOMAIN db.subs, IsFileSub(db, t)
        PROVE  db'.subs[t].current = Count(served', <<t, db'.subs[t].revision>>)
    <3>1. db.subs[t].current = Count(served, <<t, db.subs[t].revision>>)
      BY <2>1 DEF DInv, CurrentCountExact
    <3>2. db'.subs[t].revision = db.subs[t].revision
      BY <1>4
    <3>3. <<t, db.subs[t].revision>> = key <=> t = s /\ q.revision = db.subs[t].revision
      BY DEF key
    <3>4. Count(served', <<t, db.subs[t].revision>>)
              = IF t = s /\ q.revision = db.subs[t].revision
                THEN Count(served, key) + 1 ELSE Count(served, <<t, db.subs[t].revision>>)
      BY <1>3, <3>3, CountPut
    <3>5. db.subs[t].current \in Nat
      BY <1>1, RevisionIsNat
    <3>6. CASE t # s
      BY <1>2, <3>1, <3>2, <3>4, <3>6
    <3>7. CASE t = s /\ q.revision = db.subs[s].revision
      BY <1>2, <1>7, <2>1, <3>1, <3>2, <3>3, <3>4, <3>7
    <3>8. CASE t = s /\ q.revision # db.subs[s].revision
      BY <1>2, <1>8, <2>1, <3>1, <3>2, <3>4, <3>5, <3>8
    <3> QED BY <3>6, <3>7, <3>8
  <2> QED BY <1>4, <2>1 DEF CurrentCountExact, IsFileSub
<1> QED BY <1>2, <1>4, <1>12, <1>13, <1>14, <1>15 DEF DInv

LEMMA ClearLogsStep == ASSUME DInv, NEW s, ClearLogs(s) PROVE DInv'
<1>1. /\ DTypeOK /\ SInv /\ Tables(db) /\ Consistent(db)
      /\ fetch \in [Visitors -> FetchRow] /\ DOMAIN served \subseteq Nat \X Nat
      /\ \A v \in Visitors : FetchOK(fetch[v], db)
      /\ \A k \in DOMAIN served : ServedOK(k, db)
  BY DEF DInv, DTypeOK, SInv, IInv, TypeOK
<1>2. /\ db' = ClearAccessLogs(db, s)
      /\ UNCHANGED <<blobs, temps, fileMu, req, up, fetch, served>>
  BY DEF ClearLogs
<1>3. /\ Tallies(db, db') /\ db'.subs = db.subs
      /\ CurrentInHistory(db') /\ AddsUp(db')
  BY <1>1, <1>2, ClearAccessLogsTallies, ClearAccessLogsInHistory, ClearAccessLogsAddsUp
     DEF DInv
<1>4. SInv' /\ Tables(db') /\ Consistent(db') /\ Follows(db, db')
  BY <1>1, <1>2, <1>3, TalliedSInv, TalliedFollows DEF Tallies
<1>5. DTypeOK'
  BY <1>1, <1>2, <1>4 DEF DTypeOK, SInv, IInv
<1>6. /\ \A v \in Visitors : FetchOK(fetch'[v], db')
      /\ \A k \in DOMAIN served' : ServedOK(k, db')
  BY <1>1, <1>2, <1>4, FetchStays, ServedStays
<1>7. CurrentCountExact'
  BY <1>2, <1>3 DEF DInv, CurrentCountExact, IsFileSub
<1> QED BY <1>3, <1>4, <1>5, <1>6, <1>7 DEF DInv

LEMMA DInvInit == DInit => DInv
<1> SUFFICES ASSUME DInit PROVE DInv
  OBVIOUS
<1>1. SInv /\ TypeOK
  BY SInvInit DEF DInit, SInv, IInv
<1>2. NoFetch \in FetchRow /\ FetchOK(NoFetch, db)
  BY DEF NoFetch, FetchRow, FetchOK, NoFile
<1>3. DOMAIN served = {} /\ served = [x \in {} |-> x]
  BY DEF DInit, Empty
<1>4. DOMAIN db.subs = {}
  BY DEF DInit, Init, EmptyDB, Empty
<1>5. AddsUp(db)
  BY EmptyAddsUp DEF DInit, Init
<1> QED BY <1>1, <1>2, <1>3, <1>4, <1>5
        DEF DInit, DInv, DTypeOK, CurrentCountExact, CurrentInHistory

LEMMA DInvStep == DInv /\ [DNext]_allVars => DInv'
<1> SUFFICES ASSUME DInv, [DNext]_allVars PROVE DInv'
  OBVIOUS
<1>1. ASSUME NEW v \in Visitors, ServeStep(v) PROVE DInv'
  BY <1>1, LookupFileStep, OpenBlobStep, RecordStep, EndFetchStep
     DEF ServeStep, AbandonFetch, Send
<1>2. CASE Admin /\ UNCHANGED dvars
  BY <1>2, DAdminStep DEF Next, dvars
<1>3. CASE Crash /\ fetch' = [v \in Visitors |-> NoFetch] /\ UNCHANGED served
  BY <1>3, DAdminStep DEF Next
<1>4. CASE UNCHANGED allVars
  BY <1>4, DAdminStep DEF allVars, dvars, vars
<1> QED BY <1>1, <1>2, <1>3, <1>4, BeginFetchStep, ClearLogsStep DEF DNext

LEMMA DInvariance == DSpec => []DInv
BY DInvInit, DInvStep, PTL DEF DSpec

----------------------------------------------------------------------------
(* The theorems.                                                           *)

(* Every variable keeps its type with downloads and administrators at work *)
(* at once.                                                                *)
THEOREM DownloadsTypeCorrect == DSpec => []DTypeOK
<1>1. DInv => DTypeOK
  BY DEF DInv
<1> QED BY <1>1, DInvariance, PTL

(* "Fetches since the last update" is exact: an access recorded late, for  *)
(* a revision that has been replaced, is not in it, and none of the current*)
(* revision is missing (RecordAccess's guarded UPDATE, store.go:598).      *)
THEOREM CurrentCountIsExact == DSpec => []CurrentCountExact
<1>1. DInv => CurrentCountExact
  BY DEF DInv
<1> QED BY <1>1, DInvariance, PTL

(* The four counters of an access move together: RecordAccess raises all   *)
(* of them in one transaction, and what deleting and clearing takes away or*)
(* files under no file (store.go:210-243) leaves none of them short.       *)
THEOREM CountersStayInAgreement == DSpec => []CountersAgree
<1>1. DInv => CountersAgree
  BY DEF DInv, AddsUp, CountersAgree
<1> QED BY <1>1, DInvariance, PTL

(* Nobody is turned away from a file in use: while the revision a download *)
(* loaded is current, the rows, the blob and the statement it still needs  *)
(* are there, though it holds no lock (publicFileSubscription).            *)
THEOREM CurrentFetchesSucceed == DSpec => []CurrentFetchSucceeds
<1>1. ASSUME DInv PROVE CurrentFetchSucceeds
  <2>1. IInv /\ Consistent(db)
    BY <1>1 DEF DInv, SInv
  <2>2. ASSUME NEW v \in Visitors,
               fetch[v].pc \in {"lookup", "open", "record", "missed"},
               fetch[v].sub \in DOMAIN db.subs,
               db.subs[fetch[v].sub].revision = fetch[v].revision,
               IsFileSub(db, fetch[v].sub)
        PROVE  /\ fetch[v].pc # "missed"
               /\ db.subs[fetch[v].sub].file = fetch[v].file
               /\ fetch[v].file \in DOMAIN db.files
               /\ db.files[fetch[v].file].content \in blobs
    <3> DEFINE q == fetch[v]
    <3>1. FetchOK(q, db)
      BY <1>1 DEF DInv
    <3>2. q.file # NoFile /\ q.file = db.subs[q.sub].file /\ q.pc # "missed"
      BY <2>2, <3>1 DEF FetchOK, IsFileSub
    <3>3. q.file \in DOMAIN db.files
      BY <2>1, <2>2, <3>2 DEF Consistent, ReferencesResolve
    <3> QED BY <2>1, <3>2, <3>3 DEF IInv, RowHasBlob
  <2> QED BY <2>2 DEF CurrentFetchSucceeds
<1> QED BY <1>1, DInvariance, PTL

(* No access recorded next to a deletion leaves statistics or logs of rows *)
(* that are gone (the foreign keys behind RecordAccess).                   *)
THEOREM RecordedRowsResolve == DSpec => []NoDanglingRow
<1>1. DInv => NoDanglingRow
  BY DEF DInv, SInv, Consistent, NoDanglingRow
<1> QED BY <1>1, DInvariance, PTL

(* How a step of Downloads may change the rows of subscriptions.           *)
LEMMA DStepMoves ==
    ASSUME DInv, [DNext]_allVars, NEW s \in DOMAIN db.subs \cap DOMAIN db'.subs,
           db'.subs[s].file = db.subs[s].file, db.subs[s].file # NoFile
    PROVE  db'.subs[s].current >= db.subs[s].current
<1>1. /\ SInv /\ Tables(db) /\ db.subs[s].current \in Nat
      /\ DOMAIN db.subs \subseteq 1 .. db.subSeq /\ db.subSeq \in Nat
  BY RevisionIsNat DEF DInv, SInv, IInv, TypeOK, Consistent, IdsBelowSequence, Tables
<1>2. db'.subs = db.subs => db'.subs[s].current >= db.subs[s].current
  BY <1>1
<1>3. ASSUME [Next]_vars PROVE db'.subs[s].current >= db.subs[s].current
  <2>1. Evolves(db, db')
    BY <1>1, <1>3, AdminFollows
  <2>2. Moves(db.subs[s], db'.subs[s])
    BY <1>1, <2>1 DEF Evolves
  <2>3. db'.subs[s].current = db.subs[s].current
    BY <2>2 DEF Moves
  <2> QED BY <1>1, <2>3
<1>4. ASSUME NEW v \in Visitors, Record(v)
      PROVE  db'.subs[s].current >= db.subs[s].current
  <2> DEFINE q == fetch[v]
             one == IF CountsAsCurrent(db.subs[q.sub], q.file, q.revision) THEN 1 ELSE 0
  <2>1. /\ db'.subs[q.sub].current = db.subs[q.sub].current + one
        /\ \A t \in DOMAIN db.subs \ {q.sub} : db'.subs[t] = db.subs[t]
    BY <1>4, RecordEffect
  <2>2. one \in {0, 1}
    OBVIOUS
  <2> HIDE DEF q, one
  <2> QED BY <1>1, <2>1, <2>2
<1>5. ASSUME NEW t, ClearLogs(t) PROVE db'.subs = db.subs
  BY <1>1, <1>5, ClearAccessLogsTallies DEF ClearLogs
<1>6. ASSUME NEW v \in Visitors, ServeStep(v)
      PROVE  db'.subs[s].current >= db.subs[s].current
  BY <1>2, <1>4, <1>6 DEF ServeStep, LookupFile, OpenBlob, AbandonFetch, Send, vars
<1>7. ASSUME NEW v \in Visitors, NEW p \in Paths, NEW h \in BOOLEAN, BeginFetch(v, p, h)
      PROVE  db'.subs = db.subs
  BY <1>7 DEF BeginFetch, vars
<1>8. Admin \/ Crash \/ UNCHANGED allVars => [Next]_vars
  BY DEF Next, allVars
<1> QED BY <1>2, <1>3, <1>5, <1>6, <1>7, <1>8 DEF DNext

(* A step that leaves a subscription its file leaves it its count of       *)
(* fetches, too, uploads of the content it already has included            *)
(* (ReplaceSubscriptionFile, ReplaceFileAssociations, README.md:48).       *)
THEOREM SameFileKeepsItsCount == DSpec => SameFileKeepsCount
<1>1. DInv /\ [DNext]_allVars =>
          \A s \in DOMAIN db.subs \cap DOMAIN db'.subs :
              /\ db.subs[s].file # NoFile
              /\ db'.subs[s].file = db.subs[s].file
              => db'.subs[s].current >= db.subs[s].current
  BY DStepMoves
<1>2. DInv /\ [DNext]_allVars =>
          [\A s \in DOMAIN db.subs \cap DOMAIN db'.subs :
              /\ db.subs[s].file # NoFile
              /\ db'.subs[s].file = db.subs[s].file
              => db'.subs[s].current >= db.subs[s].current]_allVars
  BY <1>1
<1> QED BY <1>2, DInvariance, PTL DEF DSpec, SameFileKeepsCount

----------------------------------------------------------------------------
(* Downloads implements Library as well: visitors only look.               *)

LEMMA TalliesInvisible ==
    ASSUME SInv, SInv', Tallies(db, db')
    PROVE  UNCHANGED Lib!vars
<1>1. ListedOf(db') = ListedOf(db)
  BY DEF Tallies, ListedOf
<1>2. ServesOf(db') = ServesOf(db)
  <2>1. \A s \in DOMAIN db.subs : LinkOf(db', db'.subs[s].file) = LinkOf(db, db.subs[s].file)
    BY DEF Tallies, LinkOf
  <2> QED BY <2>1 DEF Tallies, ServesOf
<1> QED BY <1>1, <1>2, Mapped, MappedNext DEF Lib!vars

LEMMA DLibraryStep ==
    ASSUME DInv, DInv', [DNext]_allVars
    PROVE  [Lib!Next]_(Lib!vars)
<1>1. SInv /\ SInv' /\ Tables(db)
  BY DEF DInv, SInv, IInv, TypeOK
<1>2. ASSUME [Next]_vars PROVE [Lib!Next]_(Lib!vars)
  BY <1>1, <1>2, LibraryStep
<1>3. ASSUME NEW v \in Visitors, ServeStep(v) PROVE [Lib!Next]_(Lib!vars)
  <2>1. CASE Record(v)
    BY <1>1, <2>1, RecordEffect, TalliesInvisible
  <2> QED BY <1>2, <1>3, <2>1 DEF ServeStep, LookupFile, OpenBlob, AbandonFetch, Send
<1>4. ASSUME NEW s, ClearLogs(s) PROVE [Lib!Next]_(Lib!vars)
  BY <1>1, <1>4, ClearAccessLogsTallies, TalliesInvisible DEF ClearLogs
<1>5. ASSUME NEW v \in Visitors, NEW p \in Paths, NEW h \in BOOLEAN, BeginFetch(v, p, h)
      PROVE  [Next]_vars
  BY <1>5 DEF BeginFetch
<1>6. Admin \/ Crash \/ UNCHANGED allVars => [Next]_vars
  BY DEF Next, allVars
<1> QED BY <1>2, <1>3, <1>4, <1>5, <1>6 DEF DNext

(* What subscribers are offered changes by the atomic steps of Library     *)
(* only: serving and counting downloads next to the administrators'        *)
(* requests shows in no link and in no listed file (RecordAccess writes    *)
(* counters, publicFileSubscription nothing else).                         *)
THEOREM DownloadsRefineLibrary == DSpec => ImplementsLibrary
<1>1. DInit => Lib!Init
  BY LibraryInit DEF DInit
<1>2. DInv /\ DInv' /\ [DNext]_allVars => [Lib!Next]_(Lib!vars)
  BY DLibraryStep
<1> QED BY <1>1, <1>2, DInvariance, PTL DEF DSpec, ImplementsLibrary, Lib!Spec
=============================================================================
