-------------------------- MODULE AccessLogProofs --------------------------
(***************************************************************************)
(* The access log for any number of rows, any page size and retention      *)
(* period, any clock and all nine digits of a fraction.                    *)
(*                                                                         *)
(* A row's place in the listing is the number of rows ahead of it.  The    *)
(* clean-up, which compares the same texts as the listing, never removes a *)
(* row ahead of one it keeps, so a row that stays never moves towards the  *)
(* pages already shown.                                                    *)
(***************************************************************************)
EXTENDS AccessLog, FiniteSetTheorems, WellFoundedInduction, TLAPS

(* What can be relied on of the texts of time stamps: they are in a strict *)
(* order, and it is the order in time except within a second.              *)

(* Trailing zeros can be dropped: there is a last digit that is not zero,  *)
(* or none at all.                                                         *)
LEMMA KeptType == ASSUME NEW f \in Fractions PROVE Kept(f) \in 0 .. Places
<1> DEFINE Zeros(n) == \A i \in n + 1 .. Places : f[i] = 0
           Ends == {n \in Nat : Zeros(n)}
           Less == OpToRel(<, Nat)
<1>1. Places \in Nat /\ \A i \in 1 .. Places : f[i] \in Int
  BY TimesAssumption DEF Fractions
<1>2. Places \in Ends
  BY <1>1
<1>3. PICK n \in Ends : \A k \in Ends : ~(<<k, n>> \in Less)
  <2>1. IsWellFoundedOn(Less, Nat)
    BY NatLessThanWellFounded
  <2>2. Ends \subseteq Nat /\ Ends # {}
    BY <1>2
  <2> HIDE DEF Ends, Less
  <2> QED
    BY <2>1, <2>2, WFMin
<1>4. \A k \in Ends : ~(k < n)
  <2>1. ASSUME NEW k \in Ends, k < n PROVE FALSE
    <3>1. <<k, n>> \in Less
      BY <2>1 DEF OpToRel
    <3> QED
      BY <1>3, <2>1, <3>1
  <2> QED
    BY <2>1
<1>5. n \in 0 .. Places
  BY <1>1, <1>2, <1>4
<1>6. n = 0 \/ f[n] # 0
  <2>1. ASSUME n # 0, f[n] = 0 PROVE FALSE
    <3>1. n \in Nat \ {0} /\ Zeros(n)
      BY <1>1, <1>3, <1>5, <2>1
    <3>2. n - 1 \in Nat /\ n - 1 < n
      BY <3>1
    <3>3. ASSUME NEW i \in (n - 1) + 1 .. Places PROVE f[i] = 0
      <4>1. i = n \/ i \in n + 1 .. Places
        BY <1>1, <3>1
      <4> QED
        BY <2>1, <3>1, <4>1
    <3>4. n - 1 \in Ends
      BY <3>2, <3>3
    <3> QED
      BY <1>4, <3>2, <3>4
  <2> QED
    BY <2>1
<1> QED
  BY <1>3, <1>5, <1>6 DEF Kept

LEMMA TextShape ==
  ASSUME NEW t \in Instants(Int)
  PROVE  /\ \E n \in Nat : DOMAIN Text(t) = 1 .. n + 2
         /\ \A i \in DOMAIN Text(t) : Text(t)[i] \in Int
         /\ 1 \in DOMAIN Text(t)
         /\ Text(t)[1] = t.s
<1> DEFINE n == Kept(t.f)
<1>1. t.s \in Int /\ t.f \in Fractions /\ Places \in Nat /\ Base \in Nat
  BY TimesAssumption DEF Instants
<1>2. n \in 0 .. Places
  BY <1>1, KeptType
<1> HIDE DEF n
<1>3. n \in Nat /\ \A i \in 1 .. n : t.f[i] \in Int
  BY <1>1, <1>2, TimesAssumption DEF Fractions
<1>4. Text(t) = [i \in 1 .. n + 2 |->
          IF i = 1 THEN t.s ELSE IF i = n + 2 THEN Base ELSE t.f[i - 1]]
  BY DEF Text, n
<1>5. ASSUME NEW i \in 1 .. n + 2 PROVE Text(t)[i] \in Int
  <2>1. CASE i = 1
    BY <1>1, <1>4, <2>1
  <2>2. CASE i = n + 2
    BY <1>1, <1>3, <1>4, <2>2
  <2>3. CASE i # 1 /\ i # n + 2
    <3>1. i - 1 \in 1 .. n /\ Text(t)[i] = t.f[i - 1]
      BY <1>3, <1>4, <2>3
    <3> QED
      BY <1>3, <3>1
  <2> QED
    BY <2>1, <2>2, <2>3
<1> QED
  BY <1>1, <1>3, <1>4, <1>5

(* Seconds decide first.                                                   *)
LEMMA SecondsFirst ==
  ASSUME NEW a \in Instants(Int), NEW b \in Instants(Int)
  PROVE  /\ a.s < b.s => Before(dbTime(a), dbTime(b))
         /\ Before(dbTime(a), dbTime(b)) => a.s <= b.s
<1> a.s \in Int /\ b.s \in Int
  BY DEF Instants
<1> DEFINE x == Text(a)
           y == Text(b)
<1>1. /\ 1 \in DOMAIN x /\ 1 \in DOMAIN y /\ x[1] = a.s /\ y[1] = b.s
      /\ \E n \in Nat : DOMAIN x = 1 .. n + 2
  BY TextShape
<1> HIDE DEF x, y
<1>2. a.s < b.s => Before(x, y)
  BY <1>1 DEF Before
<1>3. ASSUME Before(x, y) PROVE a.s <= b.s
  <2>1. PICK i \in DOMAIN x \cap DOMAIN y :
          x[i] < y[i] /\ \A j \in 1 .. i - 1 : x[j] = y[j]
    BY <1>3 DEF Before
  <2>2. CASE i = 1
    BY <1>1, <2>1, <2>2
  <2>3. CASE i # 1
    <3>1. 1 \in 1 .. i - 1
      BY <1>1, <2>3
    <3> QED
      BY <1>1, <2>1, <3>1
  <2> QED
    BY <2>2, <2>3
<1> QED
  BY <1>2, <1>3 DEF dbTime, x, y

LEMMA BeforeIrreflexive ==
  ASSUME NEW a \in Instants(Int)
  PROVE  ~Before(dbTime(a), dbTime(a))
<1> DEFINE x == Text(a)
<1>1. \A i \in DOMAIN x : x[i] \in Int
  BY TextShape
<1> HIDE DEF x
<1>2. ~Before(x, x)
  BY <1>1 DEF Before
<1> QED
  BY <1>2 DEF dbTime, x

LEMMA BeforeTransitive ==
  ASSUME NEW a \in Instants(Int), NEW b \in Instants(Int), NEW c \in Instants(Int),
         Before(dbTime(a), dbTime(b)), Before(dbTime(b), dbTime(c))
  PROVE  Before(dbTime(a), dbTime(c))
<1> DEFINE x == Text(a)
           y == Text(b)
           z == Text(c)
<1>1. PICK k \in Nat, m \in Nat, n \in Nat :
         DOMAIN x = 1 .. k + 2 /\ DOMAIN y = 1 .. m + 2 /\ DOMAIN z = 1 .. n + 2
  BY TextShape
<1>2. /\ \A i \in DOMAIN x : x[i] \in Int
      /\ \A i \in DOMAIN y : y[i] \in Int
      /\ \A i \in DOMAIN z : z[i] \in Int
  BY TextShape
<1>3. Before(x, y) /\ Before(y, z)
  BY DEF dbTime
<1> HIDE DEF x, y, z
<1>4. PICK i \in DOMAIN x \cap DOMAIN y :
         x[i] < y[i] /\ \A h \in 1 .. i - 1 : x[h] = y[h]
  BY <1>3 DEF Before
<1>5. PICK j \in DOMAIN y \cap DOMAIN z :
         y[j] < z[j] /\ \A h \in 1 .. j - 1 : y[h] = z[h]
  BY <1>3 DEF Before
<1>6. CASE i <= j
  <2>1. i \in DOMAIN x \cap DOMAIN z
    BY <1>1, <1>4, <1>5, <1>6
  <2>2. x[i] < z[i]
    BY <1>1, <1>2, <1>4, <1>5, <1>6
  <2>3. \A h \in 1 .. i - 1 : x[h] = z[h]
    BY <1>1, <1>4, <1>5, <1>6
  <2>4. Before(x, z)
    BY <2>1, <2>2, <2>3 DEF Before
  <2> QED
    BY <2>4 DEF dbTime, x, z
<1>7. CASE j < i
  <2>1. j \in DOMAIN x \cap DOMAIN z
    BY <1>1, <1>4, <1>5, <1>7
  <2>2. x[j] < z[j]
    BY <1>1, <1>2, <1>4, <1>5, <1>7
  <2>3. \A h \in 1 .. j - 1 : x[h] = z[h]
    BY <1>1, <1>4, <1>5, <1>7
  <2>4. Before(x, z)
    BY <2>1, <2>2, <2>3 DEF Before
  <2> QED
    BY <2>4 DEF dbTime, x, z
<1> QED
  BY <1>1, <1>4, <1>5, <1>6, <1>7

----------------------------------------------------------------------------
(* The inductive invariant.                                                *)

(* What is still to be shown is not on a page that was.                    *)
StillToCome ==
    walk.pc \in {"count", "list"} =>
        /\ walk.page > 0
        /\ \A i \in walk.unseen \cap DOMAIN log :
              Cardinality(Ahead(i)) >= (walk.page - 1) * PageSize

UnseenOld == walk.unseen \subseteq 1 .. seq

(* Nothing but what came later lies beyond the last page.                  *)
PagesCounted ==
    walk.pc = "list" => Cardinality(DOMAIN log) <= walk.pages * PageSize + walk.late

RunAsSaved == clean.pc = "delete" => clean.days = clean.saved

Shown == UnseenOld /\ StillToCome /\ PagesCounted /\ NothingSkipped

IInv == TypeOK /\ RunAsSaved /\ Shown

LEMMA Constants ==
  /\ PageSize \in Nat \ {0} /\ MaxLogs \in Nat /\ Day \in Nat
  /\ Retentions \subseteq Nat /\ Default \in Retentions
  /\ Instants(Seconds) \subseteq Instants(Int)
  BY AccessLogAssumption DEF Instants

LEMMA BetweenType ==
  ASSUME NEW pc \in {"load", "delete", "wait"}
  PROVE  Between(pc) \in CleanRow /\ Between(pc).pc = pc /\ Between(pc).days = Between(pc).saved
  BY Constants DEF Between, CleanRow

LEMMA NoWalkType == NoWalk \in WalkRow /\ NoWalk.pc = "idle"
  BY DEF NoWalk, WalkRow

LEMMA RowsFinite ==
  ASSUME NEW n \in Int, NEW T \in SUBSET (1 .. n)
  PROVE  /\ IsFiniteSet(T) /\ Cardinality(T) \in Nat
         /\ \A S \in SUBSET T :
               /\ IsFiniteSet(S) /\ Cardinality(S) \in Nat
               /\ Cardinality(S) <= Cardinality(T)
<1>1. IsFiniteSet(1 .. n)
  BY FS_Interval
<1>2. IsFiniteSet(T)
  BY <1>1, FS_Subset
<1> QED
  BY <1>2, FS_Subset, FS_CardinalityType

LEMMA LogFinite ==
  ASSUME TypeOK
  PROVE  /\ IsFiniteSet(DOMAIN log) /\ Cardinality(DOMAIN log) \in Nat
         /\ \A S \in SUBSET DOMAIN log :
               /\ IsFiniteSet(S) /\ Cardinality(S) \in Nat
               /\ Cardinality(S) <= Cardinality(DOMAIN log)
<1>1. seq \in Int /\ DOMAIN log \in SUBSET (1 .. seq)
  BY Constants DEF TypeOK
<1> QED
  BY <1>1, RowsFinite

LEMMA LogTimes ==
  ASSUME TypeOK
  PROVE  \A i \in DOMAIN log : log[i] \in Instants(Int) /\ i \in Nat
  BY Constants DEF TypeOK

----------------------------------------------------------------------------
(* The listing is a strict order.                                          *)

LEMMA ListedIrreflexive ==
  ASSUME TypeOK, NEW i \in DOMAIN log
  PROVE  ~ListedBefore(i, i)
  BY LogTimes, BeforeIrreflexive DEF ListedBefore

LEMMA ListedTransitive ==
  ASSUME TypeOK, NEW i \in DOMAIN log, NEW j \in DOMAIN log, NEW k \in DOMAIN log,
         ListedBefore(i, j), ListedBefore(j, k)
  PROVE  ListedBefore(i, k)
<1>1. /\ log[i] \in Instants(Int) /\ log[j] \in Instants(Int) /\ log[k] \in Instants(Int)
      /\ i \in Nat /\ j \in Nat /\ k \in Nat
  BY LogTimes
<1>2. CASE Before(dbTime(log[j]), dbTime(log[i])) /\ Before(dbTime(log[k]), dbTime(log[j]))
  BY <1>1, <1>2, BeforeTransitive DEF ListedBefore
<1>3. CASE ~Before(dbTime(log[j]), dbTime(log[i])) \/ ~Before(dbTime(log[k]), dbTime(log[j]))
  BY <1>1, <1>3 DEF ListedBefore
<1> QED
  BY <1>2, <1>3

(* Of some rows, one is listed first.                                      *)
LEMMA FirstOf ==
  ASSUME TypeOK, NEW S \in SUBSET DOMAIN log, S # {}
  PROVE  \E i \in S : Ahead(i) \cap S = {}
<1> DEFINE Rank(i) == Cardinality(Ahead(i))
           Ranks == {Rank(i) : i \in S}
           Less == OpToRel(<, Nat)
<1>1. \A i \in S : Ahead(i) \in SUBSET DOMAIN log
  BY DEF Ahead
<1>2. \A i \in S : Rank(i) \in Nat /\ IsFiniteSet(Ahead(i))
  BY <1>1, LogFinite
<1>3. PICK n \in Ranks : \A k \in Ranks : ~(<<k, n>> \in Less)
  <2>1. IsWellFoundedOn(Less, Nat)
    BY NatLessThanWellFounded
  <2>2. Ranks \subseteq Nat /\ Ranks # {}
    BY <1>2
  <2> HIDE DEF Ranks, Less
  <2> QED
    BY <2>1, <2>2, WFMin
<1>4. PICK i \in S : Rank(i) = n
  BY <1>3
<1>5. ASSUME NEW j \in Ahead(i) \cap S PROVE FALSE
  <2>1. Ahead(j) \subseteq Ahead(i)
    <3>1. ASSUME NEW k \in Ahead(j) PROVE k \in Ahead(i)
      BY <1>5, <3>1, ListedTransitive DEF Ahead
    <3> QED
      BY <3>1
  <2>2. j \in Ahead(i) /\ j \notin Ahead(j)
    BY <1>5, ListedIrreflexive DEF Ahead
  <2>3. Rank(j) <= Rank(i) /\ (Rank(j) = Rank(i) => Ahead(j) = Ahead(i))
    BY <1>2, <2>1, FS_Subset
  <2>4. Rank(j) < n /\ Rank(j) \in Ranks /\ Rank(j) \in Nat /\ n \in Nat
    BY <1>2, <1>4, <1>5, <2>2, <2>3
  <2>5. <<Rank(j), n>> \in Less
    BY <2>4 DEF OpToRel
  <2> QED
    BY <1>3, <2>4, <2>5
<1> QED
  BY <1>4, <1>5

----------------------------------------------------------------------------
(* Types.                                                                  *)

LEMMA InitTypeOK == Init => TypeOK
<1> SUFFICES ASSUME Init PROVE TypeOK
  OBVIOUS
<1>1. now \in Instants(Seconds) /\ seq \in 0 .. MaxLogs /\ retention \in Retentions
  BY Constants DEF Init
<1>2. log \in [DOMAIN log -> Instants(Seconds)] /\ DOMAIN log = {}
  BY DEF Init
<1>3. clean \in CleanRow /\ walk \in WalkRow
  BY BetweenType, NoWalkType DEF Init
<1> QED
  BY <1>1, <1>2, <1>3 DEF TypeOK

LEMMA RecordTypeOK == TypeOK /\ Record => TypeOK'
<1> SUFFICES ASSUME TypeOK, Record PROVE TypeOK'
  OBVIOUS
<1>1. seq \in 0 .. MaxLogs /\ MaxLogs \in Nat /\ seq' = seq + 1 /\ seq < MaxLogs
  BY Constants DEF TypeOK, Record
<1>2. seq' \in 0 .. MaxLogs
  BY <1>1
<1>3. DOMAIN log' = DOMAIN log \cup {seq + 1} /\ DOMAIN log \subseteq 1 .. seq
  BY DEF TypeOK, Record
<1>4. DOMAIN log' \subseteq 1 .. seq'
  BY <1>1, <1>3
<1>5. log' \in [DOMAIN log' -> Instants(Seconds)]
  BY DEF TypeOK, Record
<1>6. walk' \in WalkRow
  BY DEF TypeOK, Record, WalkRow
<1> QED
  BY <1>2, <1>4, <1>5, <1>6 DEF TypeOK, Record

LEMMA FewerRowsTypeOK ==
  ASSUME TypeOK, Clear \/ CleanupLogs
  PROVE  TypeOK'
<1>1. log' \in [DOMAIN log' -> Instants(Seconds)] /\ DOMAIN log' \subseteq DOMAIN log
  BY DEF TypeOK, Clear, CleanupLogs
<1>2. clean' \in CleanRow
  BY BetweenType DEF TypeOK, Clear, CleanupLogs
<1> QED
  BY <1>1, <1>2 DEF TypeOK, Clear, CleanupLogs

LEMMA LoopTypeOK ==
  ASSUME TypeOK, LoadSettings \/ FailCleanup \/ Ticker \/ Restart
  PROVE  TypeOK'
<1>1. clean' \in CleanRow
  BY BetweenType DEF TypeOK, LoadSettings, FailCleanup, Ticker, Restart, CleanRow
<1>2. walk' \in WalkRow
  BY NoWalkType DEF TypeOK, LoadSettings, FailCleanup, Ticker, Restart
<1> QED
  BY <1>1, <1>2 DEF TypeOK, LoadSettings, FailCleanup, Ticker, Restart

(* Rounded up, the pages hold all rows.                                    *)
LEMMA RoundUp ==
  ASSUME NEW a \in Nat, NEW p \in Nat \ {0}
  PROVE  /\ (a + p - 1) \div p \in Nat
         /\ a <= ((a + p - 1) \div p) * p
<1> DEFINE b == a + p - 1
           q == b \div p
           r == b % p
<1>1. b \in Nat
  OBVIOUS
<1>2. q \in Nat /\ r \in 0 .. p - 1
  BY <1>1
<1>3. b = p * q + r
  BY <1>1
<1> QED
  BY <1>2, <1>3

LEMMA ReaderTypeOK ==
  ASSUME TypeOK, OpenLog \/ CountLogs \/ ListLogs \/ CloseLog
  PROVE  TypeOK'
<1>1. DOMAIN log \subseteq Nat /\ walk \in WalkRow
  BY LogTimes DEF TypeOK
<1>2. CASE OpenLog
  BY <1>1, <1>2 DEF OpenLog, NoWalk, WalkRow, TypeOK
<1>3. CASE CountLogs
  <2> DEFINE pages == (Cardinality(DOMAIN log) + PageSize - 1) \div PageSize
  <2>1. pages \in Nat
    BY LogFinite, Constants, RoundUp
  <2>2. walk' = [walk EXCEPT !.pc = "list", !.pages = pages]
    BY <1>3 DEF CountLogs
  <2> HIDE DEF pages
  <2>3. walk' \in WalkRow
    BY <1>1, <2>1, <2>2 DEF WalkRow
  <2> QED
    BY <1>3, <2>3 DEF CountLogs, TypeOK
<1>4. CASE ListLogs
  <2> DEFINE left == walk.unseen \ Page(walk.page)
             more == [NoWalk EXCEPT !.pc = "count", !.page = walk.page + 1, !.unseen = left]
             end == [NoWalk EXCEPT !.pc = "end", !.unseen = left, !.late = walk.late]
  <2>1. left \in SUBSET Nat
    BY <1>1 DEF WalkRow
  <2>2. walk' = more \/ walk' = end
    BY <1>4 DEF ListLogs
  <2>3. walk.page + 1 \in Nat /\ walk.late \in Nat
    BY <1>1 DEF WalkRow
  <2>4. NoWalk \in WalkRow
    BY NoWalkType
  <2> HIDE DEF left
  <2>5. more \in WalkRow
    BY <2>1, <2>3, <2>4 DEF WalkRow
  <2>6. end \in WalkRow
    BY <2>1, <2>3, <2>4 DEF WalkRow
  <2> QED
    BY <1>4, <2>2, <2>5, <2>6 DEF ListLogs, TypeOK
<1>5. CASE CloseLog
  BY <1>5, NoWalkType DEF CloseLog, TypeOK
<1> QED
  BY <1>2, <1>3, <1>4, <1>5

LEMMA StepTypeOK == TypeOK /\ [Next]_vars => TypeOK'
<1> SUFFICES ASSUME TypeOK, [Next]_vars PROVE TypeOK'
  OBVIOUS
<1>1. CASE UNCHANGED vars
  BY <1>1 DEF TypeOK, vars
<1>2. CASE Clock \/ \E d \in Retentions : SaveRetention(d)
  BY <1>2 DEF TypeOK, Clock, SaveRetention
<1> QED
  BY <1>1, <1>2, RecordTypeOK, FewerRowsTypeOK, LoopTypeOK, ReaderTypeOK DEF Next

----------------------------------------------------------------------------
(* Nothing is skipped.                                                     *)

(* Whatever a step adds or removes, the rows ahead of one that stays do.   *)
LEMMA AheadStays ==
  ASSUME TypeOK, TypeOK', NEW i \in DOMAIN log \cap DOMAIN log',
         \A j \in DOMAIN log \cap DOMAIN log' : log'[j] = log[j],
         Ahead(i) \subseteq DOMAIN log'
  PROVE  Cardinality(Ahead(i)') >= Cardinality(Ahead(i)) /\ Cardinality(Ahead(i)') \in Nat
<1>1. Ahead(i) \subseteq Ahead(i)'
  BY DEF Ahead, ListedBefore
<1>2. Ahead(i)' \in SUBSET DOMAIN log'
  BY DEF Ahead
<1>3. seq' \in Int /\ DOMAIN log' \in SUBSET (1 .. seq')
  BY Constants DEF TypeOK
<1>4. IsFiniteSet(Ahead(i)') /\ Cardinality(Ahead(i)') \in Nat
  BY <1>2, <1>3, RowsFinite
<1>5. Cardinality(Ahead(i)) <= Cardinality(Ahead(i)')
  BY <1>1, <1>4, FS_Subset
<1>6. Cardinality(Ahead(i)) \in Nat
  BY <1>1, <1>4, FS_Subset, FS_CardinalityType
<1> QED
  BY <1>4, <1>5, <1>6

(* The clean-up keeps what is ahead of what it keeps.                      *)
LEMMA CleanupTakesTheEnd ==
  ASSUME TypeOK, CleanupLogs, NEW i \in DOMAIN log \cap DOMAIN log'
  PROVE  Ahead(i) \subseteq DOMAIN log'
<1> DEFINE d == clean.days
<1>1. DOMAIN log' = DOMAIN log \ Expired(d)
  BY DEF CleanupLogs
<1>2. d \in Nat /\ d * Day \in Int /\ now \in Instants(Int)
  BY Constants DEF TypeOK, CleanRow
<1>3. Back(now, d * Day) \in Instants(Int)
  BY <1>2 DEF Back, Instants
<1>4. ASSUME NEW j \in Ahead(i), j \in Expired(d) PROVE FALSE
  <2>1. j \in DOMAIN log /\ ListedBefore(j, i) /\ d > 0 /\ Before(dbTime(log[j]), Cutoff(d))
    BY <1>4 DEF Ahead, Expired
  <2>2. log[i] \in Instants(Int) /\ log[j] \in Instants(Int)
    BY <2>1, LogTimes
  <2>3. Before(dbTime(log[i]), dbTime(log[j])) \/ dbTime(log[i]) = dbTime(log[j])
    BY <2>1 DEF ListedBefore
  <2>4. Before(dbTime(log[i]), Cutoff(d))
    BY <1>3, <2>1, <2>2, <2>3, BeforeTransitive DEF Cutoff
  <2>5. i \in Expired(d)
    BY <2>1, <2>4 DEF Expired
  <2> QED
    BY <1>1, <2>5
<1> QED
  BY <1>1, <1>4 DEF Ahead

LEMMA RecordShown ==
  ASSUME TypeOK, TypeOK', Shown, Record
  PROVE  Shown'
<1>1. /\ DOMAIN log' = DOMAIN log \cup {seq + 1} /\ seq' = seq + 1 /\ seq \in Nat
      /\ \A j \in DOMAIN log : log'[j] = log[j]
  BY DEF Record, TypeOK
<1>2. walk \in WalkRow /\ walk.unseen \subseteq 1 .. seq /\ seq + 1 \notin DOMAIN log
  BY <1>1 DEF TypeOK, Shown, UnseenOld
<1>3. /\ walk'.pc = walk.pc /\ walk'.page = walk.page /\ walk'.pages = walk.pages
      /\ walk'.unseen = walk.unseen
      /\ walk'.late = IF walk.pc = "list" THEN walk.late + 1 ELSE walk.late
  BY <1>2 DEF Record, WalkRow
<1>4. UnseenOld'
  BY <1>1, <1>2, <1>3 DEF UnseenOld
<1>5. walk.unseen \cap DOMAIN log' = walk.unseen \cap DOMAIN log
  BY <1>1, <1>2
<1>6. ASSUME walk.pc \in {"count", "list"}, NEW i \in walk.unseen \cap DOMAIN log
      PROVE  Cardinality(Ahead(i)') >= (walk.page - 1) * PageSize
  <2>1. Cardinality(Ahead(i)') >= Cardinality(Ahead(i)) /\ Cardinality(Ahead(i)') \in Nat
    BY <1>1, AheadStays DEF Ahead
  <2>2. Ahead(i) \in SUBSET DOMAIN log
    BY DEF Ahead
  <2>3. Cardinality(Ahead(i)) \in Nat
    BY <2>2, LogFinite
  <2>4. (walk.page - 1) * PageSize \in Int
    BY <1>2, Constants DEF WalkRow
  <2> QED
    BY <1>6, <2>1, <2>3, <2>4 DEF Shown, StillToCome
<1>7. StillToCome'
  BY <1>3, <1>5, <1>6 DEF Shown, StillToCome
<1>8. PagesCounted'
  <2>1. Cardinality(DOMAIN log') = Cardinality(DOMAIN log) + 1 /\ Cardinality(DOMAIN log) \in Nat
    BY <1>1, <1>2, LogFinite, FS_AddElement
  <2>2. walk.pages * PageSize \in Int /\ walk.late \in Nat
    BY <1>2, Constants DEF WalkRow
  <2> QED
    BY <1>3, <2>1, <2>2 DEF PagesCounted, Shown
<1>9. NothingSkipped'
  BY <1>3, <1>5 DEF NothingSkipped, Shown
<1> QED
  BY <1>4, <1>7, <1>8, <1>9 DEF Shown

(* Rows are removed, none of them ahead of one that stays.                 *)
LEMMA FewerRowsShown ==
  ASSUME TypeOK, TypeOK', Shown, UNCHANGED <<seq, walk>>,
         DOMAIN log' \subseteq DOMAIN log,
         \A j \in DOMAIN log' : log'[j] = log[j],
         \A i \in DOMAIN log' : Ahead(i) \subseteq DOMAIN log'
  PROVE  Shown'
<1>1. walk \in WalkRow
  BY DEF TypeOK
<1>2. UnseenOld'
  BY DEF UnseenOld, Shown
<1>3. ASSUME walk.pc \in {"count", "list"}, NEW i \in walk.unseen \cap DOMAIN log'
      PROVE  Cardinality(Ahead(i)') >= (walk.page - 1) * PageSize
  <2>1. Cardinality(Ahead(i)') >= Cardinality(Ahead(i)) /\ Cardinality(Ahead(i)') \in Nat
    BY AheadStays
  <2>2. Ahead(i) \in SUBSET DOMAIN log
    BY DEF Ahead
  <2>3. Cardinality(Ahead(i)) \in Nat
    BY <2>2, LogFinite
  <2>4. (walk.page - 1) * PageSize \in Int
    BY <1>1, Constants DEF WalkRow
  <2> QED
    BY <1>3, <2>1, <2>3, <2>4 DEF Shown, StillToCome
<1>4. StillToCome'
  BY <1>3 DEF Shown, StillToCome
<1>5. PagesCounted'
  <2>1. Cardinality(DOMAIN log') <= Cardinality(DOMAIN log)
        /\ Cardinality(DOMAIN log') \in Nat /\ Cardinality(DOMAIN log) \in Nat
    BY LogFinite
  <2>2. walk.pages * PageSize \in Int /\ walk.late \in Nat
    BY <1>1, Constants DEF WalkRow
  <2> QED
    BY <2>1, <2>2 DEF PagesCounted, Shown
<1>6. NothingSkipped'
  <2>1. walk.unseen \cap DOMAIN log \in SUBSET DOMAIN log
    OBVIOUS
  <2>2. walk.unseen \cap DOMAIN log' \in SUBSET (walk.unseen \cap DOMAIN log)
    OBVIOUS
  <2>3. IsFiniteSet(walk.unseen \cap DOMAIN log)
    BY <2>1, LogFinite
  <2>4. /\ Cardinality(walk.unseen \cap DOMAIN log') <= Cardinality(walk.unseen \cap DOMAIN log)
        /\ Cardinality(walk.unseen \cap DOMAIN log') \in Nat
        /\ Cardinality(walk.unseen \cap DOMAIN log) \in Nat
    BY <2>2, <2>3, FS_Subset, FS_CardinalityType
  <2> QED
    BY <1>1, <2>4 DEF NothingSkipped, Shown, WalkRow
<1> QED
  BY <1>2, <1>4, <1>5, <1>6 DEF Shown

LEMMA OpenShown ==
  ASSUME TypeOK, OpenLog
  PROVE  Shown'
<1> DEFINE row == [NoWalk EXCEPT !.pc = "count", !.page = 1, !.unseen = DOMAIN log]
<1>1. DOMAIN log \in SUBSET Nat /\ DOMAIN log \subseteq 1 .. seq
  BY LogTimes DEF TypeOK
<1>3. walk' = row /\ log' = log /\ seq' = seq
  BY DEF OpenLog
<1>b. NoWalk \in WalkRow
  BY NoWalkType
<1>2. row.pc = "count" /\ row.page = 1 /\ row.unseen = DOMAIN log
  BY <1>b DEF WalkRow
<1> HIDE DEF row
<1>4. \A i \in DOMAIN log : Cardinality(Ahead(i)') \in Nat
  <2>1. \A i \in DOMAIN log : Ahead(i) \in SUBSET DOMAIN log
    BY DEF Ahead
  <2>2. \A i \in DOMAIN log : Cardinality(Ahead(i)) \in Nat
    BY <2>1, LogFinite
  <2>3. \A i \in DOMAIN log : Ahead(i)' = Ahead(i)
    BY <1>3 DEF Ahead, ListedBefore
  <2> QED
    BY <2>2, <2>3
<1>5. (1 - 1) * PageSize = 0
  BY Constants
<1> QED
  BY <1>1, <1>2, <1>3, <1>4, <1>5
     DEF Shown, UnseenOld, StillToCome, PagesCounted, NothingSkipped

LEMMA CountShown ==
  ASSUME TypeOK, Shown, CountLogs
  PROVE  Shown'
<1> DEFINE total == Cardinality(DOMAIN log)
           pages == (total + PageSize - 1) \div PageSize
<1>1. total \in Nat /\ pages \in Nat /\ total <= pages * PageSize
  BY LogFinite, Constants, RoundUp
<1>2. walk' = [walk EXCEPT !.pc = "list", !.pages = pages] /\ log' = log /\ seq' = seq
  BY DEF CountLogs
<1>3. walk \in WalkRow /\ walk.pc = "count"
  BY DEF TypeOK, CountLogs
<1> HIDE DEF pages
<1>4. /\ walk'.pc = "list" /\ walk'.pages = pages /\ walk'.page = walk.page
      /\ walk'.unseen = walk.unseen /\ walk'.late = walk.late /\ walk.late \in Nat
  BY <1>2, <1>3 DEF WalkRow
<1>5. UnseenOld'
  BY <1>2, <1>4 DEF Shown, UnseenOld
<1>6. StillToCome'
  BY <1>2, <1>3, <1>4 DEF Shown, StillToCome, Ahead, ListedBefore
<1>7. PagesCounted'
  <2>1. pages * PageSize \in Int
    BY <1>1, Constants
  <2> QED
    BY <1>1, <1>2, <1>4, <2>1 DEF PagesCounted
<1> QED
  BY <1>4, <1>5, <1>6, <1>7 DEF Shown, NothingSkipped

(* What a page did not show has a place beyond it.                         *)
LEMMA BeyondPage ==
  ASSUME TypeOK, Shown, walk.pc = "list",
         NEW i \in (walk.unseen \ Page(walk.page)) \cap DOMAIN log
  PROVE  Cardinality(Ahead(i)) >= walk.page * PageSize
<1>1. walk.page \in Nat \ {0} /\ PageSize \in Nat \ {0}
  BY Constants DEF TypeOK, WalkRow, Shown, StillToCome
<1>2. Ahead(i) \in SUBSET DOMAIN log
  BY DEF Ahead
<1>3. Cardinality(Ahead(i)) \in Nat
  BY <1>2, LogFinite
<1>4. Cardinality(Ahead(i)) >= (walk.page - 1) * PageSize
  BY DEF Shown, StillToCome
<1>5. Cardinality(Ahead(i)) \notin (walk.page - 1) * PageSize .. walk.page * PageSize - 1
  BY DEF Page
<1>6. (walk.page - 1) * PageSize \in Int /\ walk.page * PageSize \in Int
  BY <1>1
<1> QED
  BY <1>3, <1>4, <1>5, <1>6

LEMMA ListShown ==
  ASSUME TypeOK, Shown, ListLogs
  PROVE  Shown'
<1> DEFINE left == walk.unseen \ Page(walk.page)
           more == [NoWalk EXCEPT !.pc = "count", !.page = walk.page + 1, !.unseen = left]
           end == [NoWalk EXCEPT !.pc = "end", !.unseen = left, !.late = walk.late]
<1>1. /\ walk \in WalkRow /\ walk.pc = "list" /\ log' = log /\ seq' = seq
      /\ walk.page \in Nat \ {0} /\ walk.pages \in Nat /\ walk.late \in Nat
      /\ walk.unseen \in SUBSET Nat
  BY DEF TypeOK, ListLogs, WalkRow, Shown, StillToCome
<1>2. left \in SUBSET Nat /\ left \subseteq 1 .. seq
  BY <1>1 DEF Shown, UnseenOld
<1>3. IF walk.page < walk.pages THEN walk' = more ELSE walk' = end
  BY DEF ListLogs
<1>a. NoWalk \in WalkRow
  BY NoWalkType
<1>b. \A i \in left \cap DOMAIN log : i \in (walk.unseen \ Page(walk.page)) \cap DOMAIN log
  OBVIOUS
<1> HIDE DEF left
<1>4. more.pc = "count" /\ more.page = walk.page + 1 /\ more.unseen = left
  BY <1>a DEF WalkRow
<1>5. end.pc = "end" /\ end.unseen = left /\ end.late = walk.late
  BY <1>a DEF WalkRow
<1> HIDE DEF more, end
<1>6. \A i \in left \cap DOMAIN log : Cardinality(Ahead(i)) >= walk.page * PageSize
  BY <1>1, <1>b, BeyondPage
<1>7. \A i \in DOMAIN log : Ahead(i)' = Ahead(i)
  BY <1>1 DEF Ahead, ListedBefore
<1>8. CASE walk.page < walk.pages
  <2>1. walk' = more
    BY <1>3, <1>8
  <2>2. more.page - 1 = walk.page /\ more.page > 0
    BY <1>1, <1>4
  <2> QED
    BY <1>1, <1>2, <1>4, <1>6, <1>7, <2>1, <2>2
       DEF Shown, UnseenOld, StillToCome, PagesCounted, NothingSkipped
<1>9. CASE ~(walk.page < walk.pages)
  <2>1. walk' = end
    BY <1>3, <1>9
  <2>2. Cardinality(left \cap DOMAIN log) <= walk.late
    <3>1. CASE left \cap DOMAIN log = {}
      BY <1>1, <3>1, FS_EmptySet
    <3>2. CASE left \cap DOMAIN log # {}
      <4> DEFINE S == left \cap DOMAIN log
      <4>1. S \in SUBSET DOMAIN log /\ S # {}
        BY <3>2
      <4>2. PICK i \in S : Ahead(i) \cap S = {}
        BY <4>1, FirstOf
      <4>3. Ahead(i) \in SUBSET DOMAIN log /\ Ahead(i) \cup S \in SUBSET DOMAIN log
        BY <4>1 DEF Ahead
      <4>4. Cardinality(Ahead(i)) >= walk.page * PageSize
        BY <1>6, <4>2
      <4> HIDE DEF S
      <4>5. Cardinality(Ahead(i) \cup S) =
               Cardinality(Ahead(i)) + Cardinality(S) - Cardinality(Ahead(i) \cap S)
        BY <4>1, <4>3, LogFinite, FS_Union
      <4>6. Cardinality(Ahead(i) \cap S) = 0
        BY <4>2, FS_EmptySet
      <4>7. Cardinality(Ahead(i) \cup S) <= Cardinality(DOMAIN log)
        BY <4>3, LogFinite
      <4>8. Cardinality(DOMAIN log) <= walk.pages * PageSize + walk.late
        BY <1>1 DEF Shown, PagesCounted
      <4>9. walk.pages * PageSize <= walk.page * PageSize
        <5>1. PageSize \in Nat /\ walk.pages <= walk.page
          BY <1>1, <1>9, Constants
        <5> QED
          BY <1>1, <5>1
      <4>10. /\ Cardinality(Ahead(i)) \in Nat /\ Cardinality(S) \in Nat
             /\ Cardinality(DOMAIN log) \in Nat /\ Cardinality(Ahead(i) \cup S) \in Nat
             /\ walk.pages * PageSize \in Int /\ walk.page * PageSize \in Int
        BY <1>1, <4>1, <4>3, LogFinite, Constants
      <4>11. Cardinality(S) <= walk.late
        BY <1>1, <4>4, <4>5, <4>6, <4>7, <4>8, <4>9, <4>10
      <4> QED
        BY <4>11 DEF S
    <3> QED
      BY <3>1, <3>2
  <2> QED
    BY <1>1, <1>2, <1>5, <2>1, <2>2
       DEF Shown, UnseenOld, StillToCome, PagesCounted, NothingSkipped
<1> QED
  BY <1>8, <1>9

LEMMA NoWalkShown == ASSUME walk' = NoWalk PROVE Shown'
  BY DEF NoWalk, Shown, UnseenOld, StillToCome, PagesCounted, NothingSkipped

LEMMA Invariance == Spec => []IInv
<1>1. Init => IInv
  <2> SUFFICES ASSUME Init PROVE IInv
    OBVIOUS
  <2>1. clean.pc = "load"
    BY BetweenType DEF Init
  <2>2. Shown
    BY DEF Init, NoWalk, Shown, UnseenOld, StillToCome, PagesCounted, NothingSkipped
  <2> QED
    BY <2>1, <2>2, InitTypeOK DEF IInv, RunAsSaved
<1>2. IInv /\ [Next]_vars => IInv'
  <2> SUFFICES ASSUME IInv, [Next]_vars PROVE IInv'
    OBVIOUS
  <2>1. TypeOK /\ TypeOK' /\ Shown /\ RunAsSaved
    BY StepTypeOK DEF IInv
  <2>2. RunAsSaved'
    <3>1. CASE LoadSettings
      BY <3>1 DEF LoadSettings, RunAsSaved
    <3>2. CASE CleanupLogs \/ FailCleanup \/ Ticker \/ Restart
      BY <3>2, BetweenType DEF CleanupLogs, FailCleanup, Ticker, Restart, RunAsSaved
    <3>3. CASE UNCHANGED clean
      BY <2>1, <3>3 DEF RunAsSaved
    <3> QED
      BY <3>1, <3>2, <3>3 DEF Next, vars, Clock, Record, Clear, SaveRetention,
                              OpenLog, CountLogs, ListLogs, CloseLog
  <2>3. Shown'
    <3>1. CASE UNCHANGED <<log, seq, walk>>
      BY <2>1, <3>1 DEF Shown, UnseenOld, StillToCome, PagesCounted, NothingSkipped,
                        Ahead, ListedBefore
    <3>2. CASE Clear
      BY <2>1, <3>2, FewerRowsShown DEF Clear
    <3>3. CASE CleanupLogs
      <4>1. /\ UNCHANGED <<seq, walk>> /\ DOMAIN log' \subseteq DOMAIN log
            /\ \A j \in DOMAIN log' : log'[j] = log[j]
        BY <3>3 DEF CleanupLogs
      <4>2. \A i \in DOMAIN log' : Ahead(i) \subseteq DOMAIN log'
        BY <2>1, <3>3, <4>1, CleanupTakesTheEnd
      <4> QED
        BY <2>1, <4>1, <4>2, FewerRowsShown
    <3>4. CASE CloseLog \/ Restart
      BY <3>4, NoWalkShown DEF CloseLog, Restart
    <3>5. CASE Record \/ OpenLog \/ CountLogs \/ ListLogs
      BY <2>1, <3>5, RecordShown, OpenShown, CountShown, ListShown
    <3> QED
      BY <3>1, <3>2, <3>3, <3>4, <3>5 DEF Next, vars, Clock, SaveRetention,
                                          LoadSettings, FailCleanup, Ticker
  <2> QED
    BY <2>1, <2>2, <2>3 DEF IInv
<1> QED
  BY <1>1, <1>2, PTL DEF Spec

----------------------------------------------------------------------------

(* Every variable of the log, the clean-up and the reader keeps its type.  *)
THEOREM TypeCorrect == Spec => []TypeOK
<1>1. IInv => TypeOK
  BY DEF IInv
<1> QED
  BY <1>1, Invariance, PTL

(* Whoever reads the log from the first page to the last misses no row that*)
(* was there and stays, except as many as were recorded during the last    *)
(* page: for any page size, log and clean-up (store.go:639).               *)
THEOREM ReadersSeeEverything == Spec => []NothingSkipped
<1>1. IInv => NothingSkipped
  BY DEF IInv, Shown
<1> QED
  BY <1>1, Invariance, PTL

(* The texts SQLite sorts by list a later second above an earlier one      *)
(* (store.go:664 and 871).                                                 *)
THEOREM SortedBySecond == Spec => []ListedByTime
<1>1. IInv => ListedByTime
  BY LogTimes, SecondsFirst DEF IInv, ListedByTime, ListedBefore
<1> QED
  BY <1>1, Invariance, PTL

(* The clean-up removes only what is older, to the second, than the period *)
(* saved when its run began, and nothing if that was 0 (store.go:841).     *)
THEOREM CleanupKeepsPeriod == Spec => RemovedAsSaved
<1>1. ASSUME IInv, [Next]_vars, NEW i \in DOMAIN log \ DOMAIN log',
             clean.pc = "delete", clean'.pc = "wait"
      PROVE  clean.saved > 0 /\ log[i].s <= now.s - clean.saved * Day
  <2>1. CASE CleanupLogs
    <3> DEFINE d == clean.days
    <3>1. d = clean.saved /\ i \in Expired(d)
      BY <1>1, <2>1 DEF CleanupLogs, IInv, RunAsSaved
    <3>2. d \in Nat /\ d * Day \in Int /\ now \in Instants(Int)
      BY <1>1, Constants DEF IInv, TypeOK, CleanRow
    <3>3. Back(now, d * Day) \in Instants(Int) /\ Back(now, d * Day).s = now.s - d * Day
      BY <3>2 DEF Back, Instants
    <3>4. d > 0 /\ Before(dbTime(log[i]), dbTime(Back(now, d * Day)))
      BY <3>1 DEF Expired, Cutoff
    <3>5. log[i] \in Instants(Int)
      BY <1>1, LogTimes DEF IInv
    <3>6. log[i].s <= Back(now, d * Day).s
      BY <3>3, <3>4, <3>5, SecondsFirst
    <3> QED
      BY <3>1, <3>3, <3>4, <3>6
  <2>2. CASE UNCHANGED log
    BY <1>1, <2>2
  <2>3. CASE Record \/ Clear
    BY <1>1, <2>3 DEF Record, Clear
  <2> QED
    BY <1>1, <2>1, <2>2, <2>3 DEF Next, vars, Clock, SaveRetention, LoadSettings,
       FailCleanup, Ticker, Restart, OpenLog, CountLogs, ListLogs, CloseLog
<1>2. IInv /\ [Next]_vars =>
         [\A i \in DOMAIN log \ DOMAIN log' :
             clean.pc = "delete" /\ clean'.pc = "wait" =>
                 clean.saved > 0 /\ log[i].s <= now.s - clean.saved * Day]_vars
  BY <1>1
<1> QED
  BY <1>2, Invariance, PTL DEF Spec, RemovedAsSaved
=============================================================================
