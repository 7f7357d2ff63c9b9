-------------------------- MODULE LifecycleProofs --------------------------
(***************************************************************************)
(* Proofs about Lifecycle, for every database of an older release, any     *)
(* number of visitors, and stops at every statement.                       *)
(***************************************************************************)
EXTENDS Lifecycle, StoreProofs, SequenceTheorems

(* The list of statements, taken apart.                                    *)

MakesUpTo(n) == {Statements[i].makes : i \in 1 .. n}

Elements(l, n) == {l[i] : i \in 1 .. n}

Steps == Elements(BaseTables, 8) \cup Elements(Columns, 5)
            \cup Elements(FileTables, 4) \cup Elements(CounterAndSettings, 2)

LEMMA Parts ==
    /\ BaseTables \in Seq(Steps) /\ Len(BaseTables) = 8
    /\ Columns \in Seq(Steps) /\ Len(Columns) = 5
    /\ FileTables \in Seq(Steps) /\ Len(FileTables) = 4
    /\ CounterAndSettings \in Seq(Steps) /\ Len(CounterAndSettings) = 2
<1>1. /\ \A i \in 1 .. 8 : BaseTables[i] \in Steps
      /\ \A i \in 1 .. 5 : Columns[i] \in Steps
      /\ \A i \in 1 .. 4 : FileTables[i] \in Steps
      /\ \A i \in 1 .. 2 : CounterAndSettings[i] \in Steps
  BY DEF Steps, Elements
<1>2. BaseTables \in Seq(Steps) /\ Len(BaseTables) = 8
  <2>1. /\ BaseTables[1] \in Steps /\ BaseTables[2] \in Steps /\ BaseTables[3] \in Steps
        /\ BaseTables[4] \in Steps /\ BaseTables[5] \in Steps /\ BaseTables[6] \in Steps
        /\ BaseTables[7] \in Steps /\ BaseTables[8] \in Steps
    BY <1>1
  <2> QED BY <2>1 DEF BaseTables
<1>3. Columns \in Seq(Steps) /\ Len(Columns) = 5
  <2>1. /\ Columns[1] \in Steps /\ Columns[2] \in Steps /\ Columns[3] \in Steps
        /\ Columns[4] \in Steps /\ Columns[5] \in Steps
    BY <1>1
  <2> QED BY <2>1 DEF Columns
<1>4. FileTables \in Seq(Steps) /\ Len(FileTables) = 4
  <2>1. /\ FileTables[1] \in Steps /\ FileTables[2] \in Steps
        /\ FileTables[3] \in Steps /\ FileTables[4] \in Steps
    BY <1>1
  <2> QED BY <2>1 DEF FileTables
<1>5. CounterAndSettings \in Seq(Steps) /\ Len(CounterAndSettings) = 2
  <2>1. CounterAndSettings[1] \in Steps /\ CounterAndSettings[2] \in Steps
    BY <1>1
  <2>2. CounterAndSettings = <<CounterAndSettings[1], CounterAndSettings[2]>>
    BY DEF CounterAndSettings
  <2>3. ASSUME NEW a \in Steps, NEW b \in Steps
        PROVE  <<a, b>> \in Seq(Steps) /\ Len(<<a, b>>) = 2
    OBVIOUS
  <2> QED BY <2>1, <2>2, <2>3
<1> QED BY <1>2, <1>3, <1>4, <1>5

LEMMA Joined ==
    ASSUME NEW s \in Seq(Steps), NEW t \in Seq(Steps), NEW u, u = s \o t
    PROVE  /\ u \in Seq(Steps)
           /\ Len(u) = Len(s) + Len(t)
           /\ \A i \in 1 .. Len(s) : u[i] = s[i]
           /\ \A i \in 1 .. Len(t) : u[Len(s) + i] = t[i]
<1>1. Len(s) \in Nat /\ Len(t) \in Nat
  OBVIOUS
<1>2. /\ u \in Seq(Steps)
      /\ Len(u) = Len(s) + Len(t)
      /\ \A i \in 1 .. Len(s) + Len(t) : u[i] = IF i <= Len(s) THEN s[i] ELSE t[i - Len(s)]
  BY ConcatProperties
<1>3. ASSUME NEW i \in 1 .. Len(t) PROVE u[Len(s) + i] = t[i]
  <2>1. Len(s) + i \in 1 .. Len(s) + Len(t) /\ ~(Len(s) + i <= Len(s))
    BY <1>1
  <2>2. u[Len(s) + i] = t[(Len(s) + i) - Len(s)]
    BY <1>2, <2>1
  <2>3. (Len(s) + i) - Len(s) = i
    BY <1>1
  <2> QED BY <2>2, <2>3
<1>4. \A i \in 1 .. Len(s) : u[i] = s[i]
  BY <1>1, <1>2
<1>5. u \in Seq(Steps) /\ Len(u) = Len(s) + Len(t)
  BY <1>2
<1> QED BY <1>3, <1>4, <1>5

LEMMA StatementList ==
    /\ DOMAIN Statements = 1 .. 19 /\ Len(Statements) = 19
    /\ \A i \in 1 .. 8 : Statements[i] = BaseTables[i]
    /\ \A i \in 1 .. 5 : Statements[8 + i] = Columns[i]
    /\ \A i \in 1 .. 4 : Statements[13 + i] = FileTables[i]
    /\ \A i \in 1 .. 2 : Statements[17 + i] = CounterAndSettings[i]
<1> DEFINE s == BaseTables \o Columns
           t == s \o FileTables
           u == t \o CounterAndSettings
<1>1. s \in Seq(Steps) /\ Len(s) = 13
      /\ (\A i \in 1 .. 8 : s[i] = BaseTables[i])
      /\ \A i \in 1 .. 5 : s[8 + i] = Columns[i]
  <2> HIDE DEF s
  <2>1. /\ s \in Seq(Steps)
        /\ Len(s) = Len(BaseTables) + Len(Columns)
        /\ \A i \in 1 .. Len(BaseTables) : s[i] = BaseTables[i]
        /\ \A i \in 1 .. Len(Columns) : s[Len(BaseTables) + i] = Columns[i]
    <3>1. BaseTables \in Seq(Steps) /\ Columns \in Seq(Steps)
      BY Parts
    <3>2. s = BaseTables \o Columns
      BY DEF s
    <3> QED BY <3>1, <3>2, Joined
  <2> QED BY <2>1, Parts
<1>2. t \in Seq(Steps) /\ Len(t) = 17
      /\ (\A i \in 1 .. 13 : t[i] = s[i])
      /\ \A i \in 1 .. 4 : t[13 + i] = FileTables[i]
  <2> HIDE DEF s, t
  <2>1. /\ t \in Seq(Steps)
        /\ Len(t) = Len(s) + Len(FileTables)
        /\ \A i \in 1 .. Len(s) : t[i] = s[i]
        /\ \A i \in 1 .. Len(FileTables) : t[Len(s) + i] = FileTables[i]
    <3>1. s \in Seq(Steps) /\ FileTables \in Seq(Steps)
      BY <1>1, Parts
    <3>2. t = s \o FileTables
      BY DEF t
    <3> QED BY <3>1, <3>2, Joined
  <2> QED BY <1>1, <2>1, Parts
<1>3. u \in Seq(Steps) /\ Len(u) = 19
      /\ (\A i \in 1 .. 17 : u[i] = t[i])
      /\ \A i \in 1 .. 2 : u[17 + i] = CounterAndSettings[i]
  <2> HIDE DEF t, u
  <2>1. /\ u \in Seq(Steps)
        /\ Len(u) = Len(t) + Len(CounterAndSettings)
        /\ \A i \in 1 .. Len(t) : u[i] = t[i]
        /\ \A i \in 1 .. Len(CounterAndSettings) : u[Len(t) + i] = CounterAndSettings[i]
    <3>1. t \in Seq(Steps) /\ CounterAndSettings \in Seq(Steps)
      BY <1>2, Parts
    <3>2. u = t \o CounterAndSettings
      BY DEF u
    <3> QED BY <3>1, <3>2, Joined
  <2> QED BY <1>2, <2>1, Parts
<1>4. Statements = u
  BY DEF Statements, u, t, s
<1> HIDE DEF s, t, u
<1>5. DOMAIN u = 1 .. 19
  BY <1>3
<1>6. \A i \in 1 .. 8 : u[i] = BaseTables[i]
  BY <1>1, <1>2, <1>3
<1>7. \A i \in 1 .. 5 : u[8 + i] = Columns[i]
  <2>1. ASSUME NEW i \in 1 .. 5 PROVE u[8 + i] = Columns[i]
    <3>1. 8 + i \in 1 .. 13 /\ 8 + i \in 1 .. 17
      OBVIOUS
    <3> QED BY <3>1, <1>1, <1>2, <1>3
  <2> QED BY <2>1
<1>8. \A i \in 1 .. 4 : u[13 + i] = FileTables[i]
  BY <1>2, <1>3
<1> QED BY <1>3, <1>4, <1>5, <1>6, <1>7, <1>8

(* What the proofs use of the list: the counter has a statement of its own,*)
(* and nothing is named before it is there.                                *)

LEMMA StatementFacts ==
    ASSUME NEW i \in DOMAIN Statements
    PROVE  /\ Statements[i].makes \in Everything
           /\ Statements[i].column => Statements[i].makes # Counter
           /\ Statements[i].needs \subseteq MakesUpTo(i - 1)
<1>1. Statements[i].makes \in Everything
  BY DEF Everything
<1>2. i \in 1 .. 19
  BY StatementList
<1>3. \A j \in 1 .. 8 : Statements[j] = BaseTables[j]
  BY StatementList
<1>4. \A j \in 1 .. i - 1 : Statements[j].makes \in MakesUpTo(i - 1)
  BY DEF MakesUpTo
<1>5. CASE i \in 1 .. 8
  <2>1. /\ Statements[i] = BaseTables[i]
        /\ i >= 4 => BaseTables[3] = Statements[3]
        /\ i >= 6 => BaseTables[5] = Statements[5]
    BY <1>3, <1>5
  <2>2. /\ i >= 4 => BaseTables[3].makes \in MakesUpTo(i - 1)
        /\ i >= 6 => BaseTables[5].makes \in MakesUpTo(i - 1)
    BY <1>4, <1>5, <2>1
  <2>3. i \in {1, 2, 3, 4, 5, 6, 7, 8}
    BY <1>5
  <2>4. ~BaseTables[i].column
    BY <2>3 DEF BaseTables, Creates
  <2>5. BaseTables[i].needs = IF i = 4 THEN {BaseTables[3].makes}
                              ELSE IF i \in {6, 7} THEN {BaseTables[5].makes} ELSE {}
    BY <2>3 DEF BaseTables, Creates
  <2> QED BY <1>1, <2>1, <2>2, <2>3, <2>4, <2>5
<1>6. CASE i \in 9 .. 13
  <2>1. Statements[i] = Columns[i - 8] /\ i - 8 \in {1, 2, 3, 4, 5}
    <3>1. i - 8 \in 1 .. 5 /\ 8 + (i - 8) = i
      BY <1>6
    <3> QED BY <3>1, StatementList
  <2>2. BaseTables[2].makes \in MakesUpTo(i - 1) /\ BaseTables[5].makes \in MakesUpTo(i - 1)
    BY <1>3, <1>4, <1>6
  <2>3. \A j \in {1, 2, 3, 4, 5} : Columns[j].makes # Counter
    BY DEF Columns, Adds, Counter
  <2>4. Columns[5].needs = {BaseTables[5].makes}
    BY DEF Columns, Adds, BaseTables, Creates
  <2>5. \A j \in {1, 2, 3, 4} : Columns[j].needs = {BaseTables[2].makes}
    BY DEF Columns, Adds, BaseTables, Creates
  <2> QED BY <1>1, <2>1, <2>2, <2>3, <2>4, <2>5
<1>7. CASE i \in 14 .. 17
  <2>1. Statements[i] = FileTables[i - 13] /\ i - 13 \in {1, 2, 3, 4}
    <3>1. i - 13 \in 1 .. 4 /\ 13 + (i - 13) = i
      BY <1>7
    <3> QED BY <3>1, StatementList
  <2>2. Statements[9] = Columns[1] /\ Statements[10] = Columns[2] /\ Statements[13] = Columns[5]
    <3>1. 8 + 1 = 9 /\ 8 + 2 = 10 /\ 8 + 5 = 13
      OBVIOUS
    <3> QED BY <3>1, StatementList
  <2>3. /\ Columns[1].makes \in MakesUpTo(i - 1) /\ Columns[2].makes \in MakesUpTo(i - 1)
        /\ Columns[5].makes \in MakesUpTo(i - 1)
    BY <1>4, <1>7, <2>2
  <2>4. /\ ~FileTables[i - 13].column
        /\ FileTables[i - 13].needs \subseteq
              {Columns[1].makes, Columns[2].makes, Columns[5].makes}
    BY <2>1 DEF FileTables, Creates, Columns, Adds
  <2> QED BY <1>1, <2>1, <2>3, <2>4
<1>8. CASE i \in 18 .. 19
  <2>1. Statements[i] = CounterAndSettings[i - 17] /\ i - 17 \in {1, 2}
    <3>1. i - 17 \in 1 .. 2 /\ 17 + (i - 17) = i
      BY <1>8
    <3> QED BY <3>1, StatementList
  <2>2. /\ Statements[1] = BaseTables[1] /\ Statements[9] = Columns[1]
        /\ Statements[10] = Columns[2] /\ Statements[17] = FileTables[4]
    <3>1. 8 + 1 = 9 /\ 8 + 2 = 10 /\ 13 + 4 = 17
      OBVIOUS
    <3> QED BY <3>1, StatementList
  <2>3. /\ BaseTables[1].makes \in MakesUpTo(i - 1) /\ Columns[1].makes \in MakesUpTo(i - 1)
        /\ Columns[2].makes \in MakesUpTo(i - 1) /\ FileTables[4].makes \in MakesUpTo(i - 1)
    BY <1>4, <1>8, <2>2
  <2>4. ~CounterAndSettings[1].column /\ ~CounterAndSettings[2].column
    BY DEF CounterAndSettings, Creates
  <2>5. CounterAndSettings[2].needs = {BaseTables[1].makes}
    BY DEF CounterAndSettings, Creates, BaseTables
  <2>6. CounterAndSettings[1].needs
            = {Columns[1].makes, Columns[2].makes, FileTables[4].makes}
    BY DEF CounterAndSettings, FileTables, Creates, Columns, Adds
  <2> QED BY <1>1, <2>1, <2>3, <2>4, <2>5, <2>6
<1> QED BY <1>2, <1>5, <1>6, <1>7, <1>8

----------------------------------------------------------------------------
(* The inductive invariant.                                                *)

(* The statements before the one in progress have been carried out.        *)
Carried ==
    /\ process.pc = "down" => process.at = 1
    /\ process.pc \in {"run", "rows", "alter", "tx"} => MakesUpTo(process.at - 1) \subseteq schema
    /\ process.pc \in {"rows", "alter"} => Current.column
    /\ process.pc = "tx" => Current.makes = Counter /\ process.found = (Counter \in schema)
    /\ process.pc \in {"open", "up", "draining"} => schema = Everything

(* Nothing but the upgrade moves the counts until there is a column.       *)
NotYetCounted ==
    Counter \notin schema =>
        \A s \in DOMAIN db.subs : IsFileSub(db, s) => counted[s] = Promised(db, s)

(* Among the revisions of a subscription a download is not from the future,*)
(* and what it has loaded of the present one is the present file.          *)
LoadedOK(q) ==
    q # NoDownload =>
        /\ q.sub \in DOMAIN db.subs
        /\ q.revision <= db.subs[q.sub].revision
        /\ q.revision = db.subs[q.sub].revision => q.file = db.subs[q.sub].file

Loaded == \A v \in Visitors : LoadedOK(serving[v])

IInv ==
    /\ LTypeOK
    /\ Carried
    /\ NotYetCounted
    /\ CountsSurviveUpgrade
    /\ Loaded

----------------------------------------------------------------------------

LEMMA AtBounds == LTypeOK => process.at \in 1 .. 19
BY StatementList DEF LTypeOK, ProcessRow

LEMMA CarriedInOrder == LTypeOK /\ Carried => SchemaInOrder
<1> SUFFICES ASSUME LTypeOK, Carried PROVE SchemaInOrder
  OBVIOUS
<1>1. process.at \in DOMAIN Statements
  BY DEF LTypeOK, ProcessRow
<1>2. Current.needs \subseteq MakesUpTo(process.at - 1)
  BY <1>1, StatementFacts DEF Current
<1> QED BY <1>2 DEF Carried, SchemaInOrder

LEMMA AllMade == MakesUpTo(19) = Everything
BY StatementList DEF MakesUpTo, Everything

LEMMA MakesNext ==
    ASSUME NEW n \in 1 .. 19
    PROVE  MakesUpTo(n) = MakesUpTo(n - 1) \cup {Statements[n].makes}
BY DEF MakesUpTo

(* Going on to the next statement, when the one in progress has been       *)
(* carried out.                                                            *)
LEMMA NextStatementStep ==
    ASSUME LTypeOK, Carried, process.pc \in {"run", "rows", "alter", "tx"}, NextStatement,
           schema \subseteq schema', schema' \subseteq Everything, Current.makes \in schema'
    PROVE  /\ process' \in ProcessRow
           /\ Carried'
<1>1. process.at \in 1 .. 19 /\ Len(Statements) = 19 /\ DOMAIN Statements = 1 .. 19
  BY AtBounds, StatementList
<1>2. process \in ProcessRow
  BY DEF LTypeOK
<1>3. MakesUpTo(process.at) \subseteq schema'
  BY <1>1, MakesNext DEF Carried, Current
<1>4. CASE process.at = 19
  <2>1. process' = [process EXCEPT !.pc = "open"]
    BY <1>1, <1>4 DEF NextStatement
  <2>2. process'.pc = "open" /\ process' \in ProcessRow
    BY <1>2, <2>1 DEF PCs, ProcessRow
  <2>3. schema' = Everything
    BY <1>3, <1>4, AllMade
  <2> QED BY <2>2, <2>3 DEF Carried
<1>5. CASE process.at # 19
  <2>1. process' = [process EXCEPT !.pc = "run", !.at = process.at + 1, !.found = FALSE]
    BY <1>1, <1>5 DEF NextStatement
  <2>2. process.at + 1 \in 1 .. 19 /\ (process.at + 1) - 1 = process.at
    BY <1>1, <1>5
  <2>3. /\ process'.pc = "run" /\ process'.at = process.at + 1
        /\ process' \in ProcessRow
    BY <1>1, <1>2, <2>1, <2>2 DEF PCs, ProcessRow
  <2>4. MakesUpTo(process'.at - 1) \subseteq schema'
    BY <1>3, <2>2, <2>3
  <2> QED BY <2>3, <2>4 DEF Carried
<1> QED BY <1>4, <1>5

LEMMA DownStep ==
    ASSUME LTypeOK, NEW b \in BOOLEAN, Down(b)
    PROVE  /\ process' \in ProcessRow
           /\ Carried'
<1>1. process' = [pc |-> "down", at |-> 1, found |-> FALSE, broken |-> b] /\ 1 \in DOMAIN Statements
  BY StatementList DEF Down
<1>2. process'.pc = "down" /\ process'.at = 1
  BY <1>1
<1>3. process' \in ProcessRow
  BY <1>1 DEF PCs, ProcessRow
<1> QED BY <1>2, <1>3 DEF Carried

(* A step that changes neither the rows nor what there should be.          *)
LEMMA RowsKept ==
    ASSUME IInv, UNCHANGED <<db, counted>>, schema' \subseteq Everything,
           Counter \in schema' <=> Counter \in schema
    PROVE  /\ Tables(db)' /\ (counted \in [DOMAIN db.subs -> Nat])'
           /\ NotYetCounted' /\ CountsSurviveUpgrade'
BY DEF IInv, LTypeOK, NotYetCounted, CountsSurviveUpgrade, Promised, IsFileSub

(* Rows, history and downloads stay: what is left is the start itself.     *)
LEMMA StartingStep ==
    ASSUME IInv, UNCHANGED <<db, serving, counted>>, schema' \subseteq Everything,
           Counter \in schema' <=> Counter \in schema,
           process' \in ProcessRow, Carried',
           conn' \in {"free", "rows", "tx"}
    PROVE  IInv'
<1>1. LTypeOK'
  BY RowsKept DEF IInv, LTypeOK
<1>2. Loaded'
  BY DEF IInv, Loaded, LoadedOK
<1> QED BY <1>1, <1>2, RowsKept DEF IInv

LEMMA GotoStep ==
    ASSUME LTypeOK, NEW pc \in PCs, Goto(pc)
    PROVE  /\ process' \in ProcessRow
           /\ process'.pc = pc /\ process'.at = process.at /\ process'.found = process.found
BY DEF LTypeOK, ProcessRow, Goto

LEMMA LaunchStep == IInv /\ Launch => IInv'
<1> SUFFICES ASSUME IInv, Launch PROVE IInv'
  OBVIOUS
<1>1. LTypeOK /\ Carried /\ At("down") /\ UNCHANGED schema /\ UNCHANGED conn
  BY DEF IInv, Launch
<1>2. /\ process' \in ProcessRow
      /\ process'.pc = "run" /\ process'.at = process.at
  BY <1>1 DEF Launch, LTypeOK, ProcessRow, PCs
<1>3. process'.at - 1 = 0 /\ MakesUpTo(0) = {}
  BY <1>1, <1>2 DEF Carried, At, MakesUpTo
<1>4. Carried'
  BY <1>2, <1>3 DEF Carried
<1> QED BY <1>1, <1>2, <1>4, StartingStep DEF Launch, LTypeOK

LEMMA CreateMissingStep == IInv /\ CreateMissing => IInv'
<1> SUFFICES ASSUME IInv, CreateMissing PROVE IInv'
  OBVIOUS
<1>1. /\ LTypeOK /\ Carried /\ process.pc = "run" /\ NextStatement
      /\ Current.makes # Counter /\ schema' = schema \cup {Current.makes} /\ UNCHANGED conn
  BY DEF IInv, CreateMissing, At
<1>2. Current.makes \in Everything /\ schema \subseteq Everything
  BY <1>1, StatementFacts DEF LTypeOK, ProcessRow, Current
<1>3. process' \in ProcessRow /\ Carried'
  BY <1>1, <1>2, NextStatementStep
<1> QED BY <1>1, <1>2, <1>3, StartingStep DEF CreateMissing, LTypeOK

LEMMA InspectStep == IInv /\ Inspect => IInv'
<1> SUFFICES ASSUME IInv, Inspect PROVE IInv'
  OBVIOUS
<1>1. /\ LTypeOK /\ Carried /\ process.pc = "run" /\ Current.column
      /\ UNCHANGED schema /\ conn' = "rows"
  BY DEF IInv, Inspect, At
<1>2. /\ process' \in ProcessRow
      /\ process'.pc = "rows" /\ process'.at = process.at
  BY <1>1, GotoStep DEF Inspect, PCs
<1>3. Carried'
  BY <1>1, <1>2 DEF Carried, Current
<1> QED BY <1>1, <1>2, <1>3, StartingStep DEF Inspect, LTypeOK

LEMMA ReadTableInfoStep == IInv /\ ReadTableInfo => IInv'
<1> SUFFICES ASSUME IInv, ReadTableInfo PROVE IInv'
  OBVIOUS
<1>1. /\ LTypeOK /\ Carried /\ process.pc = "rows" /\ UNCHANGED schema /\ conn' = "free"
      /\ schema \subseteq Everything
  BY DEF IInv, ReadTableInfo, At, LTypeOK
<1>2. CASE NextStatement /\ Current.makes \in schema
  <2>1. process' \in ProcessRow /\ Carried'
    BY <1>1, <1>2, NextStatementStep
  <2> QED BY <1>1, <2>1, StartingStep DEF ReadTableInfo
<1>3. CASE process' = [process EXCEPT !.pc = "alter", !.broken = Current.makes \in schema]
  <2>1. (Current.makes \in schema) \in BOOLEAN
    OBVIOUS
  <2>2. process' \in ProcessRow /\ process'.pc = "alter" /\ process'.at = process.at
    BY <1>1, <1>3, <2>1 DEF LTypeOK, ProcessRow, PCs
  <2>3. Carried'
    BY <1>1, <2>2 DEF Carried, Current
  <2> QED BY <1>1, <2>2, <2>3, StartingStep DEF ReadTableInfo
<1> QED BY <1>2, <1>3 DEF ReadTableInfo

LEMMA AddColumnStep == IInv /\ AddColumn => IInv'
<1> SUFFICES ASSUME IInv, AddColumn PROVE IInv'
  OBVIOUS
<1>1. /\ LTypeOK /\ Carried /\ process.pc = "alter" /\ NextStatement
      /\ schema' = schema \cup {Current.makes} /\ UNCHANGED conn
  BY DEF IInv, AddColumn, At
<1>2. /\ Current.makes \in Everything /\ schema \subseteq Everything
      /\ Current.makes # Counter
  BY <1>1, StatementFacts DEF LTypeOK, ProcessRow, Current, Carried
<1>3. process' \in ProcessRow /\ Carried'
  BY <1>1, <1>2, NextStatementStep
<1> QED BY <1>1, <1>2, <1>3, StartingStep DEF AddColumn, LTypeOK

LEMMA BeginCounterStep == IInv /\ BeginCounter => IInv'
<1> SUFFICES ASSUME IInv, BeginCounter PROVE IInv'
  OBVIOUS
<1>1. /\ LTypeOK /\ Carried /\ process.pc = "run" /\ Current.makes = Counter
      /\ UNCHANGED schema /\ conn' = "tx"
      /\ process' = [process EXCEPT !.pc = "tx", !.found = Counter \in schema]
  BY DEF IInv, BeginCounter, At
<1>2. (Counter \in schema) \in BOOLEAN
  OBVIOUS
<1>3. /\ process' \in ProcessRow
      /\ process'.pc = "tx" /\ process'.at = process.at
      /\ process'.found = (Counter \in schema)
  BY <1>1, <1>2 DEF LTypeOK, PCs, ProcessRow
<1>4. Carried'
  BY <1>1, <1>3 DEF Carried, Current
<1> QED BY <1>1, <1>3, <1>4, StartingStep DEF BeginCounter, LTypeOK

LEMMA RefusedStep == IInv /\ Refused => IInv'
<1> SUFFICES ASSUME IInv, Refused PROVE IInv'
  OBVIOUS
<1>1. LTypeOK /\ process.broken \in BOOLEAN /\ Down(process.broken)
  BY DEF Refused, IInv, LTypeOK, ProcessRow
<1>2. process' \in ProcessRow /\ Carried'
  BY <1>1, DownStep
<1> QED BY <1>2, StartingStep DEF Refused, IInv, LTypeOK

LEMMA ListenStep == IInv /\ Listen => IInv'
<1> SUFFICES ASSUME IInv, Listen PROVE IInv'
  OBVIOUS
<1>1. LTypeOK /\ Carried /\ process.pc = "open" /\ UNCHANGED <<schema, conn>>
  BY DEF IInv, Listen, At
<1>2. /\ process' \in ProcessRow
      /\ process'.pc = "up"
  BY <1>1, GotoStep DEF Listen, PCs
<1>3. Carried'
  BY <1>1, <1>2 DEF Carried
<1> QED BY <1>1, <1>2, <1>3, StartingStep DEF Listen, LTypeOK

LEMMA SignalStep == IInv /\ Signal => IInv'
<1> SUFFICES ASSUME IInv, Signal PROVE IInv'
  OBVIOUS
<1>1. LTypeOK /\ Carried /\ process.pc = "up" /\ UNCHANGED <<schema, conn>>
  BY DEF IInv, Signal, At
<1>2. /\ process' \in ProcessRow
      /\ process'.pc = "draining"
  BY <1>1, GotoStep DEF Signal, PCs
<1>3. Carried'
  BY <1>1, <1>2 DEF Carried
<1> QED BY <1>1, <1>2, <1>3, StartingStep DEF Signal, LTypeOK

(* Every download ends with the process.                                   *)
LEMMA StopStep ==
    ASSUME IInv, UNCHANGED <<schema, db, counted>>, NEW b \in BOOLEAN, Down(b), conn' \in {"free", "rows", "tx"},
           serving' = [v \in Visitors |-> NoDownload]
    PROVE  IInv'
<1>1. process' \in ProcessRow /\ Carried'
  BY DownStep DEF IInv
<1>2. Loaded'
  BY DEF Loaded, LoadedOK
<1>3. schema' \subseteq Everything /\ serving' \in [Visitors -> [sub : Nat, file : Nat, revision : Nat]]
  BY DEF IInv, LTypeOK, NoDownload, NoFile
<1>4. LTypeOK'
  BY <1>1, <1>3, RowsKept DEF LTypeOK
<1> QED BY <1>1, <1>2, <1>3, <1>4, RowsKept DEF IInv

----------------------------------------------------------------------------
(* The transaction that initialises the counts.                            *)

LEMMA FirstCountsEffect ==
    ASSUME NEW d, Tables(d), NEW e, e = WithFirstCounts(d)
    PROVE  /\ Tables(e)
           /\ DOMAIN e.subs = DOMAIN d.subs
           /\ \A s \in DOMAIN d.subs :
                 /\ e.subs[s].type = d.subs[s].type
                 /\ e.subs[s].file = d.subs[s].file
                 /\ e.subs[s].revision = d.subs[s].revision
                 /\ d.subs[s].type = "file" => e.subs[s].current = Promised(d, s)
<1> DEFINE S == [s \in DOMAIN d.subs |-> WithFirstCount(d, s)]
<1>1. ASSUME NEW s \in DOMAIN d.subs
      PROVE  /\ WithFirstCount(d, s) \in SubRow
             /\ WithFirstCount(d, s).type = d.subs[s].type
             /\ WithFirstCount(d, s).file = d.subs[s].file
             /\ WithFirstCount(d, s).revision = d.subs[s].revision
             /\ d.subs[s].type = "file" => WithFirstCount(d, s).current = Promised(d, s)
  <2>1. d.subs[s] \in SubRow
    BY SubRowOf
  <2>2. CASE d.subs[s].type = "file"
    <3> DEFINE n == Count(d.stats, <<d.subs[s].file, s>>)
    <3>1. n \in Nat
      BY DEF Tables, Count
    <3>2. WithFirstCount(d, s) = [d.subs[s] EXCEPT !.current = n] /\ Promised(d, s) = n
      BY <2>2 DEF WithFirstCount, Promised
    <3> HIDE DEF n
    <3> QED BY <2>1, <3>1, <3>2 DEF SubRow
  <2>3. CASE d.subs[s].type # "file"
    BY <2>1, <2>3 DEF WithFirstCount
  <2> QED BY <2>2, <2>3
<1>2. S \in [DOMAIN S -> SubRow] /\ DOMAIN S \subseteq Nat /\ DOMAIN S = DOMAIN d.subs
  BY <1>1 DEF Tables
<1>3. e = WithSubs(d, S)
  BY DEF WithFirstCounts
<1>4. \A s \in DOMAIN d.subs : S[s] = WithFirstCount(d, s)
  OBVIOUS
<1> HIDE DEF S
<1>5. Tables(e) /\ e.subs = S
  BY <1>2, <1>3, WithSubsEffect
<1> QED BY <1>1, <1>2, <1>4, <1>5

LEMMA CommitCounterStep == IInv /\ CommitCounter => IInv'
<1> SUFFICES ASSUME IInv, CommitCounter PROVE IInv'
  OBVIOUS
<1>1. /\ LTypeOK /\ Carried /\ process.pc = "tx" /\ NextStatement
      /\ schema' = schema \cup {Counter} /\ conn' = "free" /\ UNCHANGED <<serving, counted>>
      /\ Current.makes = Counter /\ process.found = (Counter \in schema)
  BY DEF IInv, CommitCounter, At, Carried
<1>2. Counter \in Everything /\ schema' \subseteq Everything
  <2>1. Current.makes \in Everything /\ schema \subseteq Everything
    BY <1>1, StatementFacts DEF LTypeOK, ProcessRow, Current
  <2> QED BY <1>1, <2>1
<1>3. process' \in ProcessRow /\ Carried'
  BY <1>1, <1>2, NextStatementStep
<1>4. /\ Tables(db') /\ DOMAIN db'.subs = DOMAIN db.subs
      /\ \A s \in DOMAIN db.subs :
            /\ db'.subs[s].type = db.subs[s].type
            /\ db'.subs[s].file = db.subs[s].file
            /\ db'.subs[s].revision = db.subs[s].revision
            /\ db.subs[s].type = "file" => db'.subs[s].current = counted[s]
  <2>1. Tables(db)
    BY <1>1 DEF LTypeOK
  <2>2. CASE Counter \in schema
    <3>1. db' = db
      BY <1>1, <2>2 DEF CommitCounter
    <3>2. CountsSurviveUpgrade
      BY DEF IInv
    <3> QED BY <2>1, <2>2, <3>1, <3>2 DEF CountsSurviveUpgrade, IsFileSub
  <2>3. CASE Counter \notin schema
    <3>1. db' = WithFirstCounts(db)
      BY <1>1, <2>3 DEF CommitCounter
    <3>2. \A s \in DOMAIN db.subs : db.subs[s].type = "file" => counted[s] = Promised(db, s)
      BY <2>3 DEF IInv, NotYetCounted, IsFileSub
    <3> QED BY <2>1, <3>1, <3>2, FirstCountsEffect
  <2> QED BY <2>2, <2>3
<1>5. LTypeOK'
  <2>1. /\ serving \in [Visitors -> [sub : Nat, file : Nat, revision : Nat]]
        /\ counted \in [DOMAIN db.subs -> Nat]
    BY <1>1 DEF LTypeOK
  <2> QED BY <1>1, <1>2, <1>3, <1>4, <2>1 DEF LTypeOK
<1>6. NotYetCounted'
  BY <1>1 DEF NotYetCounted
<1>7. CountsSurviveUpgrade'
  BY <1>1, <1>4 DEF CountsSurviveUpgrade, IsFileSub
<1>8. Loaded'
  BY <1>1, <1>4 DEF IInv, Loaded, LoadedOK
<1> QED BY <1>3, <1>5, <1>6, <1>7, <1>8 DEF IInv

----------------------------------------------------------------------------
(* Serving.                                                                *)

LEMMA CounterThere ==
    ASSUME IInv, process.pc \in {"up", "draining"}
    PROVE  Counter \in schema
<1>1. /\ Statements[17 + 1] = CounterAndSettings[1] /\ 17 + 1 \in DOMAIN Statements
  BY StatementList
<1>2. CounterAndSettings[1].makes = Counter
  BY DEF CounterAndSettings, Creates
<1>3. Counter \in Everything
  BY <1>1, <1>2 DEF Everything
<1> QED BY <1>3 DEF IInv, Carried

(* One subscription changes, and downloads end.                            *)
LEMMA ServingStep ==
    ASSUME IInv, Counter \in schema, UNCHANGED <<schema, process, conn>>,
           NEW s \in DOMAIN db.subs,
           Tables(db'), DOMAIN db'.subs = DOMAIN db.subs,
           \A t \in DOMAIN db.subs \ {s} : db'.subs[t] = db.subs[t],
           db'.subs[s].type = db.subs[s].type,
           \/ /\ db'.subs[s].revision = db.subs[s].revision
              /\ db'.subs[s].file = db.subs[s].file
           \/ db'.subs[s].revision = db.subs[s].revision + 1,
           counted' \in [DOMAIN db.subs -> Nat],
           \A t \in DOMAIN db.subs \ {s} : counted'[t] = counted[t],
           IsFileSub(db, s) => db'.subs[s].current = counted'[s],
           serving' \in [Visitors -> [sub : Nat, file : Nat, revision : Nat]],
           \A v \in Visitors : serving'[v] \in {serving[v], NoDownload}
    PROVE  IInv'
<1>1. LTypeOK'
  BY DEF IInv, LTypeOK
<1>2. Carried' /\ NotYetCounted'
  BY DEF IInv, Carried, NotYetCounted, Current
<1>3. CountsSurviveUpgrade'
  <2>1. ASSUME NEW t \in DOMAIN db.subs, db'.subs[t].type = "file"
        PROVE  db'.subs[t].current = counted'[t]
    <3>1. CASE t = s
      BY <2>1, <3>1 DEF IsFileSub
    <3>2. CASE t # s
      BY <2>1, <3>2 DEF IInv, CountsSurviveUpgrade, IsFileSub
    <3> QED BY <3>1, <3>2
  <2> QED BY <2>1 DEF CountsSurviveUpgrade, IsFileSub
<1>4. Loaded'
  <2>1. ASSUME NEW v \in Visitors, serving'[v] # NoDownload
        PROVE  /\ serving'[v].sub \in DOMAIN db'.subs
               /\ serving'[v].revision <= db'.subs[serving'[v].sub].revision
               /\ serving'[v].revision = db'.subs[serving'[v].sub].revision
                      => serving'[v].file = db'.subs[serving'[v].sub].file
    <3> DEFINE q == serving[v]
    <3>1. serving'[v] = q /\ q # NoDownload
      BY <2>1
    <3>2. /\ q.sub \in DOMAIN db.subs
          /\ q.revision <= db.subs[q.sub].revision
          /\ q.revision = db.subs[q.sub].revision => q.file = db.subs[q.sub].file
      BY <3>1 DEF IInv, Loaded, LoadedOK
    <3>3. q.revision \in Nat
      BY DEF IInv, LTypeOK
    <3>4. db.subs[q.sub].revision \in Nat
      BY <3>2, SubRowOf DEF IInv, LTypeOK, SubRow
    <3> HIDE DEF q
    <3>5. CASE q.sub = s
      BY <3>1, <3>2, <3>3, <3>4, <3>5
    <3>6. CASE q.sub # s
      BY <3>1, <3>2, <3>6
    <3> QED BY <3>5, <3>6
  <2> QED BY <2>1 DEF Loaded, LoadedOK
<1> QED BY <1>1, <1>2, <1>3, <1>4 DEF IInv

LEMMA BeginDownloadStep ==
    ASSUME IInv, NEW v \in Visitors, NEW s \in DOMAIN db.subs, BeginDownload(v, s)
    PROVE  IInv'
<1> DEFINE q == [sub |-> s, file |-> db.subs[s].file, revision |-> db.subs[s].revision]
<1>1. LTypeOK /\ UNCHANGED <<schema, db, process, conn, counted>>
      /\ serving' = [serving EXCEPT ![v] = q]
  BY DEF IInv, BeginDownload
<1>2. q \in [sub : Nat, file : Nat, revision : Nat]
  <2>1. s \in Nat /\ db.subs[s] \in SubRow
    BY <1>1, SubRowOf DEF LTypeOK, Tables
  <2> QED BY <2>1 DEF SubRow
<1>3. LTypeOK'
  <2> HIDE DEF q
  <2> QED BY <1>1, <1>2 DEF LTypeOK
<1>4. Loaded'
  <2>1. q.sub = s /\ q.revision = db.subs[s].revision /\ q.file = db.subs[s].file
    OBVIOUS
  <2>2. q.revision \in Nat
    BY <1>2
  <2> HIDE DEF q
  <2>3. \A w \in Visitors : serving'[w] = IF w = v THEN q ELSE serving[w]
    BY <1>1 DEF LTypeOK
  <2>4. ASSUME NEW w \in Visitors
        PROVE  LoadedOK(serving[w])'
    <3>1. CASE w = v
      BY <1>1, <2>1, <2>2, <2>3, <3>1 DEF LoadedOK
    <3>2. CASE w # v
      BY <1>1, <2>3, <3>2 DEF IInv, Loaded, LoadedOK
    <3> QED BY <3>1, <3>2
  <2> QED BY <2>4 DEF Loaded
<1>5. Carried' /\ NotYetCounted' /\ CountsSurviveUpgrade'
  BY <1>1 DEF IInv, Carried, NotYetCounted, CountsSurviveUpgrade, Current, Promised, IsFileSub
<1> QED BY <1>3, <1>4, <1>5 DEF IInv

LEMMA NoDownloadType == NoDownload \in [sub : Nat, file : Nat, revision : Nat]
BY DEF NoDownload, NoFile

LEMMA EndServing ==
    ASSUME LTypeOK, NEW v \in Visitors, serving' = [serving EXCEPT ![v] = NoDownload]
    PROVE  /\ serving' \in [Visitors -> [sub : Nat, file : Nat, revision : Nat]]
           /\ \A w \in Visitors : serving'[w] \in {serving[w], NoDownload}
BY NoDownloadType DEF LTypeOK

LEMMA DropDownloadStep ==
    ASSUME IInv, NEW v \in Visitors, DropDownload(v)
    PROVE  IInv'
<1>1. LTypeOK /\ UNCHANGED <<schema, db, process, conn, counted>>
      /\ serving' = [serving EXCEPT ![v] = NoDownload]
  BY DEF IInv, DropDownload
<1>2. LTypeOK'
  BY <1>1, EndServing DEF LTypeOK
<1>3. Loaded'
  <2>1. ASSUME NEW w \in Visitors PROVE LoadedOK(serving[w])'
    <3>1. serving'[w] = serving[w] \/ serving'[w] = NoDownload
      BY <1>1, EndServing
    <3> QED BY <1>1, <3>1 DEF IInv, Loaded, LoadedOK
  <2> QED BY <2>1 DEF Loaded
<1>4. Carried' /\ NotYetCounted' /\ CountsSurviveUpgrade'
  BY <1>1 DEF IInv, Carried, NotYetCounted, CountsSurviveUpgrade, Current, Promised, IsFileSub
<1> QED BY <1>2, <1>3, <1>4 DEF IInv

LEMMA RecordDownloadStep ==
    ASSUME IInv, NEW v \in Visitors, RecordDownload(v)
    PROVE  IInv'
<1> DEFINE q == serving[v]
           s == q.sub
           one == IF CountsAsCurrent(db.subs[s], q.file, q.revision) THEN 1 ELSE 0
           now == q.file # NoFile /\ q.revision = db.subs[s].revision
<1>1. /\ process.pc \in {"up", "draining"} /\ q # NoDownload
      /\ s \in DOMAIN db.subs /\ q.file \in DOMAIN db.files \cup {NoFile}
      /\ db' = RecordAccess(db, s, q.file, q.revision)
      /\ counted' = IF now THEN [counted EXCEPT ![s] = @ + 1] ELSE counted
      /\ serving' = [serving EXCEPT ![v] = NoDownload]
      /\ UNCHANGED <<schema, process, conn>>
  BY DEF RecordDownload, At, CanRecordAccess
<1>2. LTypeOK /\ Tables(db) /\ counted \in [DOMAIN db.subs -> Nat]
  BY DEF IInv, LTypeOK
<1>3. Counter \in schema
  BY <1>1, CounterThere
<1>4. now /\ IsFileSub(db, s) <=> CountsAsCurrent(db.subs[s], q.file, q.revision)
  <2>1. q.revision = db.subs[s].revision => q.file = db.subs[s].file
    BY <1>1 DEF IInv, Loaded, LoadedOK
  <2> QED BY <1>1, <2>1 DEF CountsAsCurrent, IsFileSub
<1>5. IsFileSub(db, s) => one = IF now THEN 1 ELSE 0
  BY <1>4
<1>6. /\ Tables(db') /\ DOMAIN db'.subs = DOMAIN db.subs
      /\ \A t \in DOMAIN db.subs \ {s} : db'.subs[t] = db.subs[t]
      /\ db'.subs[s].type = db.subs[s].type
      /\ db'.subs[s].file = db.subs[s].file
      /\ db'.subs[s].revision = db.subs[s].revision
      /\ db'.subs[s].current = db.subs[s].current + one
  <2> DEFINE f == q.file
             loaded == q.revision
  <2>1. one = IF CountsAsCurrent(db.subs[s], f, loaded) THEN 1 ELSE 0
    OBVIOUS
  <2>2. f \in DOMAIN db.files \cup {NoFile} /\ s \in DOMAIN db.subs
    BY <1>1
  <2>3. Tables(db) /\ db' = RecordAccess(db, s, f, loaded)
    BY <1>1, <1>2
  <2> HIDE DEF q, s, one, now, f, loaded
  <2> QED BY <2>1, <2>2, <2>3, RecordAccessEffect
<1> HIDE DEF one, now
<1>7. /\ counted' \in [DOMAIN db.subs -> Nat]
      /\ \A t \in DOMAIN db.subs \ {s} : counted'[t] = counted[t]
      /\ counted'[s] = counted[s] + IF now THEN 1 ELSE 0
  <2> HIDE DEF q, s
  <2>1. counted[s] \in Nat
    BY <1>1, <1>2
  <2>2. CASE now
    BY <1>1, <1>2, <2>1, <2>2
  <2>3. CASE ~now
    BY <1>1, <1>2, <2>1, <2>3
  <2> QED BY <2>2, <2>3
<1>8. IsFileSub(db, s) => db'.subs[s].current = counted'[s]
  <2>1. IsFileSub(db, s) => db.subs[s].current = counted[s]
    BY <1>1, <1>3 DEF IInv, CountsSurviveUpgrade
  <2> HIDE DEF q, s
  <2> QED BY <1>5, <1>6, <1>7, <2>1
<1>9. /\ serving' \in [Visitors -> [sub : Nat, file : Nat, revision : Nat]]
      /\ \A w \in Visitors : serving'[w] \in {serving[w], NoDownload}
  BY <1>1, <1>2, EndServing
<1> HIDE DEF q, s
<1> QED BY <1>1, <1>3, <1>6, <1>7, <1>8, <1>9, ServingStep

(* A statement about one row of subscriptions.                             *)
LEMMA RowStep ==
    ASSUME IInv, At("up"), UNCHANGED <<schema, process, conn, serving>>,
           NEW s \in DOMAIN db.subs, NEW row \in SubRow, db' = SetSub(db, s, row),
           row.type = db.subs[s].type,
           \/ row.revision = db.subs[s].revision /\ row.file = db.subs[s].file
           \/ row.revision = db.subs[s].revision + 1,
           \/ row.current = db.subs[s].current /\ counted' = counted
           \/ row.current = 0 /\ counted' = [counted EXCEPT ![s] = 0]
    PROVE  IInv'
<1>1. /\ LTypeOK /\ Tables(db) /\ counted \in [DOMAIN db.subs -> Nat]
      /\ db.subs \in [DOMAIN db.subs -> SubRow]
      /\ serving \in [Visitors -> [sub : Nat, file : Nat, revision : Nat]]
  BY DEF IInv, LTypeOK, Tables
<1>2. Counter \in schema
  BY CounterThere DEF At
<1>3. Tables(db') /\ db'.subs = [db.subs EXCEPT ![s] = row]
  BY <1>1, SetSubEffect
<1>4. /\ DOMAIN db'.subs = DOMAIN db.subs /\ db'.subs[s] = row
      /\ \A t \in DOMAIN db.subs \ {s} : db'.subs[t] = db.subs[t]
  BY <1>1, <1>3
<1>5. /\ counted' \in [DOMAIN db.subs -> Nat]
      /\ \A t \in DOMAIN db.subs \ {s} : counted'[t] = counted[t]
  BY <1>1
<1>6. IsFileSub(db, s) => row.current = counted'[s]
  <2>1. IsFileSub(db, s) => db.subs[s].current = counted[s]
    BY <1>2 DEF IInv, CountsSurviveUpgrade
  <2> QED BY <1>1, <2>1
<1> QED BY <1>1, <1>2, <1>3, <1>4, <1>5, <1>6, ServingStep

LEMMA ReplaceStep ==
    ASSUME IInv, NEW s \in DOMAIN db.subs, NEW f \in DOMAIN db.files, Replace(s, f)
    PROVE  IInv'
<1>1. Tables(db) /\ db.subs[s] \in SubRow /\ f \in Nat
  BY SubRowOf DEF IInv, LTypeOK, Tables
<1>2. At("up") /\ UNCHANGED <<schema, process, conn, serving>>
  BY DEF Replace
<1>3. CASE db.subs[s].file = f
  <2>1. db' = SetSub(db, s, db.subs[s]) /\ counted' = counted
    BY <1>3 DEF Replace, ReplaceSubscriptionFile
  <2> QED BY <1>1, <1>2, <2>1, RowStep
<1>4. CASE db.subs[s].file # f
  <2> DEFINE row == Repointed(db.subs[s], f)
  <2>1. db' = SetSub(db, s, row) /\ counted' = [counted EXCEPT ![s] = 0]
    BY <1>4 DEF Replace, ReplaceSubscriptionFile
  <2>2. row \in SubRow
    BY <1>1, RepointedRow
  <2>3. /\ row.type = db.subs[s].type /\ row.current = 0
        /\ row.revision = db.subs[s].revision + 1
    BY <1>1 DEF Repointed, SubRow
  <2> HIDE DEF row
  <2> QED BY <1>2, <2>1, <2>2, <2>3, RowStep
<1> QED BY <1>3, <1>4

LEMMA DetachStep ==
    ASSUME IInv, NEW s \in DOMAIN db.subs, Detach(s)
    PROVE  IInv'
<1> DEFINE row == [db.subs[s] EXCEPT !.file = NoFile, !.enabled = FALSE,
                                     !.current = 0, !.revision = @ + 1]
<1>1. db.subs[s] \in SubRow /\ db.subs[s].revision + 1 \in Nat
  BY SubRowOf DEF IInv, LTypeOK, SubRow
<1>2. db' = SetSub(db, s, row) /\ counted' = [counted EXCEPT ![s] = 0]
      /\ At("up") /\ UNCHANGED <<schema, process, conn, serving>>
  BY DEF Detach, DetachSubscriptionFile
<1>3. row \in SubRow
  BY <1>1 DEF SubRow, NoFile
<1>4. /\ row.type = db.subs[s].type /\ row.current = 0
      /\ row.revision = db.subs[s].revision + 1
  BY <1>1 DEF SubRow
<1> HIDE DEF row
<1> QED BY <1>2, <1>3, <1>4, RowStep

LEMMA EnableStep ==
    ASSUME IInv, NEW s \in DOMAIN db.subs, Enable(s)
    PROVE  IInv'
<1> DEFINE row == [db.subs[s] EXCEPT !.enabled = TRUE]
<1>1. db.subs[s] \in SubRow
  BY SubRowOf DEF IInv, LTypeOK
<1>2. db' = SetSub(db, s, row) /\ counted' = counted
      /\ At("up") /\ UNCHANGED <<schema, process, conn, serving>>
  BY DEF Enable, SetSubscriptionEnabled
<1>3. row \in SubRow
  BY <1>1 DEF SubRow
<1>4. /\ row.type = db.subs[s].type /\ row.current = db.subs[s].current
      /\ row.revision = db.subs[s].revision /\ row.file = db.subs[s].file
  BY <1>1 DEF SubRow
<1> HIDE DEF row
<1> QED BY <1>2, <1>3, <1>4, RowStep

----------------------------------------------------------------------------

LEMMA InitIInv == Init => IInv
<1> SUFFICES ASSUME Init PROVE IInv
  OBVIOUS
<1>1. Tables(db) /\ schema \subseteq Everything \ {Counter}
  BY LifecycleAssumption DEF Init
<1>2. process.pc = "down" /\ process.at = 1
  BY DEF Init
<1>3. process \in ProcessRow
  BY StatementList DEF Init, PCs, ProcessRow
<1>4. serving \in [Visitors -> [sub : Nat, file : Nat, revision : Nat]] /\ Loaded
  BY NoDownloadType DEF Init, Loaded, LoadedOK
<1>5. counted \in [DOMAIN db.subs -> Nat]
  <2>1. ASSUME NEW s \in DOMAIN db.subs PROVE Promised(db, s) \in Nat
    BY <1>1 DEF Promised, Count, Tables
  <2> QED BY <2>1 DEF Init
<1>6. LTypeOK
  BY <1>1, <1>3, <1>4, <1>5 DEF LTypeOK, Init
<1>7. NotYetCounted
  BY DEF Init, NotYetCounted
<1>8. Carried /\ CountsSurviveUpgrade
  BY <1>1, <1>2 DEF Carried, CountsSurviveUpgrade
<1> QED BY <1>4, <1>6, <1>7, <1>8 DEF IInv

LEMMA NextIInv == IInv /\ [Next]_vars => IInv'
<1> SUFFICES ASSUME IInv, [Next]_vars PROVE IInv'
  OBVIOUS
<1>1. CASE Launch
  BY <1>1, LaunchStep
<1>2. CASE StartStep
  BY <1>2, CreateMissingStep, InspectStep, ReadTableInfoStep, AddColumnStep, BeginCounterStep,
     CommitCounterStep, RefusedStep, ListenStep DEF StartStep
<1>3. ASSUME NEW v \in Visitors, NEW s \in DOMAIN db.subs, BeginDownload(v, s) PROVE IInv'
  BY <1>3, BeginDownloadStep
<1>4. ASSUME NEW v \in Visitors, RecordDownload(v) PROVE IInv'
  BY <1>4, RecordDownloadStep
<1>5. ASSUME NEW v \in Visitors, DropDownload(v) PROVE IInv'
  BY <1>5, DropDownloadStep
<1>6. ASSUME NEW s \in DOMAIN db.subs, NEW f \in DOMAIN db.files, Replace(s, f) PROVE IInv'
  BY <1>6, ReplaceStep
<1>7. ASSUME NEW s \in DOMAIN db.subs, Detach(s) PROVE IInv'
  BY <1>7, DetachStep
<1>8. ASSUME NEW s \in DOMAIN db.subs, Enable(s) PROVE IInv'
  BY <1>8, EnableStep
<1>9. CASE Signal
  BY <1>9, SignalStep
<1>10. CASE Close
  BY <1>10, StopStep DEF Close, IInv, LTypeOK
<1>11. CASE Kill
  BY <1>11, StopStep DEF Kill
<1>12. CASE UNCHANGED vars
  BY <1>12 DEF vars, IInv, LTypeOK, Carried, Current, NotYetCounted, Promised,
     CountsSurviveUpgrade, IsFileSub, Loaded, LoadedOK
<1> QED
  BY <1>1, <1>2, <1>3, <1>4, <1>5, <1>6, <1>7, <1>8, <1>9, <1>10, <1>11, <1>12 DEF Next

LEMMA Invariant == Spec => []IInv
BY InitIInv, NextIInv, PTL DEF Spec

(* Every variable keeps its type, whatever is broken off and started again *)
(* (cmd/server/main.go, OpenStore, migrate).                               *)
THEOREM TypeCorrect == Spec => []LTypeOK
<1>1. IInv => LTypeOK
  BY DEF IInv
<1> QED BY Invariant, <1>1, PTL

(* From any schema that lacks the counter, not only from those of the three*)
(* releases: no statement of migrate names what is not there, and a server *)
(* that listens has everything (store.go:133).                             *)
THEOREM StartsInOrder == Spec => []SchemaInOrder
<1>1. IInv => SchemaInOrder
  BY CarriedInOrder DEF IInv
<1> QED BY Invariant, <1>1, PTL

(* The counts of the current files are initialised once and from the old   *)
(* totals, no matter where starts are broken off, and then follow the      *)
(* accesses of the current revision (migrateCurrentFetchCount, store.go:251*)
(* and RecordAccess).                                                      *)
THEOREM CountsKept == Spec => []CountsSurviveUpgrade
<1>1. IInv => CountsSurviveUpgrade
  BY DEF IInv
<1> QED BY Invariant, <1>1, PTL
=============================================================================
