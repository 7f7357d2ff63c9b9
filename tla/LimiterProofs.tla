--------------------------- MODULE LimiterProofs ---------------------------
(***************************************************************************)
(* The login limiter for any number of addresses and overlapping logins,   *)
(* any limit, period and bound of the clock.                               *)
(*                                                                         *)
(* Once an address is locked, nobody is let in before the window is over;  *)
(* so the failures that can still be counted in the window are those of the*)
(* logins already let in, and every one that is counted is one less to     *)
(* come.                                                                   *)
(***************************************************************************)
EXTENDS Limiter, FiniteSetTheorems, TLAPS

(* The logins from a that began before the window of e is over: the only   *)
(* ones whose failure can be counted in it.                                *)
InWindow(T, a, e) ==
    {t \in Attempts : T[t].busy /\ T[t].ip = a /\ T[t].since < e.start + Period}

(* An entry of a at time n, with the logins T in progress.                 *)
EntryOK(T, n, a, e) ==
    /\ 1 <= e.start /\ e.start <= n
    /\ e.until <= n + Period
    /\ Limit <= e.count =>
          /\ e.start + Period <= e.until
          /\ e.count + Cardinality(InWindow(T, a, e)) <= Limit - 1 + Cardinality(Attempts)

TryOK(t) ==
    try[t].busy =>
        /\ try[t].since <= now
        /\ \A a \in DOMAIN attempts :
              try[t].ip = a /\ now < attempts[a].until => try[t].since + Period <= attempts[a].until

IInv ==
    /\ TypeOK
    /\ 1 <= now
    /\ \A a \in DOMAIN attempts : EntryOK(try, now, a, attempts[a])
    /\ \A t \in Attempts : TryOK(t)

----------------------------------------------------------------------------

LEMMA NoneFacts ==
  /\ None \in [busy : BOOLEAN, ip : Addresses, since : Nat]
  /\ ~None.busy
BY ClientsAssumption DEF None

(* The logins that can still be counted are at most all of them.           *)
LEMMA InWindowFinite ==
  ASSUME NEW T, NEW a, NEW e
  PROVE  /\ IsFiniteSet(InWindow(T, a, e))
         /\ Cardinality(InWindow(T, a, e)) \in Nat
         /\ Cardinality(Attempts) \in Nat
<1>1. InWindow(T, a, e) \subseteq Attempts
  BY DEF InWindow
<1> QED
  BY <1>1, ClientsAssumption, FS_Subset, FS_CardinalityType

LEMMA InitEstablishes == Init => IInv
<1> SUFFICES ASSUME Init PROVE IInv
  OBVIOUS
<1>1. TypeOK
  BY NoneFacts DEF Init, TypeOK
<1>2. \A t \in Attempts : TryOK(t)
  BY NoneFacts DEF Init, TryOK
<1> QED
  BY <1>1, <1>2 DEF Init, IInv

(* What one more failure makes of an entry: either it is counted in the    *)
(* window that is open, or it opens one.                                   *)
LEMMA FailedFacts ==
  ASSUME IInv, NEW a \in Addresses, NEW f, f = Failed(Get(a))
  PROVE  /\ f \in Entry
         /\ Limit <= f.count => f.until = now + Period
         /\ \/ /\ f.count = 1 /\ f.start = now /\ f.until \in {0, now + Period}
            \/ /\ a \in DOMAIN attempts
               /\ now <= attempts[a].start + Period
               /\ f.start = attempts[a].start
               /\ f.count = attempts[a].count + 1
               /\ f.until \in {attempts[a].until, now + Period}
<1> DEFINE e == Get(a)
           w == IF e.start = 0 \/ now - e.start > Period THEN [NoEntry EXCEPT !.start = now] ELSE e
           until == IF w.count + 1 >= Limit THEN now + Period ELSE w.until
<1>1. /\ now \in Nat /\ Limit \in Nat \ {0} /\ Period \in Nat \ {0}
      /\ attempts \in [DOMAIN attempts -> Entry]
  BY LimitAssumption DEF IInv, TypeOK
<1>2. NoEntry \in Entry /\ NoEntry.start = 0
  BY DEF NoEntry, Entry
<1>3. e \in Entry /\ (e.start # 0 => a \in DOMAIN attempts /\ e = attempts[a])
  BY <1>1, <1>2 DEF Get
<1>4. \/ w = e /\ a \in DOMAIN attempts /\ e = attempts[a] /\ now - e.start <= Period
      \/ w \in Entry /\ w.count = 0 /\ w.start = now /\ w.until = 0
  <2>1. e.start \in Nat
    BY <1>3 DEF Entry
  <2>2. CASE e.start = 0 \/ now - e.start > Period
    <3>1. w = [NoEntry EXCEPT !.start = now]
      BY <2>2
    <3> HIDE DEF w
    <3> QED
      BY <1>1, <3>1 DEF NoEntry, Entry
  <2>3. CASE ~(e.start = 0 \/ now - e.start > Period)
    <3>1. w = e /\ now - e.start <= Period
      BY <1>1, <2>1, <2>3
    <3> QED
      BY <3>1, <2>3, <1>3
  <2> QED
    BY <2>2, <2>3
<1>5. w \in Entry
  BY <1>3, <1>4
<1>6. f = [w EXCEPT !.count = w.count + 1, !.until = until]
  BY DEF Failed
<1>7. e.start \in Nat /\ e.until \in Nat /\ e.count \in Nat
  BY <1>3 DEF Entry
<1>8. w.start \in Nat /\ w.until \in Nat /\ w.count \in Nat /\ until \in Nat
  BY <1>1, <1>5 DEF Entry
<1> HIDE DEF e, w, until
<1>9. f \in Entry /\ f.count = w.count + 1 /\ f.start = w.start /\ f.until = until
  <2>1. w = [count |-> w.count, start |-> w.start, until |-> w.until]
    BY <1>5 DEF Entry
  <2>2. f = [count |-> w.count + 1, start |-> w.start, until |-> until]
    BY <1>6, <2>1
  <2> QED
    BY <1>8, <2>2 DEF Entry
<1>10. CASE /\ w = e /\ a \in DOMAIN attempts /\ e = attempts[a] /\ now - e.start <= Period
  BY <1>1, <1>7, <1>9, <1>10 DEF until
<1>11. CASE w.count = 0 /\ w.start = now /\ w.until = 0
  BY <1>1, <1>9, <1>11 DEF until
<1> QED
  BY <1>4, <1>10, <1>11

(* A login is let in: to a locked address only after the window.           *)
LEMMA AskStep ==
  ASSUME IInv, NEW t \in Attempts, NEW a \in Addresses, Ask(t, a)
  PROVE  IInv'
<1> DEFINE row == [busy |-> TRUE, ip |-> a, since |-> now]
<1>1. /\ now \in Nat /\ Period \in Nat /\ Limit \in Nat
      /\ attempts \in [DOMAIN attempts -> Entry]
      /\ try \in [Attempts -> [busy : BOOLEAN, ip : Addresses, since : Nat]]
  BY LimitAssumption DEF IInv, TypeOK
<1>2. /\ ~try[t].busy /\ UNCHANGED <<attempts, now>>
      /\ try' = [try EXCEPT ![t] = row]
      /\ a \in DOMAIN attempts => ~(now < attempts[a].until)
  BY DEF Ask, allowed, Get
<1>3. row \in [busy : BOOLEAN, ip : Addresses, since : Nat]
      /\ row.busy /\ row.ip = a /\ row.since = now
  BY <1>1
<1> HIDE DEF row
<1>4. \A u \in Attempts : try'[u] = IF u = t THEN row ELSE try[u]
  BY <1>1, <1>2
<1>5. TypeOK'
  BY <1>1, <1>2, <1>3 DEF IInv, TypeOK
<1>6. ASSUME NEW b \in DOMAIN attempts
      PROVE  EntryOK(try', now', b, attempts'[b])
  <2> DEFINE e == attempts[b]
  <2>1. EntryOK(try, now, b, e) /\ attempts'[b] = e /\ e.start \in Nat /\ e.until \in Nat
    BY <1>1, <1>2 DEF IInv, Entry
  <2> HIDE DEF e
  <2>2. CASE Limit <= e.count
    <3>1. e.start + Period <= e.until
      BY <2>1, <2>2 DEF EntryOK
    <3>2. ~(t \in InWindow(try, b, e)) /\ ~(t \in InWindow(try', b, e))
      BY <1>1, <1>2, <1>3, <1>4, <2>1, <3>1 DEF InWindow
    <3>3. InWindow(try', b, e) = InWindow(try, b, e)
      BY <1>2, <1>4, <3>2 DEF InWindow
    <3> QED
      BY <1>2, <2>1, <3>3 DEF EntryOK
  <2>3. CASE ~(Limit <= e.count)
    BY <1>2, <2>1, <2>3 DEF EntryOK
  <2> QED
    BY <2>2, <2>3
<1>7. ASSUME NEW u \in Attempts
      PROVE  TryOK(u)'
  BY <1>1, <1>2, <1>3, <1>4 DEF IInv, TryOK
<1> QED
  BY <1>2, <1>5, <1>6, <1>7 DEF IInv

(* A login ends: there is one login less to fail in the window.            *)
LEMMA EndFacts ==
  ASSUME IInv, NEW t \in Attempts, End(t)
  PROVE  /\ try' \in [Attempts -> [busy : BOOLEAN, ip : Addresses, since : Nat]]
         /\ ~try'[t].busy
         /\ \A u \in Attempts : u # t => try'[u] = try[u]
         /\ \A a, e : InWindow(try', a, e) = InWindow(try, a, e) \ {t}
<1>1. try \in [Attempts -> [busy : BOOLEAN, ip : Addresses, since : Nat]]
  BY DEF IInv, TypeOK
<1>2. try' = [try EXCEPT ![t] = None]
  BY DEF End
<1>3. /\ try' \in [Attempts -> [busy : BOOLEAN, ip : Addresses, since : Nat]]
      /\ ~try'[t].busy
      /\ \A u \in Attempts : u # t => try'[u] = try[u]
  BY <1>1, <1>2, NoneFacts
<1>4. \A a, e : InWindow(try', a, e) = InWindow(try, a, e) \ {t}
  BY <1>3 DEF InWindow
<1> QED
  BY <1>3, <1>4

LEMMA FailStep == ASSUME IInv, NEW t \in Attempts, fail(t) PROVE IInv'
<1> DEFINE a == try[t].ip
           N == Cardinality(Attempts)
<1>1. /\ now \in Nat /\ Period \in Nat /\ Limit \in Nat \ {0} /\ 1 <= now
      /\ attempts \in [DOMAIN attempts -> Entry]
      /\ try \in [Attempts -> [busy : BOOLEAN, ip : Addresses, since : Nat]]
      /\ a \in Addresses /\ try[t].since \in Nat
  BY LimitAssumption DEF IInv, TypeOK
<1>f. PICK f : f = Failed(Get(a))
  OBVIOUS
<1>2. /\ try[t].busy /\ try[t].since < now /\ now' = now
      /\ attempts' = [b \in DOMAIN attempts \cup {a} |-> IF b = a THEN f ELSE attempts[b]]
  BY <1>1, <1>f DEF fail, End, Store
<1>3. /\ f \in Entry
      /\ Limit <= f.count => f.until = now + Period
      /\ \/ /\ f.count = 1 /\ f.start = now /\ f.until \in {0, now + Period}
         \/ /\ a \in DOMAIN attempts
            /\ now <= attempts[a].start + Period
            /\ f.start = attempts[a].start
            /\ f.count = attempts[a].count + 1
            /\ f.until \in {attempts[a].until, now + Period}
  BY <1>1, <1>f, FailedFacts
<1>4. f.count \in Nat /\ f.start \in Nat /\ f.until \in Nat
  BY <1>3 DEF Entry
<1>5. /\ DOMAIN attempts' = DOMAIN attempts \cup {a}
      /\ attempts'[a] = f
      /\ \A b \in DOMAIN attempts : b # a => attempts'[b] = attempts[b]
  BY <1>2
<1>6. TypeOK'
  <2>1. attempts' \in [DOMAIN attempts' -> Entry]
    BY <1>1, <1>2, <1>3
  <2>2. try' \in [Attempts -> [busy : BOOLEAN, ip : Addresses, since : Nat]]
    BY EndFacts DEF fail
  <2> QED
    BY <1>1, <1>2, <1>5, <2>1, <2>2 DEF IInv, TypeOK
<1>7. \A b, e : InWindow(try', b, e) = InWindow(try, b, e) \ {t}
  BY EndFacts DEF fail
<1>8. ASSUME NEW b, NEW e
      PROVE  /\ Cardinality(InWindow(try', b, e)) \in Nat
             /\ Cardinality(InWindow(try, b, e)) \in Nat
             /\ N \in Nat
             /\ t \in InWindow(try, b, e) =>
                   Cardinality(InWindow(try', b, e)) = Cardinality(InWindow(try, b, e)) - 1
             /\ Cardinality(InWindow(try', b, e)) <= Cardinality(InWindow(try, b, e))
             /\ Cardinality(InWindow(try', b, e)) <= N - 1
  <2> DEFINE W == InWindow(try, b, e)
             V == InWindow(try', b, e)
  <2>0. V = W \ {t}
    BY <1>7
  <2>a. W \subseteq Attempts
    BY DEF InWindow
  <2>b. IsFiniteSet(W) /\ IsFiniteSet(Attempts)
    BY InWindowFinite, ClientsAssumption
  <2>1. V = W \ {t} /\ W \subseteq Attempts /\ IsFiniteSet(W) /\ IsFiniteSet(Attempts)
    BY <2>0, <2>a, <2>b
  <2> HIDE DEF W, V
  <2>2. IsFiniteSet(V) /\ Cardinality(V) = IF t \in W THEN Cardinality(W) - 1 ELSE Cardinality(W)
    BY <2>1, FS_RemoveElement
  <2>3. Cardinality(W) \in Nat /\ Cardinality(V) \in Nat /\ N \in Nat
    BY <2>1, <2>2, FS_CardinalityType
  <2>4. IsFiniteSet(Attempts \ {t}) /\ Cardinality(Attempts \ {t}) = N - 1
    BY <2>1, FS_RemoveElement
  <2>5. V \subseteq Attempts \ {t}
    BY <2>1
  <2>6. Cardinality(V) <= N - 1
    BY <2>4, <2>5, FS_Subset
  <2> QED
    BY <2>2, <2>3, <2>6 DEF W, V
<1> HIDE DEF N
<1>9. EntryOK(try', now', a, f)
  <2>1. 1 <= f.start /\ f.start <= now /\ f.until <= now + Period
    <3>1. CASE f.count = 1 /\ f.start = now /\ f.until \in {0, now + Period}
      BY <1>1, <3>1
    <3>2. CASE /\ a \in DOMAIN attempts /\ f.start = attempts[a].start
               /\ f.until \in {attempts[a].until, now + Period}
      <4>1. EntryOK(try, now, a, attempts[a])
        BY <3>2 DEF IInv
      <4> QED
        BY <1>1, <3>2, <4>1 DEF EntryOK
    <3> QED
      BY <1>3, <3>1, <3>2
  <2>2. ASSUME Limit <= f.count
        PROVE  /\ f.start + Period <= f.until
               /\ f.count + Cardinality(InWindow(try', a, f)) <= Limit - 1 + N
    <3>1. f.start + Period <= f.until
      BY <1>1, <1>3, <1>4, <2>1, <2>2
    <3>2. CASE f.count = Limit
      BY <1>1, <1>8, <3>1, <3>2
    <3>3. CASE f.count # Limit
      <4>1. /\ a \in DOMAIN attempts
            /\ now <= attempts[a].start + Period
            /\ f.start = attempts[a].start
            /\ f.count = attempts[a].count + 1
        BY <1>1, <1>3, <2>2, <3>3
      <4>2. attempts[a] \in Entry /\ EntryOK(try, now, a, attempts[a])
        BY <1>1, <4>1 DEF IInv
      <4>3. attempts[a].count \in Nat /\ attempts[a].start \in Nat
        BY <4>2 DEF Entry
      <4>4. Limit <= attempts[a].count
        BY <1>1, <2>2, <3>3, <4>1, <4>3
      <4>5. attempts[a].count + Cardinality(InWindow(try, a, attempts[a])) <= Limit - 1 + N
        BY <4>2, <4>4 DEF EntryOK, N
      <4>6. InWindow(try, a, attempts[a]) = InWindow(try, a, f)
        BY <4>1 DEF InWindow
      <4>7. t \in InWindow(try, a, f)
        BY <1>1, <1>2, <4>1, <4>3 DEF InWindow
      <4>8. Cardinality(InWindow(try', a, f)) = Cardinality(InWindow(try, a, f)) - 1
        BY <1>8, <4>7
      <4> QED
        BY <1>1, <1>8, <3>1, <4>1, <4>3, <4>5, <4>6, <4>8
    <3> QED
      BY <3>1, <3>2, <3>3
  <2> QED
    BY <1>2, <2>1, <2>2 DEF EntryOK, N
<1>10. ASSUME NEW b \in DOMAIN attempts, b # a
       PROVE  EntryOK(try', now', b, attempts'[b])
  <2> DEFINE e == attempts[b]
  <2>1. EntryOK(try, now, b, e) /\ attempts'[b] = e /\ e.count \in Nat
    BY <1>1, <1>5, <1>10 DEF IInv, Entry
  <2> HIDE DEF e
  <2>2. Limit <= e.count => e.count + Cardinality(InWindow(try', b, e)) <= Limit - 1 + N
    BY <1>1, <1>8, <2>1 DEF EntryOK, N
  <2> QED
    BY <1>2, <2>1, <2>2 DEF EntryOK, e, N
<1>11. ASSUME NEW u \in Attempts
       PROVE  TryOK(u)'
  <2>1. CASE u = t
    BY <2>1, EndFacts DEF fail, TryOK
  <2>2. CASE u # t
    <3>1. try'[u] = try[u] /\ TryOK(u) /\ try[u].since \in Nat
      BY <1>1, <2>2, EndFacts DEF fail, IInv
    <3>2. ASSUME try[u].busy, try[u].ip = a, now < f.until
          PROVE  try[u].since + Period <= f.until
      <4>1. try[u].since <= now
        BY <3>1, <3>2 DEF TryOK
      <4>2. CASE f.until = now + Period
        BY <1>1, <3>1, <4>1, <4>2
      <4>3. CASE a \in DOMAIN attempts /\ f.until = attempts[a].until
        BY <3>1, <3>2, <4>3 DEF TryOK
      <4>4. CASE f.until = 0
        BY <1>1, <3>2, <4>4
      <4> QED
        BY <1>3, <4>2, <4>3, <4>4
    <3> QED
      BY <1>2, <1>5, <3>1, <3>2 DEF TryOK
  <2> QED
    BY <2>1, <2>2
<1>12. \A b \in DOMAIN attempts' : EntryOK(try', now', b, attempts'[b])
  BY <1>5, <1>9, <1>10
<1> QED
  BY <1>1, <1>2, <1>6, <1>11, <1>12 DEF IInv

LEMMA SuccessStep == ASSUME IInv, NEW t \in Attempts, success(t) PROVE IInv'
<1>1. /\ now \in Nat /\ Period \in Nat /\ Limit \in Nat \ {0}
      /\ attempts \in [DOMAIN attempts -> Entry]
      /\ now' = now
  BY LimitAssumption DEF IInv, TypeOK, success, End
<1>2. /\ DOMAIN attempts' \subseteq DOMAIN attempts
      /\ \A b \in DOMAIN attempts' : attempts'[b] = attempts[b]
      /\ attempts' \in [DOMAIN attempts' -> Entry]
  BY <1>1 DEF success
<1>3. TypeOK'
  BY <1>1, <1>2, EndFacts DEF IInv, TypeOK, success
<1>4. ASSUME NEW b \in DOMAIN attempts'
      PROVE  EntryOK(try', now', b, attempts'[b])
  <2> DEFINE e == attempts[b]
  <2>1. EntryOK(try, now, b, e) /\ attempts'[b] = e /\ e.count \in Nat
    BY <1>1, <1>2 DEF IInv, Entry
  <2> HIDE DEF e
  <2>2. InWindow(try', b, e) \subseteq InWindow(try, b, e)
    BY EndFacts DEF success
  <2>3. Cardinality(InWindow(try', b, e)) <= Cardinality(InWindow(try, b, e))
    BY <2>2, InWindowFinite, FS_Subset
  <2>4. Cardinality(InWindow(try', b, e)) \in Nat
    BY <2>2, InWindowFinite, FS_Subset, FS_CardinalityType
  <2>5. Limit <= e.count =>
            e.count + Cardinality(InWindow(try', b, e)) <= Limit - 1 + Cardinality(Attempts)
    BY <1>1, <2>1, <2>3, <2>4, InWindowFinite DEF EntryOK
  <2> QED
    BY <1>1, <2>1, <2>5 DEF EntryOK, e
<1>5. ASSUME NEW u \in Attempts
      PROVE  TryOK(u)'
  <2>1. CASE u = t
    BY <2>1, EndFacts DEF success, TryOK
  <2>2. CASE u # t
    BY <1>1, <1>2, <2>2, EndFacts DEF success, TryOK, IInv
  <2> QED
    BY <2>1, <2>2
<1> QED
  BY <1>1, <1>3, <1>4, <1>5 DEF IInv

LEMMA TickStep == ASSUME IInv, Tick PROVE IInv'
<1>1. /\ now \in Nat /\ now' = now + 1 /\ Period \in Nat /\ UNCHANGED <<attempts, try>>
      /\ attempts \in [DOMAIN attempts -> Entry]
      /\ try \in [Attempts -> [busy : BOOLEAN, ip : Addresses, since : Nat]]
  BY LimitAssumption DEF IInv, TypeOK, Tick
<1>2. TypeOK'
  BY <1>1 DEF IInv, TypeOK
<1>3. ASSUME NEW b \in DOMAIN attempts
      PROVE  EntryOK(try', now', b, attempts'[b])
  <2>1. /\ EntryOK(try, now, b, attempts[b]) /\ attempts[b].start \in Nat /\ attempts[b].until \in Nat
        /\ InWindow(try', b, attempts[b]) = InWindow(try, b, attempts[b])
    BY <1>1 DEF IInv, Entry, InWindow
  <2> QED
    BY <1>1, <2>1 DEF EntryOK
<1>4. ASSUME NEW u \in Attempts
      PROVE  TryOK(u)'
  <2>1. \A b \in DOMAIN attempts : attempts[b].until \in Nat
    BY <1>1 DEF Entry
  <2>2. TryOK(u) /\ try[u].since \in Nat
    BY <1>1 DEF IInv
  <2> QED
    BY <1>1, <2>1, <2>2 DEF TryOK
<1> QED
  BY <1>1, <1>2, <1>3, <1>4 DEF IInv

LEMMA RestartStep == ASSUME IInv, Restart PROVE IInv'
<1>1. TypeOK'
  BY NoneFacts DEF IInv, TypeOK, Restart
<1>2. \A t \in Attempts : TryOK(t)'
  BY NoneFacts DEF Restart, TryOK
<1> QED
  BY <1>1, <1>2 DEF IInv, Restart

LEMMA InductiveStep == IInv /\ [Next]_vars => IInv'
<1> SUFFICES ASSUME IInv, [Next]_vars PROVE IInv'
  OBVIOUS
<1>1. CASE UNCHANGED vars
  BY <1>1 DEF vars, IInv, TypeOK, EntryOK, InWindow, TryOK
<1> QED
  BY <1>1, AskStep, FailStep, SuccessStep, TickStep, RestartStep DEF Next

LEMMA Invariance == Spec => []IInv
  BY InitEstablishes, InductiveStep, PTL DEF Spec

----------------------------------------------------------------------------

(* Every variable keeps its type: an address has one entry, whatever the   *)
(* logins from it do.                                                      *)
THEOREM TypeCorrect == Spec => []TypeOK
<1>1. IInv => TypeOK
  BY DEF IInv
<1> QED
  BY <1>1, Invariance, PTL

(* A window sees at most Limit failures and one for every other login that *)
(* was under way when the lock was set, however many overlap and however   *)
(* they are interleaved with the clock (allowed, fail and success).        *)
THEOREM GuessesBounded == Spec => []GuessesPerWindow
<1>1. ASSUME IInv, NEW a \in DOMAIN attempts
      PROVE  attempts[a].count <= Limit - 1 + Cardinality(Attempts)
  <2> DEFINE e == attempts[a]
  <2>1. EntryOK(try, now, a, e) /\ e.count \in Nat /\ Limit \in Nat \ {0}
    BY <1>1, LimitAssumption DEF IInv, TypeOK, Entry
  <2> HIDE DEF e
  <2>2. Cardinality(InWindow(try, a, e)) \in Nat /\ Cardinality(Attempts) \in Nat
    BY InWindowFinite
  <2>3. e.count <= Limit - 1 + Cardinality(Attempts)
    BY <2>1, <2>2 DEF EntryOK
  <2> QED
    BY <2>3 DEF e
<1>2. IInv => GuessesPerWindow
  BY <1>1 DEF GuessesPerWindow
<1> QED
  BY <1>2, Invariance, PTL

(* A login that came while its address was locked never shortens the lock; *)
(* one that overlaps the setting of the lock may, and so may a restart.    *)
THEOREM OnlyOverlapsLift == Spec => OnlyOverlapsLiftLocks
<1> DEFINE Lifted(a) ==
             /\ now < attempts[a].until
             /\ ~(a \in DOMAIN attempts' /\ attempts'[a].until >= attempts[a].until)
           By(a) ==
             \/ Restart
             \/ \E t \in Attempts :
                   /\ End(t)
                   /\ try[t].ip = a
                   /\ try[t].since + Period <= attempts[a].until
<1>1. ASSUME IInv, [Next]_vars, NEW a \in DOMAIN attempts, Lifted(a)
      PROVE  By(a)
  <2>1. /\ attempts \in [DOMAIN attempts -> Entry] /\ now \in Nat /\ a \in Addresses
        /\ attempts[a].until \in Nat /\ Period \in Nat
    BY <1>1, LimitAssumption DEF IInv, TypeOK, Entry
  <2>2. ASSUME attempts' = attempts PROVE FALSE
    BY <1>1, <2>1, <2>2
  <2>3. ASSUME NEW t \in Attempts, fail(t) \/ success(t)
        PROVE  By(a)
    <3>1. End(t) /\ try[t].busy
      BY <2>3 DEF fail, success, End
    <3>2. CASE try[t].ip = a
      BY <1>1, <3>1, <3>2 DEF IInv, TryOK
    <3>3. CASE try[t].ip # a
      <4>1. a \in DOMAIN attempts' /\ attempts'[a] = attempts[a]
        BY <2>3, <3>3 DEF fail, Store, success
      <4> QED
        BY <1>1, <2>1, <4>1
    <3> QED
      BY <3>2, <3>3
  <2>4. CASE \/ UNCHANGED vars \/ Tick
             \/ \E t \in Attempts, b \in Addresses : Ask(t, b)
    BY <2>2, <2>4 DEF vars, Tick, Ask
  <2> QED
    BY <1>1, <2>3, <2>4 DEF Next
<1>2. IInv /\ [Next]_vars => [\A a \in DOMAIN attempts : Lifted(a) => By(a)]_vars
  BY <1>1
<1> QED
  BY <1>2, Invariance, PTL DEF Spec, OnlyOverlapsLiftLocks
=============================================================================
