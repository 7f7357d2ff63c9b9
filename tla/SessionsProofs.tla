--------------------------- MODULE SessionsProofs ---------------------------
(***************************************************************************)
(* Sessions and passwords for any number of requests, sessions and changes *)
(* of the password.                                                        *)
(*                                                                         *)
(* The version orders the passwords in time.  What has to be carried from  *)
(* step to step is that whoever holds a version, be it a session in the    *)
(* table or a request about to create one, never holds a later one than    *)
(* the settings, and holds the current one only with the current password. *)
(***************************************************************************)
EXTENDS Sessions, TLAPS

(* What goes with a version, seen from the settings of the moment.         *)
Dated(version, password, cfg) ==
    /\ version <= cfg.version
    /\ version = cfg.version => password = cfg.password

SessionsDated == \A t \in DOMAIN sessions : Dated(sessions[t].version, proved[t], settings)
RequestsDated ==
    \A r \in Requests : req[r].pc = "create" => Dated(req[r].version, req[r].password, settings)

IInv == TypeOK /\ SessionsDated /\ RequestsDated

LEMMA IdleOK == Idle \in ReqRow /\ Idle.pc = "idle"
  BY InitialAssumption DEF Idle, ReqRow, PCs

LEMMA InitEstablishes == Init => IInv
<1> SUFFICES ASSUME Init PROVE IInv
  OBVIOUS
<1>1. FirstSettings \in [password : Passwords, version : Nat, must : BOOLEAN]
  BY InitialAssumption DEF FirstSettings
<1>2. TypeOK
  BY <1>1, IdleOK DEF Init, TypeOK
<1>3. SessionsDated /\ RequestsDated
  BY IdleOK DEF Init, SessionsDated, RequestsDated
<1> QED
  BY <1>2, <1>3 DEF IInv

(* A request that moves on without holding a session to create changes     *)
(* nothing that the invariant speaks of.                                   *)
LEMMA QuietStep ==
  ASSUME IInv, NEW r \in Requests, NEW row \in ReqRow,
         row.pc = "create" => Dated(row.version, row.password, settings),
         Goto(r, row), UNCHANGED <<settings, sessions, proved>>
  PROVE  IInv'
<1>1. req' \in [Requests -> ReqRow]
  BY DEF IInv, TypeOK, Goto
<1>2. TypeOK'
  BY <1>1 DEF IInv, TypeOK
<1>3. SessionsDated'
  BY DEF IInv, SessionsDated
<1>4. ASSUME NEW q \in Requests, req'[q].pc = "create"
      PROVE  Dated(req'[q].version, req'[q].password, settings)
  <2>1. req'[q] = IF q = r THEN row ELSE req[q]
    BY DEF IInv, TypeOK, Goto
  <2> QED
    BY <1>4, <2>1 DEF IInv, RequestsDated
<1>5. RequestsDated'
  BY <1>4 DEF RequestsDated
<1> QED
  BY <1>2, <1>3, <1>5 DEF IInv

LEMMA LoginStep ==
  ASSUME IInv, NEW r \in Requests, NEW p \in Passwords, Login(r, p)
  PROVE  IInv'
<1> DEFINE row == [Idle EXCEPT !.pc = "create", !.version = settings.version,
                               !.password = p]
<1>1. row \in ReqRow /\ row.version = settings.version /\ row.password = settings.password
  BY IdleOK DEF Login, Idle, ReqRow, PCs, IInv, TypeOK
<1>2. settings.version \in Nat
  BY DEF IInv, TypeOK
<1>3. Dated(row.version, row.password, settings)
  BY <1>1, <1>2 DEF Dated
<1> HIDE DEF row
<1> QED
  BY <1>1, <1>3, QuietStep DEF Login, row

LEMMA LoadStep ==
  ASSUME IInv, NEW r \in Requests,
         LoadSettings(r) \/ \E t \in DOMAIN sessions : LoadSession(r, t)
  PROVE  IInv'
<1>1. CASE LoadSettings(r)
  <2> DEFINE row == [req[r] EXCEPT !.pc = "admin", !.password = settings.password,
                                   !.must = settings.must]
  <2>1. row \in ReqRow /\ row.pc # "create"
    BY DEF ReqRow, PCs, IInv, TypeOK
  <2> HIDE DEF row
  <2> QED
    BY <1>1, <2>1, QuietStep DEF LoadSettings, row
<1>2. ASSUME NEW t \in DOMAIN sessions, LoadSession(r, t)
      PROVE  IInv'
  <2> DEFINE row == [Idle EXCEPT !.pc = "session", !.token = t,
                                 !.version = settings.version]
  <2> t \in Nat
    BY DEF IInv, TypeOK
  <2>1. row \in ReqRow /\ row.pc # "create"
    BY <1>2, IdleOK DEF Idle, ReqRow, PCs, IInv, TypeOK
  <2> HIDE DEF row
  <2> QED
    BY <1>2, <2>1, QuietStep DEF LoadSession, row
<1> QED
  BY <1>1, <1>2

LEMMA CheckStep ==
  ASSUME IInv, NEW r \in Requests, NEW p \in Passwords, NEW q \in Passwords,
         CheckChange(r, p, q)
  PROVE  IInv'
<1> DEFINE row == [req[r] EXCEPT !.pc = "store", !.new = q]
<1>1. row \in ReqRow /\ row.pc # "create"
  BY DEF ReqRow, PCs, IInv, TypeOK
<1> HIDE DEF row
<1> QED
  BY <1>1, QuietStep DEF CheckChange, row

LEMMA LeaveStep == ASSUME IInv, NEW r \in Requests, Leave(r) PROVE IInv'
  BY IdleOK, QuietStep DEF Leave

(* The session gets what its request held.                                 *)
LEMMA CreateStep ==
  ASSUME IInv, NEW r \in Requests, NEW t \in Nat \ {0}, CreateSession(r, t)
  PROVE  IInv'
<1> USE DEF CreateSession, Goto, At
<1>1. req[r] \in ReqRow
  BY DEF IInv, TypeOK
<1>2. req[r].version \in Nat /\ req[r].password \in Passwords
  BY <1>1 DEF ReqRow
<1>3. t \notin DOMAIN sessions
  BY DEF IInv, TypeOK
<1> DEFINE row == NewSession(req[r].version)
<1>0. row \in SessionRow /\ row.version = req[r].version
  BY <1>2 DEF NewSession, SessionRow
<1> HIDE DEF row
<1>a. /\ DOMAIN sessions' = DOMAIN sessions \cup {t}
      /\ \A u \in DOMAIN sessions' : sessions'[u] = IF u = t THEN row ELSE sessions[u]
      /\ sessions' = [u \in DOMAIN sessions' |-> sessions'[u]]
  BY DEF row
<1>b. sessions' \in [DOMAIN sessions' -> SessionRow]
  BY <1>0, <1>a DEF IInv, TypeOK
<1>4. TypeOK'
  BY <1>2, <1>a, <1>b, IdleOK DEF IInv, TypeOK
<1>5. ASSUME NEW u \in DOMAIN sessions'
      PROVE  Dated(sessions'[u].version, proved'[u], settings)
  <2>1. CASE u = t
    BY <2>1, <1>0, <1>a DEF IInv, RequestsDated
  <2>2. CASE u # t
    <3>1. u \in DOMAIN sessions /\ u \in DOMAIN proved
      BY <2>2, <1>a DEF IInv, TypeOK
    <3>2. sessions'[u] = sessions[u] /\ proved'[u] = proved[u]
      BY <2>2, <3>1, <1>a
    <3> QED
      BY <3>1, <3>2 DEF IInv, SessionsDated
  <2> QED
    BY <2>1, <2>2
<1>6. SessionsDated'
  BY <1>5 DEF SessionsDated
<1>7. RequestsDated'
  BY IdleOK DEF IInv, TypeOK, RequestsDated
<1> QED
  BY <1>4, <1>6, <1>7 DEF IInv

(* Fewer sessions, or the same ones expired.                               *)
LEMMA FewerSessions ==
  ASSUME IInv, UNCHANGED <<settings, proved>>,
         sessions' \in [DOMAIN sessions' -> SessionRow],
         DOMAIN sessions' \subseteq DOMAIN sessions,
         \A t \in DOMAIN sessions' : sessions'[t].version = sessions[t].version,
         req' = req \/ \E r \in Requests : Goto(r, Idle)
  PROVE  IInv'
<1>1. req' \in [Requests -> ReqRow]
  BY IdleOK DEF IInv, TypeOK, Goto
<1>2. TypeOK'
  BY <1>1 DEF IInv, TypeOK
<1>3. SessionsDated'
  BY DEF IInv, SessionsDated
<1>4. RequestsDated'
  BY IdleOK DEF IInv, TypeOK, RequestsDated, Goto
<1> QED
  BY <1>2, <1>3, <1>4 DEF IInv

LEMMA LogoutStep == ASSUME IInv, NEW r \in Requests, Logout(r) PROVE IInv'
<1>1. sessions' \in [DOMAIN sessions' -> SessionRow]
  BY DEF Logout, IInv, TypeOK
<1>2. DOMAIN sessions' \subseteq DOMAIN sessions
  BY DEF Logout
<1>3. \A t \in DOMAIN sessions' : sessions'[t].version = sessions[t].version
  BY DEF Logout
<1> QED
  BY <1>1, <1>2, <1>3, FewerSessions DEF Logout

LEMMA PurgeStep == ASSUME IInv, Purge PROVE IInv'
<1>1. sessions' \in [DOMAIN sessions' -> SessionRow]
  BY DEF Purge, IInv, TypeOK
<1>2. DOMAIN sessions' \subseteq DOMAIN sessions
  BY DEF Purge
<1>3. \A t \in DOMAIN sessions' : sessions'[t].version = sessions[t].version
  BY DEF Purge
<1> QED
  BY <1>1, <1>2, <1>3, FewerSessions DEF Purge

LEMMA ExpireFacts ==
  ASSUME IInv, NEW t \in DOMAIN sessions, Expire(t)
  PROVE  /\ DOMAIN sessions' = DOMAIN sessions
         /\ sessions' \in [DOMAIN sessions' -> SessionRow]
         /\ \A u \in DOMAIN sessions : sessions'[u].version = sessions[u].version
         /\ \A u \in DOMAIN sessions : u # t => sessions'[u] = sessions[u]
<1>1. \A u \in DOMAIN sessions :
         sessions[u] \in SessionRow /\ sessions[u].version \in Nat
  BY DEF IInv, TypeOK, SessionRow
<1>2. PICK e \in BOOLEAN, o \in BOOLEAN :
         /\ o => e
         /\ sessions' = [sessions EXCEPT ![t] =
               [version |-> @.version, expired |-> e, over |-> o]]
  BY DEF Expire
<1> DEFINE row == [version |-> sessions[t].version, expired |-> e, over |-> o]
<1>3. row \in SessionRow /\ row.version = sessions[t].version
  BY <1>1, <1>2 DEF SessionRow
<1> HIDE DEF row
<1>4. sessions' = [sessions EXCEPT ![t] = row]
  BY <1>2 DEF row
<1> QED
  BY <1>1, <1>3, <1>4

LEMMA ExpireStep == ASSUME IInv, NEW t \in DOMAIN sessions, Expire(t) PROVE IInv'
  BY ExpireFacts, FewerSessions DEF Expire

(* Every version held so far becomes an old one, and no session is left.   *)
LEMMA ChangeStep == ASSUME IInv, NEW r \in Requests, ChangePassword(r) PROVE IInv'
<1> DEFINE row == [Idle EXCEPT !.pc = "create", !.version = settings'.version,
                               !.token = req[r].token, !.password = req[r].new]
<1>1. req[r] \in ReqRow /\ settings.version \in Nat
  BY DEF IInv, TypeOK
<1>2. req[r].token \in Nat /\ req[r].new \in Passwords
  BY <1>1 DEF ReqRow
<1>3. /\ settings' \in [password : Passwords, version : Nat, must : BOOLEAN]
      /\ settings'.version = settings.version + 1
      /\ settings'.version \in Nat
      /\ settings'.password = req[r].new
      /\ DOMAIN sessions' = {}
      /\ sessions' \in [{} -> SessionRow]
      /\ proved' = proved
  BY <1>1, <1>2 DEF ChangePassword
<1>4. /\ row \in ReqRow
      /\ row.pc = "create" /\ row.version = settings'.version /\ row.password = req[r].new
  BY <1>2, <1>3, IdleOK DEF Idle, ReqRow, PCs
<1>5. req' = [req EXCEPT ![r] = row] \/ req' = [req EXCEPT ![r] = Idle]
  BY DEF ChangePassword, Goto
<1> HIDE DEF row
<1>6. TypeOK'
  BY <1>3, <1>4, <1>5, IdleOK DEF IInv, TypeOK
<1>7. SessionsDated'
  BY <1>3 DEF SessionsDated
<1>8. ASSUME NEW q \in Requests, req'[q].pc = "create"
      PROVE  Dated(req'[q].version, req'[q].password, settings')
  <2>1. CASE q = r
    BY <2>1, <1>3, <1>4, <1>5, <1>8, IdleOK DEF IInv, TypeOK, Dated
  <2>2. CASE q # r
    <3>1. req'[q] = req[q]
      BY <2>2, <1>5 DEF IInv, TypeOK
    <3>2. req[q] \in ReqRow /\ Dated(req[q].version, req[q].password, settings)
      BY <3>1, <1>8 DEF IInv, TypeOK, RequestsDated
    <3>3. req[q].version \in Nat
      BY <3>2 DEF ReqRow
    <3> QED
      BY <3>1, <3>2, <3>3, <1>1, <1>3 DEF Dated
  <2> QED
    BY <2>1, <2>2
<1>9. RequestsDated'
  BY <1>8 DEF RequestsDated
<1> QED
  BY <1>6, <1>7, <1>9 DEF IInv

LEMMA RestartStep == ASSUME IInv, Restart PROVE IInv'
<1>1. settings' = settings
  BY DEF Restart, Seed
<1>2. TypeOK'
  BY <1>1, IdleOK DEF Restart, IInv, TypeOK
<1>3. SessionsDated' /\ RequestsDated'
  BY <1>1, IdleOK DEF Restart, IInv, SessionsDated, RequestsDated
<1> QED
  BY <1>2, <1>3 DEF IInv

LEMMA InductiveStep == IInv /\ [Next]_vars => IInv'
<1> SUFFICES ASSUME IInv, [Next]_vars PROVE IInv'
  OBVIOUS
<1>1. CASE UNCHANGED vars
  BY <1>1 DEF vars, IInv, TypeOK, SessionsDated, RequestsDated
<1>2. ASSUME NEW r \in Requests, Step(r) PROVE IInv'
  <2> 1 .. MaxTokens \subseteq Nat \ {0}
    OBVIOUS
  <2> QED
    BY <1>2, CreateStep, LoadStep, LogoutStep, CheckStep, ChangeStep, LeaveStep DEF Step
<1> QED
  BY <1>1, <1>2, LoginStep, LoadStep, ExpireStep, PurgeStep, RestartStep DEF Next

LEMMA Invariance == Spec => []IInv
  BY InitEstablishes, InductiveStep, PTL DEF Spec

----------------------------------------------------------------------------

(* However logins, changes of the password, logouts and restarts overlap,  *)
(* an accepted session belongs to somebody who has shown the password that *)
(* is stored now.                                                          *)
THEOREM AcceptedSessionsProvePassword == Spec => []SessionsProvePassword
<1>1. IInv => SessionsProvePassword
  BY DEF IInv, SessionsDated, SessionsProvePassword, Accepted, Dated
<1> QED
  BY <1>1, Invariance, PTL

(* A session that has ended, by a logout, a change of the password or the  *)
(* passing of its last second, is refused for ever.                        *)
THEOREM RefusedForEver == Spec => RefusedStaysRefused
<1>1. ASSUME IInv, [Next]_vars, NEW t \in DOMAIN proved, Ended(t)
      PROVE  ~Accepted(t)'
  <2>1. ASSUME settings' = settings,
               t \in DOMAIN sessions' =>
                   t \in DOMAIN sessions /\ sessions'[t] = sessions[t]
        PROVE  ~Accepted(t)'
    BY <1>1, <2>1 DEF Ended, Accepted, IInv, TypeOK, SessionRow
  <2>2. CASE UNCHANGED vars
    BY <2>1, <2>2 DEF vars
  <2>3. ASSUME NEW r \in Requests, Step(r)
        PROVE  ~Accepted(t)'
    <3>1. ASSUME NEW u \in 1 .. MaxTokens, CreateSession(r, u)
          PROVE  ~Accepted(t)'
      BY <1>1, <2>1, <3>1 DEF CreateSession
    <3>2. CASE Logout(r)
      BY <2>1, <3>2 DEF Logout
    <3>3. CASE ChangePassword(r)
      BY <3>3 DEF ChangePassword, Accepted
    <3>4. CASE LoadSettings(r) \/ Leave(r) \/ \E p, q \in Passwords : CheckChange(r, p, q)
      BY <2>1, <3>4 DEF LoadSettings, Leave, CheckChange
    <3> QED
      BY <2>3, <3>1, <3>2, <3>3, <3>4 DEF Step
  <2>4. ASSUME NEW r \in Requests,
               \/ \E p \in Passwords : Login(r, p)
               \/ \E u \in DOMAIN sessions : LoadSession(r, u)
        PROVE  ~Accepted(t)'
    BY <2>1, <2>4 DEF Login, LoadSession
  <2>5. ASSUME NEW u \in DOMAIN sessions, Expire(u)
        PROVE  ~Accepted(t)'
    <3>1. settings' = settings
      BY <2>5 DEF Expire
    <3>2. CASE t # u \/ t \notin DOMAIN sessions
      BY <2>1, <1>1, <2>5, <3>1, <3>2, ExpireFacts
    <3>3. CASE t = u /\ t \in DOMAIN sessions
      <4>1. ~sessions[t].over
        BY <2>5, <3>3 DEF Expire
      <4>2. sessions'[t].version = sessions[t].version
        BY <1>1, <2>5, <3>3, ExpireFacts
      <4>3. sessions[t].version # settings.version
        BY <1>1, <3>3, <4>1 DEF Ended
      <4> QED
        BY <3>1, <4>2, <4>3 DEF Accepted
    <3> QED
      BY <3>2, <3>3
  <2>6. CASE Purge
    BY <2>1, <2>6 DEF Purge
  <2>7. CASE Restart
    BY <2>1, <2>7 DEF Restart, Seed
  <2> QED
    BY <1>1, <2>2, <2>3, <2>4, <2>5, <2>6, <2>7 DEF Next
<1>2. IInv /\ [Next]_vars => [\A t \in DOMAIN proved : Ended(t) => ~Accepted(t)']_vars
  BY <1>1
<1> QED
  BY <1>2, Invariance, PTL DEF Spec, RefusedStaysRefused

(* No request loses track of what it is doing: every variable keeps its    *)
(* type, and every session in the table has an owner who showed a password.*)
THEOREM TypeCorrect == Spec => []TypeOK
<1>1. IInv => TypeOK
  BY DEF IInv
<1> QED
  BY <1>1, Invariance, PTL

(* Why the session of t stopped being accepted.                            *)
Reason(t) ==
    \/ settings'.version # settings.version
    \/ t \in DOMAIN sessions' /\ sessions'[t].expired
    \/ \E r \in Requests :
          /\ At(r, "admin") /\ req[r].token = t /\ req'[r] = Idle
          /\ DOMAIN sessions' = DOMAIN sessions \ {t}

LEMMA SameSession ==
  ASSUME NEW t \in DOMAIN sessions, Accepted(t), ~Accepted(t)',
         t \in DOMAIN sessions', sessions'[t].version = sessions[t].version
  PROVE  Reason(t)
BY DEF Accepted, Reason

(* Neither a purge, nor a restart, nor somebody else's logout ends a       *)
(* session that is accepted (logout, PurgeExpiredSessions, ChangePassword).*)
THEOREM NothingElseEndsSessions == Spec => SessionsEndForAReason
<1>1. ASSUME IInv, [Next]_vars, NEW t \in DOMAIN sessions, Accepted(t), ~Accepted(t)'
      PROVE  Reason(t)
  <2>1. ASSUME sessions' = sessions
        PROVE  Reason(t)
    BY <1>1, <2>1, SameSession
  <2>2. CASE UNCHANGED vars
    BY <2>1, <2>2 DEF vars
  <2>3. ASSUME NEW r \in Requests, Step(r)
        PROVE  Reason(t)
    <3>1. ASSUME NEW u \in 1 .. MaxTokens, CreateSession(r, u)
          PROVE  Reason(t)
      <4>1. t # u
        BY <1>1, <3>1 DEF CreateSession, IInv, TypeOK
      <4>2. t \in DOMAIN sessions' /\ sessions'[t] = sessions[t]
        BY <3>1, <4>1 DEF CreateSession
      <4> QED
        BY <1>1, <4>2, SameSession
    <3>2. CASE Logout(r)
      <4>1. CASE req[r].token = t
        <5>1. At(r, "admin") /\ req' = [req EXCEPT ![r] = Idle]
          BY <3>2 DEF Logout, Goto
        <5>2. req'[r] = Idle
          BY <1>1, <5>1 DEF IInv, TypeOK
        <5>3. DOMAIN sessions' = DOMAIN sessions \ {t}
          BY <3>2, <4>1 DEF Logout
        <5> QED
          BY <4>1, <5>1, <5>2, <5>3 DEF Reason
      <4>2. CASE req[r].token # t
        <5>1. t \in DOMAIN sessions' /\ sessions'[t] = sessions[t]
          BY <3>2, <4>2 DEF Logout
        <5> QED
          BY <1>1, <5>1, SameSession
      <4> QED
        BY <4>1, <4>2
    <3>3. CASE ChangePassword(r)
      <4>1. settings.version \in Nat /\ settings'.version = settings.version + 1
        BY <1>1, <3>3 DEF ChangePassword, IInv, TypeOK
      <4> QED
        BY <4>1 DEF Reason
    <3>4. CASE LoadSettings(r) \/ Leave(r) \/ \E p, q \in Passwords : CheckChange(r, p, q)
      BY <2>1, <3>4 DEF LoadSettings, Leave, CheckChange
    <3> QED
      BY <2>3, <3>1, <3>2, <3>3, <3>4 DEF Step
  <2>4. ASSUME NEW r \in Requests,
               \/ \E p \in Passwords : Login(r, p)
               \/ \E u \in DOMAIN sessions : LoadSession(r, u)
        PROVE  Reason(t)
    BY <2>1, <2>4 DEF Login, LoadSession
  <2>5. ASSUME NEW u \in DOMAIN sessions, Expire(u)
        PROVE  Reason(t)
    BY <1>1, <2>5, ExpireFacts, SameSession
  <2>6. CASE Purge
    <3>1. t \in DOMAIN sessions' /\ sessions'[t] = sessions[t]
      BY <1>1, <2>6 DEF Purge, Accepted
    <3> QED
      BY <1>1, <3>1, SameSession
  <2>7. CASE Restart
    BY <2>1, <2>7 DEF Restart, Seed
  <2> QED
    BY <1>1, <2>2, <2>3, <2>4, <2>5, <2>6, <2>7 DEF Next
<1>2. IInv /\ [Next]_vars =>
        [\A t \in DOMAIN sessions : Accepted(t) /\ ~Accepted(t)' => Reason(t)]_vars
  BY <1>1
<1> QED
  BY <1>2, Invariance, PTL DEF Spec, SessionsEndForAReason, Reason
=============================================================================
