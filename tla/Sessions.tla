------------------------------ MODULE Sessions ------------------------------
(***************************************************************************)
(* Who is logged in: the settings row with the password and the version of *)
(* the sessions, the sessions table, and the requests that log in, log out *)
(* and change the password (auth.go, handlers.go:39-154, store.go:293-360).*)
(*                                                                         *)
(* Every request reads in one statement what it acts on in a later one,    *)
(* with password hashing in between, so logins and changes overlap freely; *)
(* what ties a session to the password it was granted under is the version *)
(* number.                                                                 *)
(*                                                                         *)
(* expires_at is compared as a text, and the texts of one second are not   *)
(* in the order of time (Times): within the second in which it ends, a     *)
(* session may be refused, accepted again, and refused.                    *)
(*                                                                         *)
(* Left out: the login limiter (Limiter), the CSRF token, a constant of    *)
(* the session compared in memory, pages, which change nothing here, and a *)
(* clock that is set back.                                                 *)
(***************************************************************************)
EXTENDS Naturals

CONSTANTS
    Requests,    \* concurrent requests
    Passwords,
    Initial,     \* the password a new database starts with (app.go:78)
    MaxTokens,   \* bound: sessions ever created, numbered from 1
    MaxVersion   \* bound: session_version

ASSUME InitialAssumption == Initial \in Passwords

VARIABLES
    settings,  \* the settings row
    sessions,  \* the sessions table: random tokens are numbered as they come
    proved,    \* history: for each token, the password its owner has shown
    req        \* program counter and locals of each request

vars == <<settings, sessions, proved, req>>

PCs == {"idle", "session", "admin", "store", "create"}

(* token: the session the request came with; version: that session's, or   *)
(* the one of the session to create; password, must: the settings it read, *)
(* or wrote; new: the password it is about to store.                       *)
ReqRow == [pc : PCs, token : Nat, version : Nat, password : Passwords,
           must : BOOLEAN, new : Passwords]

Idle == [pc |-> "idle", token |-> 0, version |-> 0, password |-> Initial,
         must |-> FALSE, new |-> Initial]

(* expired: what SQLite says of expires_at > now; over: the second in which*)
(* the session ends has passed.                                            *)
SessionRow == {s \in [version : Nat, expired : BOOLEAN, over : BOOLEAN] :
                 s.over => s.expired}

NewSession(v) == [version |-> v, expired |-> FALSE, over |-> FALSE]

TypeOK ==
    /\ settings \in [password : Passwords, version : Nat, must : BOOLEAN]
    /\ sessions \in [DOMAIN sessions -> SessionRow]
    /\ proved \in [DOMAIN proved -> Passwords]
    /\ DOMAIN proved \subseteq Nat \ {0}
    /\ DOMAIN sessions \subseteq DOMAIN proved
    /\ req \in [Requests -> ReqRow]

FirstSettings == [password |-> Initial, version |-> 1, must |-> TRUE]

Init ==
    /\ settings = FirstSettings
    /\ sessions = [t \in {} |-> {}]
    /\ proved = [t \in {} |-> Initial]
    /\ req = [r \in Requests |-> Idle]

----------------------------------------------------------------------------

(* Store.Session accepts the token.                                        *)
Accepted(t) ==
    /\ t \in DOMAIN sessions
    /\ sessions[t].version = settings.version
    /\ ~sessions[t].expired

At(r, pc) == req[r].pc = pc
Goto(r, row) == req' = [req EXCEPT ![r] = row]

(* login: Settings, then the password is compared with what was read.      *)
Login(r, p) ==
    /\ At(r, "idle")
    /\ p = settings.password
    /\ Goto(r, [Idle EXCEPT !.pc = "create", !.version = settings.version,
                            !.password = p])
    /\ UNCHANGED <<settings, sessions, proved>>

(* Mutant: the session gets the version of the moment it is created.       *)
CreateSessionAtCurrentVersion(r, t) ==
    /\ At(r, "create")
    /\ t \notin DOMAIN proved
    /\ sessions' = [u \in DOMAIN sessions \cup {t} |->
          IF u = t THEN NewSession(settings.version) ELSE sessions[u]]
    /\ proved' = [u \in DOMAIN proved \cup {t} |->
          IF u = t THEN req[r].password ELSE proved[u]]
    /\ Goto(r, Idle)
    /\ UNCHANGED settings

(* Mutant: the session is stored although no token could be drawn.         *)
CreateSessionUnchecked(r, t) ==
    /\ At(r, "create")
    /\ t \notin DOMAIN proved
    /\ \E u \in {0, t} :
          /\ sessions' = [v \in DOMAIN sessions \cup {u} |->
                IF v = u THEN NewSession(req[r].version) ELSE sessions[v]]
          /\ proved' = [v \in DOMAIN proved \cup {u} |->
                IF v = u THEN req[r].password ELSE proved[v]]
    /\ Goto(r, Idle)
    /\ UNCHANGED settings

(* CreateSession, after a login or a change of password, with the version  *)
(* that went with the password.                                            *)
CreateSession(r, t) ==
    /\ At(r, "create")
    /\ t \notin DOMAIN proved
    /\ sessions' = [u \in DOMAIN sessions \cup {t} |->
          IF u = t THEN NewSession(req[r].version) ELSE sessions[u]]
    /\ proved' = [u \in DOMAIN proved \cup {t} |->
          IF u = t THEN req[r].password ELSE proved[u]]
    /\ Goto(r, Idle)
    /\ UNCHANGED settings

(* requireAdmin, first statement: the session.                             *)
LoadSession(r, t) ==
    /\ At(r, "idle")
    /\ Accepted(t)
    /\ Goto(r, [Idle EXCEPT !.pc = "session", !.token = t, !.version = settings.version])
    /\ UNCHANGED <<settings, sessions, proved>>

(* requireAdmin, second statement: the settings the handler will use.      *)
LoadSettings(r) ==
    /\ At(r, "session")
    /\ Goto(r, [req[r] EXCEPT !.pc = "admin", !.password = settings.password,
                              !.must = settings.must])
    /\ UNCHANGED <<settings, sessions, proved>>

(* Mutant: every session is deleted.                                       *)
LogoutEverywhere(r) ==
    /\ At(r, "admin")
    /\ sessions' = [u \in {} |-> {}]
    /\ Goto(r, Idle)
    /\ UNCHANGED <<settings, proved>>

(* logout: DeleteSession; an error is only logged.                         *)
Logout(r) ==
    /\ At(r, "admin")
    /\ sessions' = [u \in DOMAIN sessions \ {req[r].token} |-> sessions[u]]
    /\ Goto(r, Idle)
    /\ UNCHANGED <<settings, proved>>

(* changePassword compares the form with the settings requireAdmin loaded; *)
(* the current password is not asked for while the initial one must be     *)
(* changed.                                                                *)
CheckChange(r, current, new) ==
    /\ At(r, "admin")
    /\ req[r].must \/ current = req[r].password
    /\ new # req[r].password
    /\ Goto(r, [req[r] EXCEPT !.pc = "store", !.new = new])
    /\ UNCHANGED <<settings, sessions, proved>>

(* Store.ChangePassword, one transaction; with the new session to come, or *)
(* with an error reported although it was committed.                       *)
ChangePassword(r) ==
    /\ At(r, "store")
    /\ settings.version < MaxVersion
    /\ settings' = [password |-> req[r].new, version |-> settings.version + 1,
                    must |-> FALSE]
    /\ sessions' = [u \in {} |-> {}]
    /\ \/ Goto(r, [Idle EXCEPT !.pc = "create", !.version = settings'.version,
                               !.token = req[r].token, !.password = req[r].new])
       \/ Goto(r, Idle)
    /\ UNCHANGED proved

(* A page or another handler, a refusal, a failed statement: the request   *)
(* ends without touching settings or sessions.                             *)
Leave(r) ==
    /\ ~At(r, "idle")
    /\ Goto(r, Idle)
    /\ UNCHANGED <<settings, sessions, proved>>

(* Time passes expires_at: at first the comparison may go either way.      *)
Expire(t) ==
    /\ ~sessions[t].over
    /\ \E expired, over \in BOOLEAN :
          /\ over => expired
          /\ sessions' = [sessions EXCEPT ![t] =
                [version |-> @.version, expired |-> expired, over |-> over]]
    /\ UNCHANGED <<settings, proved, req>>

(* PurgeExpiredSessions, every 24 hours and at each start.                 *)
Purge ==
    /\ sessions' = [u \in {t \in DOMAIN sessions : ~sessions[t].expired} |-> sessions[u]]
    /\ UNCHANGED <<settings, proved, req>>

(* Mutant: INSERT OR REPLACE.                                              *)
SeedReplacing(s) == FirstSettings

(* migrate ends with INSERT OR IGNORE of the first settings.               *)
Seed(s) == s

Restart ==
    /\ settings' = Seed(settings)
    /\ req' = [r \in Requests |-> Idle]
    /\ UNCHANGED <<sessions, proved>>

Step(r) ==
    \/ \E t \in 1 .. MaxTokens : CreateSession(r, t)
    \/ LoadSettings(r)
    \/ Logout(r)
    \/ \E p, q \in Passwords : CheckChange(r, p, q)
    \/ ChangePassword(r)
    \/ Leave(r)

Next ==
    \/ \E r \in Requests :
          \/ \E p \in Passwords : Login(r, p)
          \/ \E t \in DOMAIN sessions : LoadSession(r, t)
          \/ Step(r)
    \/ \E t \in DOMAIN sessions : Expire(t)
    \/ Purge
    \/ Restart

Spec == Init /\ [][Next]_vars

(* A request in progress goes on or ends.                                  *)
FairSpec == Spec /\ \A r \in Requests : WF_vars(Step(r))

----------------------------------------------------------------------------

(* Whoever holds an accepted session has shown the password that is stored *)
(* now, however logins and changes of the password overlapped: a login     *)
(* that read the old hash, or a change overtaken by another one, leaves a  *)
(* session nobody accepts (store.go:342, handlers.go:70 and 147).          *)
SessionsProvePassword == \A t \in DOMAIN sessions : Accepted(t) => proved[t] = settings.password

(* A session that ended other than by the clock, or whose last second is   *)
(* over, is never accepted again: not after a restart, not after later     *)
(* changes of the password (store.go:342, templates/password.html:13).     *)
Ended(t) ==
    \/ t \notin DOMAIN sessions
    \/ sessions[t].version # settings.version
    \/ sessions[t].over

RefusedStaysRefused == [][\A t \in DOMAIN proved : Ended(t) => ~Accepted(t)']_vars

(* A session ends because it expires, because its own logout is carried    *)
(* out, which ends no other one, or because the password changes: not by a *)
(* purge, a restart or somebody else's logout.                             *)
SessionsEndForAReason ==
    [][\A t \in DOMAIN sessions :
          Accepted(t) /\ ~Accepted(t)' =>
              \/ settings'.version # settings.version
              \/ t \in DOMAIN sessions' /\ sessions'[t].expired
              \/ \E r \in Requests :
                    /\ At(r, "admin") /\ req[r].token = t /\ req'[r] = Idle
                    /\ DOMAIN sessions' = DOMAIN sessions \ {t}]_vars

(* What templates/password.html:13 and handlers.go:169 say: once a new     *)
(* password is saved, other sessions are invalid at once; so none of them  *)
(* goes on to save another one.                                            *)
OnlyCurrentSessionsChange ==
    [][\A r \in Requests :
          At(r, "store") /\ settings' # settings /\ ~At(r, "store")'
              => req[r].version = settings.version]_vars
=============================================================================
