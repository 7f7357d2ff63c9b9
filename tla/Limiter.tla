------------------------------ MODULE Limiter ------------------------------
(***************************************************************************)
(* The login limiter (app.go:320-359) and the logins that use it           *)
(* (handlers.go:45-57).  A login asks allowed, compares the password, which*)
(* takes a while, and then tells fail or success; each of the three calls  *)
(* holds the limiter's mutex, nothing holds it in between.                 *)
(*                                                                         *)
(* Time is counted in ticks of one comparison at least: the code compares  *)
(* nanoseconds, and a comparison takes many of them.                       *)
(***************************************************************************)
EXTENDS Naturals, FiniteSets

CONSTANTS
    Addresses,  \* client addresses
    Attempts,   \* concurrent logins
    Limit,      \* failures that lock an address: 5 in the code
    Period,     \* length of the window and of the lock: 15 minutes
    MaxTime     \* bound: the clock

ASSUME LimitAssumption == Limit \in Nat \ {0} /\ Period \in Nat \ {0}
ASSUME ClientsAssumption == Addresses # {} /\ IsFiniteSet(Attempts)

VARIABLES
    attempts,  \* loginLimiter.attempts
    now,       \* the clock
    try        \* the logins in progress

vars == <<attempts, now, try>>

(* Times start at 1; 0 is the zero time.Time.                              *)
Entry == [count : Nat, start : Nat, until : Nat]
NoEntry == [count |-> 0, start |-> 0, until |-> 0]

None == [busy |-> FALSE, ip |-> CHOOSE a \in Addresses : TRUE, since |-> 0]

TypeOK ==
    /\ attempts \in [DOMAIN attempts -> Entry]
    /\ DOMAIN attempts \subseteq Addresses
    /\ now \in Nat
    /\ try \in [Attempts -> [busy : BOOLEAN, ip : Addresses, since : Nat]]

Init ==
    /\ attempts = [a \in {} |-> NoEntry]
    /\ now = 1
    /\ try = [t \in Attempts |-> None]

----------------------------------------------------------------------------

(* A Go map yields the zero value for a missing key.                       *)
Get(a) == IF a \in DOMAIN attempts THEN attempts[a] ELSE NoEntry

Store(a, e) == attempts' = [b \in DOMAIN attempts \cup {a} |-> IF b = a THEN e ELSE attempts[b]]

(* Mutant: a locked address is let in.                                     *)
AllowedAlways(a) == a \in Addresses

allowed(a) == ~(now < Get(a).until)

(* The password comparison is under way.                                   *)
Ask(t, a) ==
    /\ ~try[t].busy
    /\ allowed(a)
    /\ try' = [try EXCEPT ![t] = [busy |-> TRUE, ip |-> a, since |-> now]]
    /\ UNCHANGED <<attempts, now>>

End(t) ==
    /\ try[t].busy
    /\ now > try[t].since
    /\ try' = [try EXCEPT ![t] = None]
    /\ UNCHANGED now

(* Mutant: one failure too many.                                           *)
FailedLate(e) ==
    LET w == IF e.start = 0 \/ now - e.start > Period THEN [NoEntry EXCEPT !.start = now] ELSE e
        c == w.count + 1
    IN  [w EXCEPT !.count = c, !.until = IF c > Limit THEN now + Period ELSE @]

(* Mutant: the lock is computed backwards.                                 *)
FailedBackwards(e) ==
    LET w == IF e.start = 0 \/ now - e.start > Period THEN [NoEntry EXCEPT !.start = now] ELSE e
        c == w.count + 1
    IN  [w EXCEPT !.count = c, !.until = IF c >= Limit THEN now - Period ELSE @]

(* The entry after one more failure: a window that is over is replaced by  *)
(* a new one, and its lock with it.                                        *)
Failed(e) ==
    LET w == IF e.start = 0 \/ now - e.start > Period THEN [NoEntry EXCEPT !.start = now] ELSE e
        c == w.count + 1
    IN  [w EXCEPT !.count = c, !.until = IF c >= Limit THEN now + Period ELSE @]

fail(t) == End(t) /\ Store(try[t].ip, Failed(Get(try[t].ip)))

success(t) ==
    /\ End(t)
    /\ attempts' = [a \in DOMAIN attempts \ {try[t].ip} |-> attempts[a]]

Tick == now < MaxTime /\ now' = now + 1 /\ UNCHANGED <<attempts, try>>

(* Everything is in memory.                                                *)
Restart ==
    /\ attempts' = [a \in {} |-> NoEntry]
    /\ try' = [t \in Attempts |-> None]
    /\ UNCHANGED now

Next ==
    \/ \E t \in Attempts, a \in Addresses : Ask(t, a)
    \/ \E t \in Attempts : fail(t) \/ success(t)
    \/ Tick
    \/ Restart

Spec == Init /\ [][Next]_vars

(* A comparison ends, and time goes on.                                    *)
FairSpec == Spec /\ WF_vars(Tick) /\ \A t \in Attempts : WF_vars(fail(t) \/ success(t))

----------------------------------------------------------------------------

(* Overlapping logins are all let in before the first of them fails; still *)
(* a window never sees more than Limit failures and one for every other    *)
(* login that was being compared when the lock was set.                    *)
GuessesPerWindow ==
    \A a \in DOMAIN attempts : attempts[a].count <= Limit - 1 + Cardinality(Attempts)

(* A lock that ends before its time is ended by a login that had been let  *)
(* in before the lock was set, or by a restart; never by one that came     *)
(* while it was on.                                                        *)
OnlyOverlapsLiftLocks ==
    [][\A a \in DOMAIN attempts :
          /\ now < attempts[a].until
          /\ ~(a \in DOMAIN attempts' /\ attempts'[a].until >= attempts[a].until)
          => \/ Restart
             \/ \E t \in Attempts :
                   /\ End(t)
                   /\ try[t].ip = a
                   /\ try[t].since + Period <= attempts[a].until]_vars

(* What login answers a locked address (handlers.go:48): too many failures,*)
(* try again in 15 minutes.  Another failure does not shorten that.        *)
FailuresKeepLocks ==
    [][\A t \in Attempts : fail(t) =>
          LET a == try[t].ip
          IN  now < Get(a).until => attempts'[a].until >= Get(a).until]_vars
=============================================================================
