------------------------------- MODULE Times -------------------------------
(***************************************************************************)
(* Time stamps as the database keeps them: dbTime (store.go:871) writes    *)
(* RFC3339Nano in UTC, which drops the trailing zeros of the fraction, and *)
(* SQLite compares the texts in ORDER BY requested_at, requested_at < ?    *)
(* and expires_at > ?.  The order of the texts is not the order in time:   *)
(* within a second "...05.51Z" < "...05.5Z" < "...05Z".                    *)
(*                                                                         *)
(* An instant is a number of seconds and the digits of its fraction.       *)
(***************************************************************************)
EXTENDS Integers

CONSTANTS
    Base,   \* ten, or fewer digits for TLC
    Places  \* digits of a fraction: nine in RFC3339Nano

ASSUME TimesAssumption == Base \in Nat \ {0} /\ Places \in Nat

Fractions == [1 .. Places -> 0 .. Base - 1]

Instants(S) == [s : S, f : Fractions]

Back(t, n) == [t EXCEPT !.s = @ - n]

(* The digits that are written: up to the last one that is not zero.       *)
Kept(f) ==
    CHOOSE n \in 0 .. Places :
        /\ n = 0 \/ f[n] # 0
        /\ \A i \in n + 1 .. Places : f[i] = 0

(* Date and time down to the second have a fixed width up to the year 9999,*)
(* so one number stands for them.  What follows is ".", the digits and "Z",*)
(* or only "Z", and "." < "0" < ... < "9" < "Z": the point decides nothing *)
(* and is left out, and the letter is a digit above all others.            *)
Text(t) ==
    LET n == Kept(t.f)
    IN  [i \in 1 .. n + 2 |->
            IF i = 1 THEN t.s ELSE IF i = n + 2 THEN Base ELSE t.f[i - 1]]

(* Mutant: local time instead of UTC, set back by an hour (two seconds in  *)
(* the instance) when daylight saving ends.                                *)
dbTimeLocal(t) == Text(IF t.s > 1 THEN Back(t, 2) ELSE t)

dbTime(t) == Text(t)

(* SQLite's comparison of two texts.                                       *)
Before(a, b) ==
    \E i \in DOMAIN a \cap DOMAIN b :
        a[i] < b[i] /\ \A j \in 1 .. i - 1 : a[j] = b[j]
=============================================================================
