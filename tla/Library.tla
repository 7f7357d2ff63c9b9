------------------------------ MODULE Library ------------------------------
(***************************************************************************)
(* What the file side of sub-manager promises: a library of listed         *)
(* contents and links, each serving one listed content or nothing.         *)
(***************************************************************************)
EXTENDS Naturals

CONSTANTS Contents, Links, Nothing

VARIABLES
    listed,  \* the contents in the library
    serves   \* what each existing link serves

vars == <<listed, serves>>

Init == listed = {} /\ serves = [l \in {} |-> Nothing]

Add == \E c \in Contents :
    listed' = listed \cup {c} /\ UNCHANGED serves

(* Only a content that no link serves can leave the library.               *)
Remove == \E c \in listed :
    /\ \A l \in DOMAIN serves : serves[l] # c
    /\ listed' = listed \ {c}
    /\ UNCHANGED serves

Publish == \E l \in Links \ DOMAIN serves, c \in listed \cup {Nothing} :
    /\ serves' = [k \in DOMAIN serves \cup {l} |-> IF k = l THEN c ELSE serves[k]]
    /\ UNCHANGED listed

(* One link, or every link of one content, turns to another content.       *)
Switch == \E l \in DOMAIN serves, c \in listed :
    serves' = [serves EXCEPT ![l] = c] /\ UNCHANGED listed

SwitchAll == \E b, c \in listed :
    /\ serves' = [l \in DOMAIN serves |-> IF serves[l] = b THEN c ELSE serves[l]]
    /\ UNCHANGED listed

Withdraw == \E l \in DOMAIN serves :
    serves' = [serves EXCEPT ![l] = Nothing] /\ UNCHANGED listed

Retire == \E l \in DOMAIN serves :
    serves' = [k \in DOMAIN serves \ {l} |-> serves[k]] /\ UNCHANGED listed

Next == Add \/ Remove \/ Publish \/ Switch \/ SwitchAll \/ Withdraw \/ Retire

Spec == Init /\ [][Next]_vars
=============================================================================
