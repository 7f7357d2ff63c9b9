----------------------------- MODULE MCProxies -----------------------------
(***************************************************************************)
(* Instances of Proxies for TLC: chains of up to three hops over the       *)
(* addresses, so that a trusted hop can stand left or right of an untrusted*)
(* one, with and without a usable X-Real-IP.                               *)
(***************************************************************************)
EXTENDS Proxies, TLC

CONSTANT MaxHops

Chains == UNION {[1 .. n -> Addrs] : n \in 1 .. MaxHops}

SomeHeaders ==
    [present : {TRUE}, valid : {TRUE}, chain : Chains, real : {Nobody}]
        \cup [present : {TRUE, FALSE}, valid : {FALSE}, chain : {<< >>},
              real : Addrs \cup {Nobody}]

SomeEnvironments == {{}, {CHOOSE a \in Addrs : TRUE}}

Symmetry == Permutations(Addrs \ UNION Environments)
=============================================================================
