------------------------------ MODULE Proxies ------------------------------
(***************************************************************************)
(* Trusted proxies: the list stored in the settings row, the list the      *)
(* resolver works with, the administrators who change both one after the   *)
(* other (handlers.go:464-494), and the requests whose client address is   *)
(* resolved meanwhile (clientip.go:46-108).                                *)
(*                                                                         *)
(* A list of prefixes is the set of the addresses it contains; parsing and *)
(* normalising them is left out.  Each look at a list is one read lock, and*)
(* a request takes one for its peer, perhaps a second one, and one for     *)
(* every hop of X-Forwarded-For, from right to left.                       *)
(***************************************************************************)
EXTENDS Naturals, Sequences, FiniteSets

CONSTANTS
    Addrs,
    Nobody,           \* no address
    Environments,     \* what TRUSTED_PROXIES may be set to
    Updates,          \* concurrent changes of the settings
    Visitors,         \* concurrent requests
    Headers,          \* the X-Forwarded-For and X-Real-IP they may carry
    CancelledSaves,   \* a save may be stored and yet report an error
    MaxLists          \* bound: lists configured during one request

(* chain is the list of X-Forwarded-For; a missing header, and one that    *)
(* does not parse, are told apart.  real is Nobody without a valid         *)
(* X-Real-IP.                                                              *)
Header == [present : BOOLEAN, valid : BOOLEAN, chain : Seq(Addrs), real : Addrs \cup {Nobody}]

ASSUME ProxiesAssumption ==
    /\ Nobody \notin Addrs
    /\ Environments \subseteq SUBSET Addrs
    /\ CancelledSaves \in BOOLEAN
    /\ Headers \subseteq Header
    /\ \A h \in Headers : h.present /\ h.valid => h.chain # << >>

VARIABLES
    started,     \* TRUSTED_PROXIES, and whether it was left out: fixed at start
    stored,      \* settings.trusted_proxies
    configured,  \* clientIPResolver.configured
    change,      \* the changes in progress
    look,        \* program counter and locals of each request
    seen         \* history: the lists configured during each request

vars == <<started, stored, configured, change, look, seen>>

NoHeader == [present |-> FALSE, valid |-> FALSE, chain |-> << >>, real |-> Nobody]

Idle == [pc |-> "idle", peer |-> Nobody, header |-> NoHeader,
         index |-> 0, client |-> Nobody]

LookRow == [pc : {"idle", "peer", "default", "hops", "done"}, peer : Addrs \cup {Nobody},
            header : Headers \cup {NoHeader}, index : Nat, client : Addrs \cup {Nobody}]

TypeOK ==
    /\ started \in [environment : Environments, trustAll : BOOLEAN]
    /\ stored \subseteq Addrs
    /\ configured \subseteq Addrs
    /\ change \in [Updates -> [pc : {"idle", "apply"}, list : SUBSET Addrs]]
    /\ look \in [Visitors -> LookRow]
    /\ \A v \in Visitors : look[v].pc = "done" => look[v].client \in Addrs
    /\ seen \in [Visitors -> SUBSET SUBSET Addrs]

Init ==
    /\ started \in {e \in [environment : Environments, trustAll : BOOLEAN] :
                      e.trustAll => e.environment = {}}
    /\ stored = {}
    /\ configured = stored
    /\ change = [u \in Updates |-> [pc |-> "idle", list |-> {}]]
    /\ look = [v \in Visitors |-> Idle]
    /\ seen = [v \in Visitors |-> {}]

----------------------------------------------------------------------------
(* Changing the settings.                                                  *)

(* UpdateSettings, after the form was validated.                           *)
Save(u, list) ==
    /\ change[u].pc = "idle"
    /\ stored' = list
    /\ change' = [change EXCEPT ![u] = [pc |-> "apply", list |-> list]]
    /\ UNCHANGED <<started, configured, look, seen>>

(* The context is cancelled: an error is answered although it was stored.  *)
SaveThenFail(u, list) ==
    /\ CancelledSaves
    /\ change[u].pc = "idle"
    /\ stored' = list
    /\ UNCHANGED <<started, configured, change, look, seen>>

(* setConfigured.                                                          *)
Apply(u) ==
    /\ change[u].pc = "apply"
    /\ \A v \in Visitors : Cardinality(seen[v] \cup {change[u].list}) <= MaxLists
    /\ configured' = change[u].list
    /\ change' = [change EXCEPT ![u] = [@ EXCEPT !.pc = "idle"]]
    /\ seen' = [v \in Visitors |->
          IF look[v].pc = "idle" THEN seen[v] ELSE seen[v] \cup {configured'}]
    /\ UNCHANGED <<started, stored, look>>

(* New loads the stored list.                                              *)
Restart ==
    /\ configured' = stored
    /\ change' = [u \in Updates |-> [pc |-> "idle", list |-> {}]]
    /\ look' = [v \in Visitors |-> Idle]
    /\ seen' = [v \in Visitors |-> {}]
    /\ UNCHANGED <<started, stored>>

----------------------------------------------------------------------------
(* Resolving the client of a request.                                      *)

isTrusted(list, addr) == addr \in started.environment \cup list
trustsAll(list) == started.trustAll /\ started.environment = {} /\ list = {}
isTrustedPeer(list, addr) == isTrusted(list, addr) \/ trustsAll(list)

Goto(v, row) == look' = [look EXCEPT ![v] = row]
Answer(v, addr) == Goto(v, [look[v] EXCEPT !.pc = "done", !.client = addr])

Arrive(v, peer, h) ==
    /\ look[v].pc = "idle"
    /\ Goto(v, [Idle EXCEPT !.pc = "peer", !.peer = peer, !.header = h])
    /\ seen' = [seen EXCEPT ![v] = {configured}]
    /\ UNCHANGED <<started, stored, configured, change>>

(* Mutant: a missing X-Real-IP is used as well.                            *)
ReadHeadersUnchecked(v) ==
    LET q == look[v]
    IN  IF q.header.present /\ q.header.valid
        THEN Goto(v, [q EXCEPT !.pc = "hops", !.index = Len(q.header.chain)])
        ELSE Answer(v, IF q.header.present THEN q.peer ELSE q.header.real)

(* A trusted peer's headers are read: nothing is locked here, so this goes *)
(* with the lookup before.                                                 *)
ReadHeaders(v) ==
    LET q == look[v]
    IN  IF q.header.present /\ q.header.valid
        THEN Goto(v, [q EXCEPT !.pc = "hops", !.index = Len(q.header.chain)])
        ELSE Answer(v, IF q.header.present \/ q.header.real = Nobody THEN q.peer
                       ELSE q.header.real)

(* Mutant: a peer that is not in the list is not asked about the default.  *)
LookAtPeerNoDefault(v) ==
    /\ look[v].pc = "peer"
    /\ IF isTrusted(configured, look[v].peer) THEN ReadHeaders(v)
       ELSE Answer(v, look[v].peer)
    /\ UNCHANGED <<started, stored, configured, change, seen>>

LookAtPeer(v) ==
    /\ look[v].pc = "peer"
    /\ IF isTrusted(configured, look[v].peer) THEN ReadHeaders(v)
       ELSE Goto(v, [look[v] EXCEPT !.pc = "default"])
    /\ UNCHANGED <<started, stored, configured, change, seen>>

LookAtDefault(v) ==
    /\ look[v].pc = "default"
    /\ IF trustsAll(configured) THEN ReadHeaders(v) ELSE Answer(v, look[v].peer)
    /\ UNCHANGED <<started, stored, configured, change, seen>>

(* Mutant: the leftmost address is answered, as if nobody could add to it. *)
LookAtHopLeftmost(v) ==
    LET q == look[v]
    IN  /\ q.pc = "hops"
        /\ IF ~isTrusted(configured, q.header.chain[q.index]) THEN Answer(v, q.header.chain[1])
           ELSE IF q.index = 1 THEN Answer(v, q.peer)
           ELSE Goto(v, [q EXCEPT !.index = @ - 1])
        /\ UNCHANGED <<started, stored, configured, change, seen>>

(* One hop; when all are trusted, the peer is the client.                  *)
LookAtHop(v) ==
    LET q == look[v]
        hop == q.header.chain[q.index]
    IN  /\ q.pc = "hops"
        /\ IF ~isTrusted(configured, hop) THEN Answer(v, hop)
           ELSE IF q.index = 1 THEN Answer(v, q.peer)
           ELSE Goto(v, [q EXCEPT !.index = @ - 1])
        /\ UNCHANGED <<started, stored, configured, change, seen>>

Leave(v) ==
    /\ look[v].pc = "done"
    /\ Goto(v, Idle)
    /\ seen' = [seen EXCEPT ![v] = {}]
    /\ UNCHANGED <<started, stored, configured, change>>

Next ==
    \/ \E u \in Updates, list \in SUBSET Addrs : Save(u, list) \/ SaveThenFail(u, list)
    \/ \E u \in Updates : Apply(u)
    \/ \E v \in Visitors, peer \in Addrs, h \in Headers : Arrive(v, peer, h)
    \/ \E v \in Visitors : LookAtPeer(v) \/ LookAtDefault(v) \/ LookAtHop(v) \/ Leave(v)
    \/ Restart

Spec == Init /\ [][Next]_vars

FairSpec == Spec /\ \A u \in Updates : WF_vars(Apply(u))

----------------------------------------------------------------------------
(* The rule of README.md:124, for one list: the rightmost address of the   *)
(* chain that is not trusted, of which the peer is the last one.           *)

Untrusted(list, chain) == {i \in 1 .. Len(chain) : ~isTrusted(list, chain[i])}

Rightmost(S) == CHOOSE i \in S : \A j \in S : j <= i

Client(list, peer, h) ==
    IF ~isTrustedPeer(list, peer) THEN peer
    ELSE CASE h.present /\ h.valid /\ Untrusted(list, h.chain) # {} ->
                 h.chain[Rightmost(Untrusted(list, h.chain))]
           [] ~h.present /\ h.real # Nobody -> h.real
           [] OTHER -> peer

(* A request during which the list did not change is answered by the rule. *)
SteadyListRule ==
    \A v \in Visitors : look[v].pc = "done" /\ Cardinality(seen[v]) = 1 =>
        \A list \in seen[v] : look[v].client = Client(list, look[v].peer, look[v].header)

(* A request during which it did change may get an answer that no one list *)
(* gives; but an address counts only if everything that reported it, the   *)
(* peer and the hops to its right, was trusted under one of the lists.     *)
ReportersWereTrusted ==
    \A v \in Visitors :
        LET q == look[v]
        IN  q.pc = "done" /\ q.client # q.peer =>
              /\ \E list \in seen[v] : isTrustedPeer(list, q.peer)
              /\ q.header.present => \E i \in 1 .. Len(q.header.chain) :
                    /\ q.header.chain[i] = q.client
                    /\ \E list \in seen[v] : ~isTrusted(list, q.client)
                    /\ \A j \in i + 1 .. Len(q.header.chain) :
                          \E list \in seen[v] : isTrusted(list, q.header.chain[j])

(* Once no change is in progress, what the settings page shows is what the *)
(* resolver uses (README.md:122: effective at once after saving).          *)
SavedIsEffective ==
    (\A u \in Updates : change[u].pc = "idle") => configured = stored
=============================================================================
