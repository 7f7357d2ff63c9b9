--------------------------- MODULE ProxiesProofs ---------------------------
(***************************************************************************)
(* The client address of a request while the list of trusted proxies is    *)
(* being changed: for any addresses, lists and headers, chains of any      *)
(* length and any number of requests and changes.                          *)
(*                                                                         *)
(* Two things are carried along the hops: what some list of the request's  *)
(* time says of the reporters so far, and what the list says when there was*)
(* only one.                                                               *)
(***************************************************************************)
EXTENDS Proxies, FiniteSetTheorems, TLAPS

(* The reporters to the right of position i were trusted.                  *)
ReportersUpTo(q, S, i) ==
    /\ \E list \in S : isTrustedPeer(list, q.peer)
    /\ \A j \in i + 1 .. Len(q.header.chain) :
          \E list \in S : isTrusted(list, q.header.chain[j])

Supported(q, S) ==
    /\ q.pc = "hops" => ReportersUpTo(q, S, q.index)
    /\ q.pc = "done" /\ q.client # q.peer =>
          /\ \E list \in S : isTrustedPeer(list, q.peer)
          /\ q.header.present => \E i \in 1 .. Len(q.header.chain) :
                /\ q.header.chain[i] = q.client
                /\ \E list \in S : ~isTrusted(list, q.client)
                /\ \A j \in i + 1 .. Len(q.header.chain) :
                      \E list \in S : isTrusted(list, q.header.chain[j])

Steady(q, list) ==
    /\ q.pc = "default" => ~isTrusted(list, q.peer)
    /\ q.pc = "hops" =>
          /\ isTrustedPeer(list, q.peer)
          /\ \A j \in q.index + 1 .. Len(q.header.chain) : isTrusted(list, q.header.chain[j])
    /\ q.pc = "done" => q.client = Client(list, q.peer, q.header)

LookOK(q, S, list) ==
    /\ q.peer \in Addrs
    /\ q.header \in Headers
    /\ q.pc = "hops" =>
          q.header.present /\ q.header.valid /\ q.index \in 1 .. Len(q.header.chain)
    /\ list \in S
    /\ IsFiniteSet(S)
    /\ Supported(q, S)
    /\ S = {list} => Steady(q, list)

IInv ==
    /\ TypeOK
    /\ \A v \in Visitors : look[v].pc # "idle" => LookOK(look[v], seen[v], configured)

----------------------------------------------------------------------------

LEMMA IdleOK == Idle \in LookRow /\ Idle.pc = "idle"
BY DEF Idle, LookRow

LEMMA RightmostIs ==
  ASSUME NEW S \in SUBSET Nat, NEW i \in S, \A j \in S : j <= i
  PROVE  Rightmost(S) = i
<1>1. \A k \in S : (\A j \in S : j <= k) => k = i
  OBVIOUS
<1> QED
  BY <1>1 DEF Rightmost

LEMMA HeaderFacts ==
  ASSUME NEW h \in Headers
  PROVE  /\ h.present \in BOOLEAN /\ h.valid \in BOOLEAN
         /\ h.chain \in Seq(Addrs) /\ Len(h.chain) \in Nat
         /\ \A i \in 1 .. Len(h.chain) : h.chain[i] \in Addrs
         /\ h.real \in Addrs \cup {Nobody}
         /\ h.present /\ h.valid => Len(h.chain) > 0
<1>1. h \in Header /\ (h.present /\ h.valid => h.chain # << >>)
  BY ProxiesAssumption
<1>2. h.chain \in Seq(Addrs) /\ h.present \in BOOLEAN /\ h.valid \in BOOLEAN
      /\ h.real \in Addrs \cup {Nobody}
  BY <1>1 DEF Header
<1>3. Len(h.chain) \in Nat /\ \A i \in 1 .. Len(h.chain) : h.chain[i] \in Addrs
  BY <1>2
<1>4. h.chain # << >> => Len(h.chain) > 0
  BY <1>2, <1>3
<1> QED
  BY <1>1, <1>2, <1>3, <1>4

LEMMA RowFacts ==
  ASSUME IInv, NEW v \in Visitors
  PROVE  /\ look[v] \in LookRow
         /\ seen[v] \in SUBSET SUBSET Addrs
         /\ configured \in SUBSET Addrs
BY DEF IInv, TypeOK

(* TRUSTED_PROXIES is fixed at start, so the rule for one list is, too.     *)
LEMMA SameRule ==
  ASSUME UNCHANGED started, NEW list
  PROVE  /\ \A addr : isTrusted(list, addr)' <=> isTrusted(list, addr)
         /\ \A addr : isTrustedPeer(list, addr)' <=> isTrustedPeer(list, addr)
         /\ \A peer, h : Client(list, peer, h)' = Client(list, peer, h)
<1>1. \A addr : isTrusted(list, addr)' <=> isTrusted(list, addr)
  BY DEF isTrusted
<1>2. trustsAll(list)' <=> trustsAll(list)
  BY DEF trustsAll
<1>3. \A addr : isTrustedPeer(list, addr)' <=> isTrustedPeer(list, addr)
  BY <1>1, <1>2 DEF isTrustedPeer
<1>4. \A chain : Untrusted(list, chain)' = Untrusted(list, chain)
  BY <1>1 DEF Untrusted
<1>5. ASSUME NEW peer, NEW h
      PROVE  Client(list, peer, h)' = Client(list, peer, h)
  BY <1>3, <1>4 DEF Client
<1> QED
  BY <1>1, <1>3, <1>5

LEMMA LookSame ==
  ASSUME UNCHANGED started, NEW q, NEW S, NEW list, LookOK(q, S, list)
  PROVE  LookOK(q, S, list)'
<1>1. Supported(q, S)'
  BY SameRule DEF LookOK, Supported, ReportersUpTo
<1>2. S = {list} => Steady(q, list)'
  BY SameRule DEF LookOK, Steady
<1> QED
  BY <1>1, <1>2 DEF LookOK

LEMMA InitEstablishes == Init => IInv
<1> SUFFICES ASSUME Init PROVE IInv
  OBVIOUS
<1>1. \A v \in Visitors : look[v] = Idle /\ seen[v] = {}
  BY DEF Init
<1>2. TypeOK
  BY <1>1, IdleOK DEF Init, TypeOK
<1> QED
  BY <1>1, <1>2, IdleOK DEF IInv

----------------------------------------------------------------------------
(* Steps of the administrators.                                            *)

LEMMA SaveStep ==
  ASSUME IInv, NEW u \in Updates, NEW list \in SUBSET Addrs,
         Save(u, list) \/ SaveThenFail(u, list)
  PROVE  IInv'
<1>1. UNCHANGED <<started, configured, look, seen>>
  BY DEF Save, SaveThenFail
<1>2. TypeOK'
  BY DEF IInv, TypeOK, Save, SaveThenFail
<1>3. ASSUME NEW v \in Visitors, look[v].pc # "idle"
      PROVE  LookOK(look[v], seen[v], configured)'
  BY <1>1, <1>3, LookSame DEF IInv
<1> QED
  BY <1>1, <1>2, <1>3 DEF IInv

(* One more list: what some list says is still said by one, and a list that*)
(* is the only one was so before.                                          *)
LEMMA MoreLists ==
  ASSUME NEW q, NEW S, NEW list, NEW new, LookOK(q, S, list), NEW T, T = S \cup {new}
  PROVE  LookOK(q, T, new)
<1>1. IsFiniteSet(T)
  BY FS_AddElement DEF LookOK
<1>2. S \subseteq T /\ new \in T /\ list \in S
  BY DEF LookOK
<1>3. Supported(q, T)
  BY <1>2 DEF LookOK, Supported, ReportersUpTo
<1>4. ASSUME T = {new} PROVE Steady(q, new)
  <2>1. list = new /\ S = {list}
    BY <1>2, <1>4
  <2> QED
    BY <2>1 DEF LookOK
<1> QED
  BY <1>1, <1>2, <1>3, <1>4 DEF LookOK

LEMMA ApplyStep == ASSUME IInv, NEW u \in Updates, Apply(u) PROVE IInv'
<1>1. /\ change[u].list \in SUBSET Addrs /\ configured' = change[u].list
      /\ UNCHANGED <<started, stored, look>>
      /\ change' = [change EXCEPT ![u] = [@ EXCEPT !.pc = "idle"]]
      /\ seen' = [v \in Visitors |->
            IF look[v].pc = "idle" THEN seen[v] ELSE seen[v] \cup {configured'}]
  BY DEF Apply, IInv, TypeOK
<1>2. TypeOK'
  <2>1. change' \in [Updates -> [pc : {"idle", "apply"}, list : SUBSET Addrs]]
    BY <1>1 DEF IInv, TypeOK
  <2>2. seen' \in [Visitors -> SUBSET SUBSET Addrs]
    BY <1>1 DEF IInv, TypeOK
  <2> QED
    BY <1>1, <2>1, <2>2 DEF IInv, TypeOK
<1>3. ASSUME NEW v \in Visitors, look[v].pc # "idle"
      PROVE  LookOK(look[v], seen[v], configured)'
  <2>1. LookOK(look[v], seen[v], configured)
    BY <1>3 DEF IInv
  <2>2. seen'[v] = seen[v] \cup {configured'}
    BY <1>1, <1>3
  <2>3. LookOK(look[v], seen'[v], configured')
    BY <2>1, <2>2, MoreLists
  <2> QED
    BY <1>1, <2>3, LookSame
<1> QED
  BY <1>1, <1>2, <1>3 DEF IInv

LEMMA RestartStep == ASSUME IInv, Restart PROVE IInv'
<1>1. TypeOK'
  BY IdleOK DEF IInv, TypeOK, Restart
<1>2. \A v \in Visitors : look'[v].pc = "idle"
  BY IdleOK DEF Restart
<1> QED
  BY <1>1, <1>2 DEF IInv

----------------------------------------------------------------------------
(* Steps of the requests.                                                  *)

LEMMA LookStep ==
  ASSUME IInv, NEW v \in Visitors, NEW row \in LookRow, Goto(v, row),
         row.pc = "done" => row.client \in Addrs,
         row.pc # "idle" => LookOK(row, seen'[v], configured),
         seen' \in [Visitors -> SUBSET SUBSET Addrs],
         \A w \in Visitors : w # v => seen'[w] = seen[w],
         UNCHANGED <<started, stored, configured, change>>
  PROVE  IInv'
<1>1. look' \in [Visitors -> LookRow] /\ look'[v] = row
      /\ \A w \in Visitors : w # v => look'[w] = look[w]
  BY DEF IInv, TypeOK, Goto
<1>2. TypeOK'
  BY <1>1 DEF IInv, TypeOK
<1>3. ASSUME NEW w \in Visitors, look'[w].pc # "idle"
      PROVE  LookOK(look'[w], seen'[w], configured)
  BY <1>1, <1>3 DEF IInv
<1>4. ASSUME NEW w \in Visitors, look'[w].pc # "idle"
      PROVE  LookOK(look[w], seen[w], configured)'
  BY <1>3, <1>4, LookSame
<1> QED
  BY <1>2, <1>4 DEF IInv

LEMMA ArriveStep ==
  ASSUME IInv, NEW v \in Visitors, NEW peer \in Addrs, NEW h \in Headers, Arrive(v, peer, h)
  PROVE  IInv'
<1> DEFINE row == [Idle EXCEPT !.pc = "peer", !.peer = peer, !.header = h]
<1>1. row \in LookRow /\ row.pc = "peer" /\ row.peer = peer /\ row.header = h
  BY DEF Idle, LookRow
<1>2. Goto(v, row) /\ seen' = [seen EXCEPT ![v] = {configured}]
      /\ UNCHANGED <<started, stored, configured, change>>
  BY DEF Arrive
<1> HIDE DEF row
<1>3. seen' \in [Visitors -> SUBSET SUBSET Addrs] /\ seen'[v] = {configured}
      /\ \A w \in Visitors : w # v => seen'[w] = seen[w]
  BY <1>2 DEF IInv, TypeOK
<1>4. LookOK(row, seen'[v], configured)
  BY <1>1, <1>3, FS_Singleton DEF LookOK, Supported, Steady
<1> QED
  BY <1>1, <1>2, <1>3, <1>4, LookStep

LEMMA LeaveStep == ASSUME IInv, NEW v \in Visitors, Leave(v) PROVE IInv'
<1>1. seen' \in [Visitors -> SUBSET SUBSET Addrs]
      /\ \A w \in Visitors : w # v => seen'[w] = seen[w]
  BY DEF IInv, TypeOK, Leave
<1> QED
  BY <1>1, IdleOK, LookStep DEF Leave

(* A step that looks at the list and leaves the history alone.             *)
LEMMA LookOnStep ==
  ASSUME IInv, NEW v \in Visitors, NEW row \in LookRow, Goto(v, row),
         row.pc = "done" => row.client \in Addrs,
         LookOK(row, seen[v], configured),
         UNCHANGED <<started, stored, configured, change, seen>>
  PROVE  IInv'
<1>1. seen' \in [Visitors -> SUBSET SUBSET Addrs]
  BY DEF IInv, TypeOK
<1> QED
  BY <1>1, LookStep

LEMMA AnswerStep ==
  ASSUME IInv, NEW v \in Visitors, look[v].pc # "idle", NEW addr \in Addrs, Answer(v, addr),
         UNCHANGED <<started, stored, configured, change, seen>>,
         NEW q, q = look[v],
         addr # q.peer =>
            /\ \E list \in seen[v] : isTrustedPeer(list, q.peer)
            /\ q.header.present => \E i \in 1 .. Len(q.header.chain) :
                  /\ q.header.chain[i] = addr
                  /\ \E list \in seen[v] : ~isTrusted(list, addr)
                  /\ \A j \in i + 1 .. Len(q.header.chain) :
                        \E list \in seen[v] : isTrusted(list, q.header.chain[j]),
         seen[v] = {configured} => addr = Client(configured, q.peer, q.header)
  PROVE  IInv'
<1> DEFINE row == [q EXCEPT !.pc = "done", !.client = addr]
<1>1. q \in LookRow /\ LookOK(q, seen[v], configured)
  BY RowFacts DEF IInv
<1>2. /\ row \in LookRow /\ row.pc = "done" /\ row.client = addr
      /\ row.peer = q.peer /\ row.header = q.header
  BY <1>1 DEF LookRow
<1>3. Goto(v, row)
  BY DEF Answer
<1> HIDE DEF row
<1>4. LookOK(row, seen[v], configured)
  BY <1>1, <1>2 DEF LookOK, Supported, Steady
<1> QED
  BY <1>2, <1>3, <1>4, LookOnStep

(* The peer was found trusted: the headers are looked at.                  *)
LEMMA ReadHeadersStep ==
  ASSUME IInv, NEW v \in Visitors, look[v].pc \in {"peer", "default"}, ReadHeaders(v),
         isTrustedPeer(configured, look[v].peer),
         UNCHANGED <<started, stored, configured, change, seen>>
  PROVE  IInv'
<1> DEFINE q == look[v]
           h == q.header
<1>1. q \in LookRow /\ LookOK(q, seen[v], configured)
  BY RowFacts DEF IInv
<1>2. q.peer \in Addrs /\ h \in Headers /\ configured \in seen[v]
  BY <1>1 DEF LookOK
<1>3. /\ h.present \in BOOLEAN /\ h.valid \in BOOLEAN
      /\ Len(h.chain) \in Nat
      /\ h.real \in Addrs \cup {Nobody}
      /\ h.present /\ h.valid => Len(h.chain) > 0
  BY <1>2, HeaderFacts
<1>4. CASE h.present /\ h.valid
  <2> DEFINE row == [q EXCEPT !.pc = "hops", !.index = Len(h.chain)]
  <2>1. /\ row \in LookRow /\ row.pc = "hops" /\ row.index = Len(h.chain)
        /\ row.peer = q.peer /\ row.header = h
    BY <1>1, <1>3 DEF LookRow
  <2>2. Goto(v, row)
    BY <1>4 DEF ReadHeaders
  <2> HIDE DEF row
  <2>3. LookOK(row, seen[v], configured)
    BY <1>1, <1>2, <1>3, <1>4, <2>1 DEF LookOK, Supported, Steady, ReportersUpTo
  <2> QED
    BY <2>1, <2>2, <2>3, LookOnStep
<1>5. CASE ~(h.present /\ h.valid)
  <2> DEFINE addr == IF h.present \/ h.real = Nobody THEN q.peer ELSE h.real
  <2>1. Answer(v, addr)
    BY <1>5 DEF ReadHeaders
  <2>2. addr \in Addrs
    BY <1>2, <1>3
  <2>3. addr = Client(configured, q.peer, h)
    BY <1>3, <1>5 DEF Client
  <2>4. addr # q.peer =>
          (\E list \in seen[v] : isTrustedPeer(list, q.peer)) /\ ~h.present
    BY <1>2
  <2> HIDE DEF addr
  <2> QED
    BY <2>1, <2>2, <2>3, <2>4, AnswerStep
<1> QED
  BY <1>4, <1>5

LEMMA PeerStep == ASSUME IInv, NEW v \in Visitors, LookAtPeer(v) PROVE IInv'
<1> DEFINE q == look[v]
           row == [q EXCEPT !.pc = "default"]
<1>1. /\ q.pc = "peer" /\ UNCHANGED <<started, stored, configured, change, seen>>
      /\ q \in LookRow /\ LookOK(q, seen[v], configured)
  BY RowFacts DEF LookAtPeer, IInv
<1>2. CASE isTrusted(configured, q.peer)
  BY <1>1, <1>2, ReadHeadersStep DEF LookAtPeer, isTrustedPeer
<1>3. CASE ~isTrusted(configured, q.peer)
  <2>1. Goto(v, row)
    BY <1>3 DEF LookAtPeer
  <2>2. row \in LookRow /\ row.pc = "default" /\ row.peer = q.peer /\ row.header = q.header
    BY <1>1 DEF LookRow
  <2> HIDE DEF row
  <2>3. LookOK(row, seen[v], configured)
    BY <1>1, <1>3, <2>2 DEF LookOK, Supported, Steady
  <2> QED
    BY <1>1, <2>1, <2>2, <2>3, LookOnStep
<1> QED
  BY <1>2, <1>3

LEMMA DefaultStep == ASSUME IInv, NEW v \in Visitors, LookAtDefault(v) PROVE IInv'
<1> DEFINE q == look[v]
<1>1. /\ q.pc = "default" /\ UNCHANGED <<started, stored, configured, change, seen>>
      /\ LookOK(q, seen[v], configured) /\ q.peer \in Addrs
  BY DEF LookAtDefault, IInv, LookOK
<1>2. CASE trustsAll(configured)
  BY <1>1, <1>2, ReadHeadersStep DEF LookAtDefault, isTrustedPeer
<1>3. CASE ~trustsAll(configured)
  <2>1. Answer(v, q.peer)
    BY <1>3 DEF LookAtDefault
  <2>2. seen[v] = {configured} => ~isTrusted(configured, q.peer)
    BY <1>1 DEF LookOK, Steady
  <2>3. ASSUME seen[v] = {configured}
        PROVE  q.peer = Client(configured, q.peer, q.header)
    <3>1. ~isTrustedPeer(configured, q.peer)
      BY <1>3, <2>2, <2>3 DEF isTrustedPeer
    <3> QED
      BY <3>1 DEF Client
  <2> QED
    BY <1>1, <2>1, <2>3, AnswerStep
<1> QED
  BY <1>2, <1>3

LEMMA HopStep == ASSUME IInv, NEW v \in Visitors, LookAtHop(v) PROVE IInv'
<1> DEFINE q == look[v]
           h == q.header
           S == seen[v]
           hop == h.chain[q.index]
<1>1. /\ q.pc = "hops" /\ UNCHANGED <<started, stored, configured, change, seen>>
      /\ q \in LookRow /\ LookOK(q, S, configured)
  BY RowFacts DEF LookAtHop, IInv
<1>2. /\ q.peer \in Addrs /\ h \in Headers /\ configured \in S
      /\ h.present /\ h.valid /\ q.index \in 1 .. Len(h.chain)
      /\ ReportersUpTo(q, S, q.index)
      /\ S = {configured} => Steady(q, configured)
  BY <1>1 DEF LookOK, Supported
<1>3. Len(h.chain) \in Nat /\ hop \in Addrs
  BY <1>2, HeaderFacts
<1>4. CASE ~isTrusted(configured, hop)
  <2>1. Answer(v, hop)
    BY <1>4 DEF LookAtHop
  <2>2. ASSUME S = {configured}
        PROVE  hop = Client(configured, q.peer, h)
    <3>1. /\ isTrustedPeer(configured, q.peer)
          /\ \A j \in q.index + 1 .. Len(h.chain) : isTrusted(configured, h.chain[j])
      BY <1>1, <1>2, <2>2 DEF Steady
    <3> DEFINE U == Untrusted(configured, h.chain)
    <3>2. U \in SUBSET Nat /\ q.index \in U /\ \A j \in U : j <= q.index
      BY <1>2, <1>3, <1>4, <3>1 DEF Untrusted
    <3> HIDE DEF U
    <3>3. Rightmost(U) = q.index /\ U # {}
      BY <3>2, RightmostIs
    <3> QED
      BY <1>2, <3>1, <3>3 DEF Client, U
  <2>3. /\ \E list \in S : isTrustedPeer(list, q.peer)
        /\ \E list \in S : ~isTrusted(list, hop)
        /\ \A j \in q.index + 1 .. Len(h.chain) :
              \E list \in S : isTrusted(list, h.chain[j])
    BY <1>2, <1>4 DEF ReportersUpTo
  <2> QED
    BY <1>1, <1>2, <1>3, <2>1, <2>2, <2>3, AnswerStep
<1>5. CASE isTrusted(configured, hop) /\ q.index = 1
  <2>1. Answer(v, q.peer)
    BY <1>5 DEF LookAtHop
  <2>2. ASSUME S = {configured}
        PROVE  q.peer = Client(configured, q.peer, h)
    <3>1. \A j \in 1 .. Len(h.chain) : isTrusted(configured, h.chain[j])
      BY <1>1, <1>2, <1>3, <1>5, <2>2 DEF Steady
    <3>2. Untrusted(configured, h.chain) = {}
      BY <3>1 DEF Untrusted
    <3> QED
      BY <1>2, <3>2 DEF Client
  <2> QED
    BY <1>1, <1>2, <2>1, <2>2, AnswerStep
<1>6. CASE isTrusted(configured, hop) /\ q.index # 1
  <2> DEFINE row == [q EXCEPT !.index = q.index - 1]
  <2>1. Goto(v, row)
    BY <1>6 DEF LookAtHop
  <2>2. q.index - 1 \in 1 .. Len(h.chain) /\ q.index \in Nat
    BY <1>2, <1>3, <1>6
  <2>3. /\ row \in LookRow /\ row.pc = "hops" /\ row.index = q.index - 1
        /\ row.peer = q.peer /\ row.header = h
    BY <1>1, <2>2 DEF LookRow
  <2> HIDE DEF row
  <2>4. \A j \in q.index - 1 + 1 .. Len(h.chain) : j = q.index \/ j \in q.index + 1 .. Len(h.chain)
    BY <1>3, <2>2
  <2>5. ReportersUpTo(row, S, row.index)
    BY <1>2, <1>6, <2>3, <2>4 DEF ReportersUpTo
  <2>6. S = {configured} => Steady(row, configured)
    BY <1>1, <1>2, <1>6, <2>3, <2>4 DEF Steady
  <2>7. LookOK(row, S, configured)
    BY <1>1, <1>2, <2>2, <2>3, <2>5, <2>6 DEF LookOK, Supported
  <2> QED
    BY <1>1, <2>1, <2>3, <2>7, LookOnStep
<1> QED
  BY <1>4, <1>5, <1>6

LEMMA InductiveStep == IInv /\ [Next]_vars => IInv'
<1> SUFFICES ASSUME IInv, [Next]_vars PROVE IInv'
  OBVIOUS
<1>1. CASE UNCHANGED vars
  <2>1. ASSUME NEW v \in Visitors, look[v].pc # "idle"
        PROVE  LookOK(look[v], seen[v], configured)'
    BY <1>1, <2>1, LookSame DEF vars, IInv
  <2> QED
    BY <1>1, <2>1 DEF vars, IInv, TypeOK
<1> QED
  BY <1>1, SaveStep, ApplyStep, RestartStep, ArriveStep, LeaveStep, PeerStep, DefaultStep,
     HopStep DEF Next

LEMMA Invariance == Spec => []IInv
  BY InitEstablishes, InductiveStep, PTL DEF Spec

----------------------------------------------------------------------------

(* Every variable keeps its type, and whoever is answered is answered with *)
(* an address.                                                             *)
THEOREM TypeCorrect == Spec => []TypeOK
<1>1. IInv => TypeOK
  BY DEF IInv
<1> QED
  BY <1>1, Invariance, PTL

(* However often the list changes under a request, an address is believed  *)
(* only if the peer and every hop to its right was trusted under one of the*)
(* lists of the request's time (clientIP, clientip.go:74).                 *)
THEOREM OnlyTrustedReporters == Spec => []ReportersWereTrusted
<1>1. IInv => ReportersWereTrusted
  BY DEF IInv, ReportersWereTrusted, LookOK, Supported
<1> QED
  BY <1>1, Invariance, PTL

(* A request under one list is answered by the documented rule, for chains *)
(* of any length.                                                          *)
THEOREM OneListRule == Spec => []SteadyListRule
<1>1. ASSUME IInv, NEW v \in Visitors, look[v].pc = "done", Cardinality(seen[v]) = 1,
             NEW list \in seen[v]
      PROVE  look[v].client = Client(list, look[v].peer, look[v].header)
  <2>1. LookOK(look[v], seen[v], configured)
    BY <1>1 DEF IInv
  <2>2. seen[v] = {configured} /\ list = configured
    <3>1. IsFiniteSet(seen[v]) /\ configured \in seen[v]
      BY <2>1 DEF LookOK
    <3>2. \E x : seen[v] = {x}
      BY <1>1, <3>1, FS_Singleton
    <3> QED
      BY <3>1, <3>2
  <2> QED
    BY <1>1, <2>1, <2>2 DEF LookOK, Steady
<1>2. IInv => SteadyListRule
  BY <1>1 DEF SteadyListRule
<1> QED
  BY <1>2, Invariance, PTL
=============================================================================
