--------------------------- MODULE IceAgent_proof ---------------------------
(***************************************************************************)
(* For any candidates, any number of restarts, failures and closures and   *)
(* any behaviour of the network: an agent indexes what its lists no longer *)
(* have in the two named cases only, a selected pair was checked by the    *)
(* agent that selected it, and two agents of the same generations select   *)
(* the two ends of one pair.                                               *)
(*                                                                         *)
(* The first part is about one agent: the inductive invariant of the       *)
(* exchange, stated for one agent's record (Good) and for the messages     *)
(* (Carried), and a lemma for every operation of the agent that it returns *)
(* a good record from a good one and sends only what it may send.          *)
(***************************************************************************)
EXTENDS IceAgent, WellFoundedInduction, TLAPS

\* The agent has its candidates: pairs refer to them.
Live(r) == r.state \notin {"Failed", "Closed"}

\* The addresses of pair i.
EndsOf(r, i) == <<r.locals[r.pairs[i].local], r.remotes[r.pairs[i].remote].addr>>

\* The request of the controlling agent that nominates the pair of addresses e.
Nomination(e, by, for) ==
    [type |-> "request", from |-> e[1], to |-> e[2], use |-> TRUE, by |-> by, for |-> for]

IsNomination(q) == q.type = "request" /\ q.use

\* The nomination of pair i of agent a.
Invitation(r, a, i) ==
    IF a = Controlling THEN Nomination(EndsOf(r, i), gen[a], r.remote)
    ELSE Nomination(<<EndsOf(r, i)[2], EndsOf(r, i)[1]>>, r.remote, gen[a])

\* Pairs, nomination and selection refer to what is there, as long as the agent
\* has its candidates, and what succeeded was checked (C).
Indexed(r, a, C) ==
    /\ r.nominated \in 0 .. Len(r.pairs) /\ r.selected \in 0 .. Len(r.pairs)
    /\ a = Controlled => r.nominated = 0
    /\ r.selected # 0 => r.pairs[r.selected].state = "Succeeded"
    /\ ~Live(r) => r.locals = <<>> /\ r.selected = 0
    /\ Live(r) => \A i \in DOMAIN r.pairs :
        /\ InRange(r, r.pairs[i].local, r.pairs[i].remote)
        /\ r.pairs[i].state = "Succeeded" => EndsOf(r, i) \in C

\* A selected pair was nominated by the controlling agent.
Invited(r, a) ==
    /\ r.remote = 0 => r.selected = 0
    /\ r.selected # 0 => Invitation(r, a, r.selected) \in net

\* A message the agent has to send.
Sendable(r, a, q) ==
    /\ q.from \in Range(Addresses[a]) /\ q.to \in Range(Addresses[Peer(a)])
    /\ q.by = gen[a]
    /\ q.use => IF q.type = "request" THEN a = Controlling
                ELSE a = Controlled /\ Nomination(<<q.to, q.from>>, q.for, q.by) \in net

\* The nomination q is the one of the nominated pair.
OfNominated(r, q) ==
    /\ r.remote # 0 /\ q.for = r.remote
    /\ Live(r) => r.nominated # 0 /\ <<q.from, q.to>> = EndsOf(r, r.nominated)

\* Every nomination of the controlling agent since its last restart is that one.
Steady(r, a) ==
    a = Controlling => \A q \in net \cup r.out :
        IsNomination(q) /\ q.by = gen[a] => OfNominated(r, q)

\* What holds of an agent's record, within an operation also.
Good(r, a, C) ==
    /\ r \in Records(a) /\ ~r.panic /\ (~Live(r) => r.out = {})
    /\ Indexed(r, a, C) /\ Invited(r, a) /\ Steady(r, a)
    /\ \A q \in r.out : Sendable(r, a, q)

\* Messages go from one agent to the other; nominations come from the controlling
\* one and there is one for two generations; who answers one has received it.
Carried ==
    /\ \A q \in net : \E a \in Agents :
        q.from \in Range(Addresses[a]) /\ q.to \in Range(Addresses[Peer(a)])
    /\ \A q \in net : IsNomination(q) =>
        /\ q.from \in Range(Addresses[Controlling]) /\ q.to \in Range(Addresses[Controlled])
        /\ q.by <= gen[Controlling]
    /\ \A q1, q2 \in net : IsNomination(q1) /\ IsNomination(q2) /\ q1.by = q2.by /\ q1.for = q2.for
                              => q1.to = q2.to /\ q1.from = q2.from
    /\ \A q \in net : q.type = "success" /\ q.use =>
        Nomination(<<q.to, q.from>>, q.for, q.by) \in net

\* What is left of an agent that panicked.
Gone(r, a) == r \in Records(a) /\ r.panic /\ r.selected = 0 /\ r.out = {}

IInv == /\ TypeOK /\ Carried
        /\ \A a \in Agents : Good(agent[a], a, checked[a]) \/ Gone(agent[a], a)

-----------------------------------------------------------------------------
(***************************************************************************)
(* What the searches find.                                                 *)
(***************************************************************************)

\* A set of natural numbers that is not empty has a least element.
LEMMA Least ==
    ASSUME NEW S, S \subseteq Nat, S # {}
    PROVE  Min(S) \in S /\ \A y \in S : Min(S) <= y
<1>1. PICK x \in S : \A y \in S : ~(<<y, x>> \in OpToRel(<, Nat))
  BY NatLessThanWellFounded, WFMin, Zenon
<1>2. \A y \in S : ~(y < x)
  BY <1>1, Zenon DEF OpToRel
<1>3. \A y \in S : x <= y
  BY <1>2
<1> QED BY <1>3, Zenon DEF Min

\* The lists of an agent.
LEMMA Lists ==
    ASSUME NEW a \in Agents, NEW r \in Records(a)
    PROVE  /\ r.pairs \in Seq(Pairs) /\ r.locals \in Seq(Range(Addresses[a]))
           /\ r.remotes \in Seq(Candidates(Peer(a)))
           /\ Len(r.pairs) \in Nat /\ DOMAIN r.pairs = 1 .. Len(r.pairs)
           /\ Len(r.locals) \in Nat /\ DOMAIN r.locals = 1 .. Len(r.locals)
           /\ Len(r.remotes) \in Nat /\ DOMAIN r.remotes = 1 .. Len(r.remotes)
<1>1. /\ r.pairs \in Seq(Pairs) /\ r.locals \in Seq(Range(Addresses[a]))
      /\ r.remotes \in Seq(Candidates(Peer(a)))
  BY Zenon DEF Records
<1> QED BY <1>1

LEMMA FirstFinds ==
    ASSUME NEW I, I \subseteq Nat
    PROVE  IF I = {} THEN First(I) = 0 ELSE First(I) \in I
<1>1. I # {} => Min(I) \in I
  BY Least, Zenon
<1> QED BY <1>1, Zenon DEF First

\* find_pair.
LEMMA FindPairFinds ==
    ASSUME NEW a \in Agents, NEW r \in Records(a), NEW l, NEW m, NEW i, i = FindPair(r, l, m)
    PROVE  \/ i = 0 /\ \A j \in DOMAIN r.pairs : ~(r.pairs[j].local = l /\ r.pairs[j].remote = m)
           \/ /\ i \in DOMAIN r.pairs /\ i # 0
              /\ r.pairs[i].local = l /\ r.pairs[i].remote = m
<1> DEFINE I == {j \in DOMAIN r.pairs : r.pairs[j].local = l /\ r.pairs[j].remote = m}
<1>1. i = First(I) /\ I \subseteq Nat
  BY Lists DEF FindPair
<1>2. IF I = {} THEN i = 0 ELSE i \in I
  <2> HIDE DEF I
  <2> QED BY <1>1, FirstFinds, Zenon
<1> QED BY <1>2, Lists

\* find_remote_candidate.
LEMMA FindRemoteFinds ==
    ASSUME NEW a \in Agents, NEW r \in Records(a), NEW x, NEW m, m = FindRemote(r, x)
    PROVE  IF m = 0 THEN \A j \in DOMAIN r.remotes : r.remotes[j].addr # x
           ELSE m \in 1 .. Len(r.remotes) /\ r.remotes[m].addr = x
<1> DEFINE I == {j \in DOMAIN r.remotes : r.remotes[j].addr = x}
<1>1. m = First(I) /\ I \subseteq Nat
  BY Lists DEF FindRemote
<1>2. IF I = {} THEN m = 0 ELSE m \in I
  <2> HIDE DEF I
  <2> QED BY <1>1, FirstFinds, Zenon
<1> QED BY <1>2, Lists

\* The local candidate of handle_read.
LEMMA LocalFound ==
    ASSUME NEW a \in Agents, agent[a] \in Records(a), NEW q, LocalOf(a, q) # 0
    PROVE  LocalOf(a, q) \in 1 .. Len(agent[a].locals) /\ agent[a].locals[LocalOf(a, q)] = q.to
<1> DEFINE I == {l \in DOMAIN agent[a].locals : agent[a].locals[l] = q.to}
<1>1. LocalOf(a, q) = First(I) /\ I \subseteq Nat
  BY Lists DEF LocalOf
<1>2. IF I = {} THEN LocalOf(a, q) = 0 ELSE LocalOf(a, q) \in I
  <2> HIDE DEF I
  <2> QED BY <1>1, FirstFinds, Zenon
<1> QED BY <1>2, Lists, Zenon

\* get_best_valid_candidate_pair and get_best_available_candidate_pair.
LEMMA BestFinds ==
    ASSUME NEW a \in Agents, NEW r \in Records(a), NEW S, Best(r, S) # 0
    PROVE  Best(r, S) \in DOMAIN r.pairs /\ r.pairs[Best(r, S)].state \in S
<1> DEFINE some == {i \in DOMAIN r.pairs : r.pairs[i].state \in S}
           hosts == {i \in some : r.pairs[i].kind = "host"}
           better(i, j) == \/ Priority(r, i) > Priority(r, j)
                           \/ Priority(r, i) = Priority(r, j) /\ i <= j
<1>1. some \subseteq Nat /\ hosts \subseteq Nat
  BY Lists
<1>2. \A i \in some : Priority(r, i) = IF i \in hosts THEN 2 ELSE 1
  BY Zenon DEF Priority
<1>3. ASSUME some # {} PROVE \E i \in some : \A j \in some : better(i, j)
  <2>1. CASE hosts # {}
    <3>1. Min(hosts) \in hosts /\ \A j \in hosts : Min(hosts) <= j
      BY <1>1, <2>1, Least, Zenon
    <3>2. PICK h \in hosts : \A j \in hosts : h <= j
      BY <3>1, Zenon
    <3>3. ASSUME NEW j \in some PROVE better(h, j)
      <4>1. Priority(r, h) = 2 /\ (j \in hosts => Priority(r, j) = 2) /\ (j \notin hosts => Priority(r, j) = 1)
        BY <1>2, Zenon
      <4>2. CASE j \in hosts
        BY <3>2, <4>1, <4>2, Zenon
      <4>3. CASE j \notin hosts
        BY <4>1, <4>3
      <4> QED BY <4>2, <4>3, Zenon
    <3> QED BY <3>3, Zenon
  <2>2. CASE hosts = {}
    <3>1. Min(some) \in some /\ \A j \in some : Min(some) <= j
      BY <1>1, <1>3, Least, Zenon
    <3>2. \A j \in some : better(Min(some), j)
      BY <1>2, <2>2, <3>1, Zenon
    <3> QED BY <3>1, <3>2, Zenon
  <2> QED BY <2>1, <2>2, Zenon
<1>4. some # {}
  BY Zenon DEF Best
<1>5. Best(r, S) = CHOOSE i \in some : \A j \in some : better(i, j)
  BY <1>4, Zenon DEF Best
<1>6. Best(r, S) \in some
  BY <1>3, <1>4, <1>5, Zenon
<1> QED BY <1>6, Zenon

-----------------------------------------------------------------------------
(***************************************************************************)
(* What the operations of an agent keep.                                   *)
(***************************************************************************)

\* The candidates, the pairs and what refers to them.
Same(r, s) ==
    /\ s.locals = r.locals /\ s.remotes = r.remotes /\ s.remote = r.remote
    /\ s.nominated = r.nominated /\ s.selected = r.selected
    /\ Len(s.pairs) = Len(r.pairs)
    /\ \A i \in DOMAIN r.pairs :
        /\ s.pairs[i].local = r.pairs[i].local /\ s.pairs[i].remote = r.pairs[i].remote
        /\ s.pairs[i].state = "Succeeded" <=> r.pairs[i].state = "Succeeded"

\* An operation that leaves them alone and has the messages O to send.
LEMMA Kept ==
    ASSUME NEW a \in Agents, NEW C, NEW r, NEW s \in Records(a), NEW O,
           Good(r, a, C), ~s.panic, Same(r, s), Live(s) <=> Live(r), s.out = r.out \cup O,
           O # {} => Live(s),
           \A q \in O : Sendable(s, a, q) /\ (IsNomination(q) => OfNominated(s, q))
    PROVE  Good(s, a, C)
<1> USE DEF Good, Same
<1>1. /\ Len(r.pairs) \in Nat /\ DOMAIN r.pairs = 1 .. Len(r.pairs)
      /\ DOMAIN s.pairs = 1 .. Len(r.pairs)
  BY Lists, Zenon
<1>2. \A i \in DOMAIN r.pairs : EndsOf(s, i) = EndsOf(r, i)
  BY Zenon DEF EndsOf
<1>3. Indexed(s, a, C)
  <2>1. \A i \in DOMAIN r.pairs :
            InRange(s, s.pairs[i].local, s.pairs[i].remote) <=>
            InRange(r, r.pairs[i].local, r.pairs[i].remote)
    BY Zenon DEF InRange
  <2>2. r.selected # 0 => r.selected \in DOMAIN r.pairs
    BY <1>1 DEF Indexed
  <2> QED BY <1>1, <1>2, <2>1, <2>2, Zenon DEF Indexed
<1>4. Invited(s, a)
  <2>1. r.selected # 0 => r.selected \in DOMAIN r.pairs
    BY <1>1 DEF Indexed
  <2> QED BY <1>2, <2>1, Zenon DEF Invited, Invitation
<1>5. Steady(s, a)
  <2>1. r.nominated # 0 => r.nominated \in DOMAIN r.pairs
    BY <1>1 DEF Indexed
  <2> QED BY <1>2, <2>1, Zenon DEF Steady, OfNominated
<1>6. \A q \in s.out : Sendable(s, a, q)
  BY Zenon DEF Sendable
<1>7. ~Live(s) => s.out = {}
  OBVIOUS
<1> QED BY <1>3, <1>4, <1>5, <1>6, <1>7, Zenon

\* What is sent lies between addresses of the two agents.
LEMMA InRangeTyped ==
    ASSUME NEW a \in Agents, NEW r \in Records(a), NEW l, NEW m, InRange(r, l, m)
    PROVE  r.locals[l] \in Range(Addresses[a]) /\ r.remotes[m].addr \in Range(Addresses[Peer(a)])
<1>1. r.locals \in Seq(Range(Addresses[a])) /\ r.remotes \in Seq(Candidates(Peer(a)))
  BY Lists, Zenon
<1>2. r.locals[l] \in Range(Addresses[a]) /\ r.remotes[m] \in Candidates(Peer(a))
  BY <1>1 DEF InRange
<1> QED BY <1>2, Zenon DEF Candidates

LEMMA EndsAll ==
    ASSUME NEW a \in Agents
    PROVE  Range(Addresses[a]) \subseteq AllAddresses /\ Range(Addresses[Peer(a)]) \subseteq AllAddresses
BY DEF AllAddresses, Agents, Peer, Controlling, Controlled

\* The candidates of the nominated pair.
NominatedEnds(r) == {<<r.pairs[r.nominated].local, r.pairs[r.nominated].remote>>}

\* send_binding_request: of checks, or of the nomination of the nominated pair.
LEMMA RequestsGood ==
    ASSUME TypeOK, NEW a \in Agents, NEW C, NEW r, NEW E, NEW use \in BOOLEAN,
           Good(r, a, C), E # {} => Live(r), \A e \in E : InRange(r, e[1], e[2]),
           use => a = Controlling /\ r.nominated # 0 /\ E = NominatedEnds(r)
    PROVE  /\ Good(Requests(r, a, E, use), a, C)
           /\ Same(r, Requests(r, a, E, use)) /\ (Live(Requests(r, a, E, use)) <=> Live(r))
           /\ Requests(r, a, E, use).pairs = r.pairs
<1> DEFINE p == {[from |-> r.locals[e[1]], dest |-> r.remotes[e[2]].addr, use |-> use] : e \in E}
           O == {[type |-> "request", from |-> r.locals[e[1]], to |-> r.remotes[e[2]].addr,
                  use |-> use, by |-> gen[a], for |-> r.remote] : e \in E}
           s == [r EXCEPT !.pending = @ \cup p, !.out = @ \cup O]
<1>1. r \in Records(a)
  BY Zenon DEF Good
<1>2. CASE r.remote = 0
  BY <1>2, Zenon DEF Requests, Same
<1>3. CASE r.remote # 0
  <2>1. Requests(r, a, E, use) = s
    BY <1>3, Zenon DEF Requests
  <2>2. \A e \in E : /\ r.locals[e[1]] \in Range(Addresses[a])
                     /\ r.remotes[e[2]].addr \in Range(Addresses[Peer(a)])
    BY <1>1, InRangeTyped, Zenon
  <2>3. gen[a] \in 1 .. MaxGen /\ r.remote \in 1 .. MaxGen
    <3>1. r.remote \in 0 .. MaxGen
      BY <1>1, Zenon DEF Records
    <3> QED BY <1>3, <3>1 DEF TypeOK
  <2>4. O \subseteq Messages
    BY <2>2, <2>3, EndsAll DEF Messages
  <2>5. p \subseteq Pending(a)
    BY <2>2 DEF Pending
  <2>6. s \in Records(a)
    BY <1>1, <2>4, <2>5, Zenon DEF Records
  <2>7. /\ s.locals = r.locals /\ s.remotes = r.remotes /\ s.pairs = r.pairs
        /\ s.remote = r.remote /\ s.nominated = r.nominated /\ s.selected = r.selected
        /\ s.state = r.state /\ s.panic = r.panic /\ s.out = r.out \cup O
    BY <1>1, Zenon DEF Records
  <2>8. Same(r, s) /\ (Live(s) <=> Live(r)) /\ (O # {} => Live(s))
    BY <2>7, Zenon DEF Same, Live
  <2>9. ASSUME NEW q \in O
        PROVE  Sendable(s, a, q) /\ (IsNomination(q) => OfNominated(s, q))
    <3>1. PICK e \in E : q = [type |-> "request", from |-> r.locals[e[1]],
                              to |-> r.remotes[e[2]].addr, use |-> use,
                              by |-> gen[a], for |-> r.remote]
      OBVIOUS
    <3>2. Sendable(s, a, q)
      BY <2>2, <3>1, Zenon DEF Sendable
    <3>3. ASSUME IsNomination(q) PROVE OfNominated(s, q)
      <4>1. use
        BY <3>1, <3>3, Zenon DEF IsNomination
      <4>2. e = <<r.pairs[r.nominated].local, r.pairs[r.nominated].remote>>
        BY <4>1 DEF NominatedEnds
      <4> QED BY <1>3, <2>7, <3>1, <4>1, <4>2, Zenon DEF OfNominated, EndsOf
    <3> QED BY <3>2, <3>3, Zenon
  <2>10. ~s.panic
    BY <2>7, Zenon DEF Good
  <2>11. Good(s, a, C)
    <3> HIDE DEF s, O
    <3> QED BY <2>6, <2>7, <2>8, <2>9, <2>10, Kept, Zenon
  <2> QED BY <2>1, <2>7, <2>8, <2>11, Zenon
<1> QED BY <1>2, <1>3, Zenon

\* send_binding_success: a nomination is answered by the agent that received it.
LEMMA SuccessGood ==
    ASSUME TypeOK, NEW a \in Agents, NEW C, NEW r, NEW l, NEW m, NEW q \in net,
           Good(r, a, C), Live(r), InRange(r, l, m),
           q.use => /\ a = Controlled
                    /\ Nomination(<<r.remotes[m].addr, r.locals[l]>>, q.by, gen[a]) \in net
    PROVE  /\ Good(Success(r, a, l, m, q), a, C)
           /\ Same(r, Success(r, a, l, m, q)) /\ Live(Success(r, a, l, m, q))
           /\ Success(r, a, l, m, q).pairs = r.pairs
<1> DEFINE o == [type |-> "success", from |-> r.locals[l], to |-> r.remotes[m].addr,
                 use |-> q.use, by |-> gen[a], for |-> q.by]
           O == {o}
           s == [r EXCEPT !.out = @ \cup O]
<1>1. r \in Records(a)
  BY Zenon DEF Good
<1>2. Success(r, a, l, m, q) = s
  BY Zenon DEF Success
<1>3. o.from \in Range(Addresses[a]) /\ o.to \in Range(Addresses[Peer(a)])
  BY <1>1, InRangeTyped, Zenon
<1>4. gen[a] \in 1 .. MaxGen /\ q.by \in 1 .. MaxGen /\ q.use \in BOOLEAN
  BY Zenon DEF TypeOK, Messages
<1>5. o \in Messages
  BY <1>3, <1>4, EndsAll, Zenon DEF Messages
<1>6. s \in Records(a)
  BY <1>1, <1>5, Zenon DEF Records
<1>7. /\ s.locals = r.locals /\ s.remotes = r.remotes /\ s.pairs = r.pairs
      /\ s.remote = r.remote /\ s.nominated = r.nominated /\ s.selected = r.selected
      /\ s.state = r.state /\ s.panic = r.panic /\ s.out = r.out \cup O
  BY <1>1, Zenon DEF Records
<1>8. Same(r, s) /\ Live(s)
  BY <1>7, Zenon DEF Same, Live
<1>9. Sendable(s, a, o) /\ ~IsNomination(o)
  BY <1>3, Zenon DEF Sendable, IsNomination
<1>10. ~s.panic
  BY <1>7, Zenon DEF Good
<1>11. Good(s, a, C)
  <2>1. \A x \in O : Sendable(s, a, x) /\ (IsNomination(x) => OfNominated(s, x))
    BY <1>9, Zenon
  <2> HIDE DEF s, O
  <2> QED BY <1>6, <1>7, <1>8, <1>10, <2>1, Kept, Zenon
<1> QED BY <1>2, <1>7, <1>8, <1>11, Zenon

\* Candidates are only added at the end.
LEMMA InRangeGrows ==
    ASSUME NEW r, NEW s, NEW l, NEW m, InRange(r, l, m),
           Len(r.locals) \in Nat, Len(s.locals) \in Nat, Len(r.locals) <= Len(s.locals),
           Len(r.remotes) \in Nat, Len(s.remotes) \in Nat, Len(r.remotes) <= Len(s.remotes)
    PROVE  InRange(s, l, m)
BY DEF InRange

\* add_pair, of candidates that are there.
LEMMA PairsGood ==
    ASSUME TypeOK, NEW a \in Agents, NEW C, NEW r, NEW s \in Records(a), NEW new \in Seq(Pairs),
           Good(r, a, C), Live(r), Live(s), ~s.panic, s.out = r.out, s.remote = r.remote,
           s.nominated = r.nominated, s.selected = r.selected, s.pairs = r.pairs \o new,
           Len(r.locals) <= Len(s.locals), Len(r.remotes) <= Len(s.remotes),
           \A l \in DOMAIN r.locals : s.locals[l] = r.locals[l],
           \A m \in DOMAIN r.remotes : s.remotes[m] = r.remotes[m],
           \A i \in DOMAIN new : /\ InRange(s, new[i].local, new[i].remote)
                                 /\ new[i].state # "Succeeded"
    PROVE  Good(s, a, C)
<1>1. /\ Len(r.pairs) \in Nat /\ DOMAIN r.pairs = 1 .. Len(r.pairs) /\ r.pairs \in Seq(Pairs)
      /\ Len(r.locals) \in Nat /\ DOMAIN r.locals = 1 .. Len(r.locals)
      /\ Len(r.remotes) \in Nat /\ DOMAIN r.remotes = 1 .. Len(r.remotes)
      /\ Len(s.locals) \in Nat /\ Len(s.remotes) \in Nat
  BY Lists, Zenon DEF Good
<1>2. /\ DOMAIN s.pairs = 1 .. Len(r.pairs) + Len(new) /\ Len(s.pairs) = Len(r.pairs) + Len(new)
      /\ Len(new) \in Nat /\ DOMAIN new = 1 .. Len(new)
      /\ \A i \in DOMAIN r.pairs : s.pairs[i] = r.pairs[i]
      /\ \A i \in DOMAIN s.pairs \ DOMAIN r.pairs :
            i - Len(r.pairs) \in DOMAIN new /\ s.pairs[i] = new[i - Len(r.pairs)]
  BY <1>1
<1>3. \A i \in DOMAIN r.pairs :
        /\ InRange(r, r.pairs[i].local, r.pairs[i].remote)
        /\ InRange(s, s.pairs[i].local, s.pairs[i].remote)
        /\ EndsOf(s, i) = EndsOf(r, i)
  <2> TAKE i \in DOMAIN r.pairs
  <2>1. InRange(r, r.pairs[i].local, r.pairs[i].remote)
    BY Zenon DEF Good, Indexed
  <2>2. InRange(s, s.pairs[i].local, s.pairs[i].remote)
    <3>1. s.pairs[i].local = r.pairs[i].local /\ s.pairs[i].remote = r.pairs[i].remote
      BY <1>2, Zenon
    <3>2. InRange(s, r.pairs[i].local, r.pairs[i].remote)
      BY <1>1, <2>1, InRangeGrows, Zenon
    <3> QED BY <3>1, <3>2, Zenon
  <2>3. EndsOf(s, i) = EndsOf(r, i)
    BY <1>1, <1>2, <2>1, Zenon DEF InRange, EndsOf
  <2> QED BY <2>1, <2>2, <2>3, Zenon
<1>4. Indexed(s, a, C)
  <2>1. r.selected # 0 => r.selected \in DOMAIN r.pairs
    BY <1>1 DEF Good, Indexed
  <2>2. \A i \in DOMAIN s.pairs :
          /\ InRange(s, s.pairs[i].local, s.pairs[i].remote)
          /\ s.pairs[i].state = "Succeeded" => EndsOf(s, i) \in C
    <3> TAKE i \in DOMAIN s.pairs
    <3>1. CASE i \in DOMAIN r.pairs
      BY <1>2, <1>3, <3>1, Zenon DEF Good, Indexed
    <3>2. CASE i \notin DOMAIN r.pairs
      BY <1>2, <3>2
    <3> QED BY <3>1, <3>2, Zenon
  <2>3. /\ s.nominated \in 0 .. Len(s.pairs) /\ s.selected \in 0 .. Len(s.pairs)
        /\ a = Controlled => s.nominated = 0
    BY <1>1, <1>2 DEF Good, Indexed
  <2>4. s.selected # 0 => s.pairs[s.selected].state = "Succeeded"
    BY <1>2, <2>1, Zenon DEF Good, Indexed
  <2> QED BY <2>2, <2>3, <2>4, Zenon DEF Indexed
<1>5. Invited(s, a)
  <2>1. r.selected # 0 => r.selected \in DOMAIN r.pairs
    BY <1>1 DEF Good, Indexed
  <2> QED BY <1>3, <2>1, Zenon DEF Good, Invited, Invitation
<1>6. Steady(s, a)
  <2>1. r.nominated # 0 => r.nominated \in DOMAIN r.pairs
    BY <1>1 DEF Good, Indexed
  <2> QED BY <1>3, <2>1, Zenon DEF Good, Steady, OfNominated
<1>7. \A q \in s.out : Sendable(s, a, q)
  BY Zenon DEF Good, Sendable
<1> QED BY <1>4, <1>5, <1>6, <1>7, Zenon DEF Good

LEMMA NewPairTyped ==
    ASSUME TypeOK, NEW a \in Agents, NEW r \in Records(a), NEW l, NEW m, InRange(r, l, m)
    PROVE  /\ NewPair(r, l, m) \in Pairs /\ NewPair(r, l, m).state # "Succeeded"
           /\ NewPair(r, l, m).local = l /\ NewPair(r, l, m).remote = m
<1>1. r.remotes \in Seq(Candidates(Peer(a))) /\ Len(r.locals) \in Nat /\ Len(r.remotes) \in Nat
  BY Lists, Zenon
<1>2. r.remotes[m] \in Candidates(Peer(a)) /\ l \in Nat /\ m \in Nat
  BY <1>1 DEF InRange
<1>3. r.remotes[m].kind \in {"host", "prflx"}
  BY <1>2, Zenon DEF Candidates
<1> QED BY <1>2, <1>3, IceAssumption DEF NewPair, Pairs

LEMMA AddPairGood ==
    ASSUME TypeOK, NEW a \in Agents, NEW C, NEW r, NEW l, NEW m, NEW s, s = AddPair(r, l, m),
           Good(r, a, C), Live(r), InRange(r, l, m)
    PROVE  /\ Good(s, a, C) /\ Live(s) /\ s.locals = r.locals /\ s.remotes = r.remotes
           /\ s.selected = r.selected /\ s.remote = r.remote
<1>1. r \in Records(a) /\ ~r.panic
  BY Zenon DEF Good
<1>2. s = [r EXCEPT !.pairs = Append(@, NewPair(r, l, m))]
  BY Zenon DEF AddPair
<1>3. NewPair(r, l, m) \in Pairs /\ r.pairs \in Seq(Pairs)
  BY <1>1, NewPairTyped, Lists, Zenon
<1>4. Append(r.pairs, NewPair(r, l, m)) \in Seq(Pairs)
  BY <1>3
<1>5. s \in Records(a)
  BY <1>1, <1>2, <1>4, Zenon DEF Records
<1>6. /\ s.locals = r.locals /\ s.remotes = r.remotes /\ s.remote = r.remote
      /\ s.nominated = r.nominated /\ s.selected = r.selected
      /\ s.state = r.state /\ s.panic = r.panic /\ s.out = r.out
      /\ s.pairs = Append(r.pairs, NewPair(r, l, m))
  BY <1>1, <1>2, Zenon DEF Records
<1> DEFINE n == NewPair(r, l, m)
           new == <<n>>
<1>7. n.state # "Succeeded" /\ n.local = l /\ n.remote = m
  BY <1>1, NewPairTyped
<1>8. new \in Seq(Pairs) /\ s.pairs = r.pairs \o new /\ DOMAIN new = {1} /\ new[1] = n
  <2> HIDE DEF n
  <2> QED BY <1>3, <1>6 DEF n
<1>9. Live(s)
  BY <1>6, Zenon DEF Live
<1>10. InRange(s, l, m)
  BY <1>6, Zenon DEF InRange
<1>11. Good(s, a, C)
  <2> HIDE DEF n, new
  <2>1. \A i \in DOMAIN new : InRange(s, new[i].local, new[i].remote) /\ new[i].state # "Succeeded"
    BY <1>7, <1>8, <1>10, Zenon
  <2>2. /\ Len(r.locals) <= Len(s.locals) /\ Len(r.remotes) <= Len(s.remotes)
        /\ \A x \in DOMAIN r.locals : s.locals[x] = r.locals[x]
        /\ \A x \in DOMAIN r.remotes : s.remotes[x] = r.remotes[x]
    BY <1>1, <1>6, Lists
  <2>3. ~s.panic
    BY <1>1, <1>6, Zenon
  <2> QED BY <1>5, <1>6, <1>8, <1>9, <2>1, <2>2, <2>3, PairsGood, Zenon
<1> QED BY <1>6, <1>9, <1>11, Zenon

\* update_connection_state: Failed deletes the candidates and the selection.
LEMMA StateGood ==
    ASSUME TypeOK, NEW a \in Agents, NEW C, NEW r, NEW s,
           NEW st \in {"Checking", "Connected", "Disconnected", "Failed"},
           Good(r, a, C), Live(r), st = "Failed" => r.out = {}, s = UpdateState(r, st)
    PROVE  /\ Good(s, a, C) /\ s.state = st /\ s.remote = r.remote
           /\ st = "Failed" => s.remotes = <<>>
           /\ st # "Failed" => Live(s) /\ Same(r, s) /\ s.pairs = r.pairs
<1>1. r \in Records(a) /\ ~r.panic
  BY Zenon DEF Good
<1>2. CASE st = "Failed"
  <2>1. r.state # "Failed"
    BY Zenon DEF Live
  <2>2. s = [[r EXCEPT !.locals = <<>>, !.remotes = <<>>]
                EXCEPT !.selected = 0, !.state = "Failed"]
    BY <1>2, <2>1, Zenon DEF UpdateState, DeleteCandidates
  <2>3. s \in Records(a)
    <3> DEFINE t == [r EXCEPT !.locals = <<>>, !.remotes = <<>>]
    <3>1. <<>> \in Seq(Range(Addresses[a])) /\ <<>> \in Seq(Candidates(Peer(a)))
      OBVIOUS
    <3>2. t \in Records(a)
      BY <1>1, <3>1, Zenon DEF Records
    <3> HIDE DEF t
    <3>3. [t EXCEPT !.selected = 0, !.state = "Failed"] \in Records(a)
      BY <3>2, Zenon DEF Records, States
    <3> QED BY <2>2, <3>3, Zenon DEF t
  <2>4. /\ s.locals = <<>> /\ s.remotes = <<>> /\ s.selected = 0 /\ s.state = "Failed"
        /\ s.pairs = r.pairs /\ s.nominated = r.nominated /\ s.remote = r.remote
        /\ s.out = r.out /\ s.panic = r.panic
    BY <1>1, <2>2, Zenon DEF Records
  <2>5. ~Live(s)
    BY <2>4, Zenon DEF Live
  <2>6. Indexed(s, a, C)
    <3>1. r.nominated \in 0 .. Len(r.pairs) /\ (a = Controlled => r.nominated = 0)
      BY Zenon DEF Good, Indexed
    <3>2. Len(r.pairs) \in Nat
      BY <1>1, Lists, Zenon
    <3> QED BY <2>4, <2>5, <3>1, <3>2 DEF Indexed
  <2>7. Invited(s, a) /\ Steady(s, a)
    BY <2>4, <2>5, Zenon DEF Good, Invited, Steady, OfNominated
  <2>8. \A q \in s.out : Sendable(s, a, q)
    BY <2>4, Zenon DEF Good, Sendable
  <2> QED BY <1>1, <1>2, <2>3, <2>4, <2>6, <2>7, <2>8, Zenon DEF Good
<1>3. CASE st # "Failed"
  <2>1. s = [r EXCEPT !.state = st]
    BY <1>3, Zenon DEF UpdateState
  <2>2. s \in Records(a)
    BY <1>1, <2>1, Zenon DEF Records, States
  <2>3. /\ s.locals = r.locals /\ s.remotes = r.remotes /\ s.pairs = r.pairs
        /\ s.remote = r.remote /\ s.nominated = r.nominated /\ s.selected = r.selected
        /\ s.state = st /\ s.panic = r.panic /\ s.out = r.out \cup {}
    BY <1>1, <2>1, Zenon DEF Records
  <2>4. Same(r, s) /\ Live(s) /\ ~s.panic
    BY <1>1, <1>3, <2>3, Zenon DEF Same, Live
  <2>5. Good(s, a, C)
    <3> DEFINE O == {}
    <3>1. s.out = r.out \cup O /\ (O # {} => Live(s))
          /\ \A q \in O : Sendable(s, a, q) /\ (IsNomination(q) => OfNominated(s, q))
      BY <2>3, Zenon
    <3> HIDE DEF O
    <3> QED BY <2>2, <2>4, <3>1, Kept, Zenon
  <2> QED BY <1>3, <2>3, <2>4, <2>5, Zenon
<1> QED BY <1>2, <1>3, Zenon

\* set_selected_pair, of a pair that succeeded and was nominated.
LEMMA SelectedGood ==
    ASSUME TypeOK, NEW a \in Agents, NEW C, NEW r, NEW s, NEW i,
           Good(r, a, C), Live(r), s = SetSelected(r, i), r.remote # 0,
           i \in DOMAIN r.pairs, r.pairs[i].state = "Succeeded", Invitation(r, a, i) \in net
    PROVE  /\ Good(s, a, C) /\ Live(s) /\ s.locals = r.locals /\ s.remotes = r.remotes
           /\ s.pairs = r.pairs /\ s.remote = r.remote
<1>1. r \in Records(a) /\ ~r.panic
  BY Zenon DEF Good
<1>2. s = [[r EXCEPT !.state = "Connected"] EXCEPT !.selected = i, !.silent = 0]
  BY Zenon DEF SetSelected, UpdateState
<1>3. i \in Nat /\ i # 0 /\ Len(r.pairs) \in Nat /\ DOMAIN r.pairs = 1 .. Len(r.pairs)
  BY <1>1, Lists
<1>4. s \in Records(a)
  <2> DEFINE t == [r EXCEPT !.state = "Connected"]
  <2>1. t \in Records(a)
    BY <1>1, Zenon DEF Records, States
  <2> HIDE DEF t
  <2>2. i \in Nat /\ 0 \in 0 .. 2
    BY <1>3
  <2>3. [t EXCEPT !.selected = i, !.silent = 0] \in Records(a)
    BY <2>1, <2>2, Zenon DEF Records
  <2> QED BY <1>2, <2>3, Zenon DEF t
<1>5. /\ s.locals = r.locals /\ s.remotes = r.remotes /\ s.pairs = r.pairs
      /\ s.remote = r.remote /\ s.nominated = r.nominated /\ s.selected = i
      /\ s.state = "Connected" /\ s.panic = r.panic /\ s.out = r.out
  BY <1>1, <1>2, Zenon DEF Records
<1>6. Live(s)
  BY <1>5, Zenon DEF Live
<1>7. Indexed(s, a, C)
  <2>1. \A j \in DOMAIN r.pairs : /\ InRange(s, s.pairs[j].local, s.pairs[j].remote)
                                  /\ s.pairs[j].state = "Succeeded" => EndsOf(s, j) \in C
    BY <1>5, Zenon DEF Good, Indexed, InRange, EndsOf
  <2> QED BY <1>3, <1>5, <1>6, <2>1 DEF Good, Indexed
<1>8. Invited(s, a)
  BY <1>5, Zenon DEF Invited, Invitation, EndsOf
<1>9. Steady(s, a)
  BY <1>5, <1>6, Zenon DEF Good, Steady, OfNominated, EndsOf
<1>10. \A q \in s.out : Sendable(s, a, q)
  BY <1>5, Zenon DEF Good, Sendable
<1> QED BY <1>1, <1>4, <1>5, <1>6, <1>7, <1>8, <1>9, <1>10, Zenon DEF Good

\* A pair is nominated while none is: there is no nomination yet.
LEMMA NominatedGood ==
    ASSUME TypeOK, NEW C, NEW r, NEW s, NEW i, Good(r, Controlling, C), Live(r),
           s = [r EXCEPT !.nominated = i], r.nominated = 0, i \in DOMAIN r.pairs
    PROVE  /\ Good(s, Controlling, C) /\ Live(s) /\ s.locals = r.locals /\ s.remotes = r.remotes
           /\ s.pairs = r.pairs /\ s.remote = r.remote /\ s.nominated = i /\ i # 0
           /\ s.selected = r.selected
<1>0. Controlling \in Agents
  BY Zenon DEF Agents
<1>1. r \in Records(Controlling) /\ ~r.panic
  BY Zenon DEF Good
<1>2. i \in Nat /\ i # 0 /\ Len(r.pairs) \in Nat /\ DOMAIN r.pairs = 1 .. Len(r.pairs)
  BY <1>0, <1>1, Lists
<1>3. s \in Records(Controlling)
  BY <1>1, <1>2, Zenon DEF Records
<1>4. /\ s.locals = r.locals /\ s.remotes = r.remotes /\ s.pairs = r.pairs
      /\ s.remote = r.remote /\ s.nominated = i /\ s.selected = r.selected
      /\ s.state = r.state /\ s.panic = r.panic /\ s.out = r.out
  BY <1>1, Zenon DEF Records
<1>5. Live(s)
  BY <1>4, Zenon DEF Live
<1>6. Indexed(s, Controlling, C)
  <2>1. \A j \in DOMAIN r.pairs : /\ InRange(s, s.pairs[j].local, s.pairs[j].remote)
                                  /\ s.pairs[j].state = "Succeeded" => EndsOf(s, j) \in C
    BY <1>4, Zenon DEF Good, Indexed, InRange, EndsOf
  <2>2. Controlling # Controlled
    BY DEF Controlling, Controlled
  <2> QED BY <1>2, <1>4, <1>5, <2>1, <2>2 DEF Good, Indexed
<1>7. Invited(s, Controlling)
  BY <1>4, Zenon DEF Good, Invited, Invitation, EndsOf
<1>8. \A q \in net \cup s.out : ~(IsNomination(q) /\ q.by = gen[Controlling])
  BY <1>4, Zenon DEF Good, Steady, OfNominated
<1>9. \A q \in s.out : Sendable(s, Controlling, q)
  BY <1>4, Zenon DEF Good, Sendable
<1>10. Good(s, Controlling, C)
  BY <1>1, <1>3, <1>4, <1>5, <1>6, <1>7, <1>8, <1>9, Zenon DEF Good, Steady
<1> QED BY <1>2, <1>4, <1>5, <1>10, Zenon

\* nominate_pair.
LEMMA NominateGood ==
    ASSUME TypeOK, NEW C, NEW r, NEW s, Good(r, Controlling, C), Live(r),
           s = Nominate(r, Controlling), r.nominated # 0
    PROVE  /\ Good(s, Controlling, C) /\ Live(s) /\ Same(r, s) /\ s.pairs = r.pairs
<1> DEFINE E == NominatedEnds(r)
<1>1. Controlling \in Agents
  BY Zenon DEF Agents
<1>2. r.nominated \in DOMAIN r.pairs
  <2>1. r \in Records(Controlling)
    BY Zenon DEF Good
  <2>2. Len(r.pairs) \in Nat /\ DOMAIN r.pairs = 1 .. Len(r.pairs)
    BY <1>1, <2>1, Lists, Zenon
  <2> QED BY <2>2 DEF Good, Indexed
<1>3. InRange(r, r.pairs[r.nominated].local, r.pairs[r.nominated].remote)
  BY <1>2, Zenon DEF Good, Indexed
<1>4. \A e \in E : InRange(r, e[1], e[2])
  BY <1>3 DEF NominatedEnds
<1>5. s = Requests(r, Controlling, E, TRUE)
  BY Zenon DEF Nominate, Request, NominatedEnds
<1>6. E = NominatedEnds(r)
  OBVIOUS
<1> HIDE DEF E
<1>7. PICK use \in BOOLEAN : use = TRUE
  OBVIOUS
<1>8. /\ Good(Requests(r, Controlling, E, use), Controlling, C)
      /\ Same(r, Requests(r, Controlling, E, use)) /\ Live(Requests(r, Controlling, E, use))
      /\ Requests(r, Controlling, E, use).pairs = r.pairs
  BY <1>1, <1>4, <1>6, RequestsGood
<1> QED BY <1>5, <1>7, <1>8, Zenon

\* A panic of an agent that has no selected pair and sent nothing.
LEMMA PanicGone ==
    ASSUME NEW a \in Agents, NEW r \in Records(a), r.selected = 0, r.out = {}
    PROVE  Gone(Panic(r), a) /\ Panic(r).state = r.state
<1>1. /\ Panic(r) \in Records(a) /\ Panic(r).panic /\ Panic(r).selected = r.selected
      /\ Panic(r).out = r.out /\ Panic(r).state = r.state
  BY Zenon DEF Panic, Records
<1> QED BY <1>1, Zenon DEF Gone

\* ping_all_candidates.  An agent that has lost its candidates panics when a pair is
\* left to check.
LEMMA PingAllGood ==
    ASSUME TypeOK, NEW a \in Agents, NEW C, NEW r, NEW s, Good(r, a, C), s = PingAll(r, a)
    PROVE  /\ Live(r) => Good(s, a, C) /\ Live(s) /\ Same(r, s)
           /\ ~Live(r) /\ r.out = {} => Good(s, a, C) \/ (Gone(s, a) /\ r.pairs # <<>>)
<1> DEFINE open == {i \in DOMAIN r.pairs : r.pairs[i].state \in {"Waiting", "InProgress"}}
           spent == {i \in open : r.pairs[i].count > MaxBinding}
           pairs == [i \in DOMAIN r.pairs |->
                       CASE i \in spent -> [r.pairs[i] EXCEPT !.state = "Failed"]
                         [] i \in open \ spent -> [r.pairs[i] EXCEPT !.state = "InProgress",
                                                                     !.count = @ + 1]
                         [] OTHER -> r.pairs[i]]
           t == [r EXCEPT !.pairs = pairs]
           E == {<<r.pairs[i].local, r.pairs[i].remote>> : i \in open \ spent}
<1>1. r \in Records(a) /\ ~r.panic
  BY Zenon DEF Good
<1>2. r.pairs \in Seq(Pairs) /\ Len(r.pairs) \in Nat /\ DOMAIN r.pairs = 1 .. Len(r.pairs)
  BY <1>1, Lists, Zenon
<1>3. ASSUME NEW i \in DOMAIN r.pairs
      PROVE  /\ pairs[i] \in Pairs
             /\ pairs[i].local = r.pairs[i].local /\ pairs[i].remote = r.pairs[i].remote
             /\ pairs[i].state = "Succeeded" <=> r.pairs[i].state = "Succeeded"
  <2>1. r.pairs[i] \in Pairs
    BY <1>2
  <2>2. CASE i \in spent
    <3>1. pairs[i] = [r.pairs[i] EXCEPT !.state = "Failed"]
      BY <2>2, Zenon
    <3>2. r.pairs[i].state # "Succeeded"
      BY <2>2, Zenon
    <3> QED BY <2>1, <3>1, <3>2, Zenon DEF Pairs
  <2>3. CASE i \in open \ spent
    <3>1. pairs[i] = [r.pairs[i] EXCEPT !.state = "InProgress", !.count = @ + 1]
      BY <2>3, Zenon
    <3>2. r.pairs[i].state # "Succeeded" /\ ~(r.pairs[i].count > MaxBinding)
      BY <2>3, Zenon
    <3>3. r.pairs[i].count + 1 \in 0 .. MaxBinding + 1
      <4>1. r.pairs[i].count \in 0 .. MaxBinding + 1
        BY <2>1, Zenon DEF Pairs
      <4> QED BY <3>2, <4>1, IceAssumption
    <3> QED BY <2>1, <3>1, <3>2, <3>3, Zenon DEF Pairs
  <2>4. CASE i \notin open
    BY <2>1, <2>4, Zenon
  <2> QED BY <2>2, <2>3, <2>4, Zenon
<1>4. pairs \in Seq(Pairs) /\ Len(pairs) = Len(r.pairs)
  <2>1. DOMAIN pairs = DOMAIN r.pairs /\ \A i \in DOMAIN r.pairs : pairs[i] \in Pairs
    BY <1>3, Zenon
  <2> HIDE DEF pairs
  <2>2. pairs \in [1 .. Len(r.pairs) -> Pairs]
    BY <1>2, <2>1, Zenon DEF pairs
  <2> QED BY <1>2, <2>2
<1>5. t \in Records(a)
  BY <1>1, <1>4, Zenon DEF Records
<1>6. /\ t.locals = r.locals /\ t.remotes = r.remotes /\ t.pairs = pairs
      /\ t.remote = r.remote /\ t.nominated = r.nominated /\ t.selected = r.selected
      /\ t.state = r.state /\ t.panic = r.panic /\ t.out = r.out \cup {}
  BY <1>1, Zenon DEF Records
<1>7. Same(r, t) /\ (Live(t) <=> Live(r)) /\ ~t.panic
  <2> HIDE DEF pairs, t
  <2> QED BY <1>1, <1>3, <1>4, <1>6, Zenon DEF Same, Live
<1>8. Good(t, a, C)
  <2> DEFINE O == {}
  <2>1. t.out = r.out \cup O /\ (O # {} => Live(t))
        /\ \A q \in O : Sendable(t, a, q) /\ (IsNomination(q) => OfNominated(t, q))
    BY <1>6, Zenon
  <2> HIDE DEF O, t
  <2> QED BY <1>5, <1>7, <2>1, Kept, Zenon
<1>9. Live(r) => \A e \in E : InRange(t, e[1], e[2])
  <2> HAVE Live(r)
  <2>1. \A i \in DOMAIN r.pairs : InRange(r, r.pairs[i].local, r.pairs[i].remote)
    BY Zenon DEF Good, Indexed
  <2>2. \A e \in E : InRange(r, e[1], e[2])
    BY <2>1
  <2> HIDE DEF t, E
  <2> QED BY <1>6, <2>2, Zenon DEF InRange
<1>10. s = Requests(t, a, E, FALSE)
  BY Zenon DEF PingAll
<1>11. ASSUME Live(r) PROVE Good(s, a, C) /\ Live(s) /\ Same(r, s)
  <2>1. DOMAIN t.pairs = DOMAIN r.pairs
    <3> HIDE DEF t
    <3> QED BY <1>2, <1>5, <1>7, Lists, Zenon DEF Same
  <2> HIDE DEF t, E
  <2>2. Good(s, a, C) /\ Same(t, s) /\ Live(s)
    <3>1. FALSE \in BOOLEAN /\ Live(t) /\ \A e \in E : InRange(t, e[1], e[2])
      BY <1>7, <1>9, <1>11, Zenon
    <3>2. /\ Good(Requests(t, a, E, FALSE), a, C) /\ Same(t, Requests(t, a, E, FALSE))
          /\ Live(Requests(t, a, E, FALSE)) <=> Live(t)
      BY <1>8, <3>1, RequestsGood, Zenon
    <3> QED BY <1>10, <3>1, <3>2, Zenon
  <2> QED BY <1>7, <2>1, <2>2, Zenon DEF Same
<1>12. ASSUME ~Live(r), r.out = {} PROVE Good(s, a, C) \/ (Gone(s, a) /\ r.pairs # <<>>)
  <2>1. t.locals = <<>> /\ t.selected = 0 /\ t.out = {}
    <3> HIDE DEF t
    <3> QED BY <1>6, <1>12, Zenon DEF Good, Indexed
  <2>2. CASE t.remote = 0
    <3> HIDE DEF t, E
    <3> QED BY <1>8, <1>10, <2>2, Zenon DEF Requests
  <2>3. CASE E = {}
    <3> HIDE DEF t, E
    <3> QED BY <1>8, <1>10, <2>3, RequestsGood, Zenon
  <2>4. CASE t.remote # 0 /\ E # {}
    <3>1. r.pairs # <<>>
      <4>1. PICK i \in open : TRUE
        BY <2>4, Zenon
      <4> QED BY <1>2, <4>1
    <3> HIDE DEF t, E
    <3>2. \A e \in E : ~InRange(t, e[1], e[2])
      BY <2>1 DEF InRange
    <3>3. s = Panic(t)
      BY <1>10, <2>4, <3>2, Zenon DEF Requests
    <3> QED BY <1>5, <2>1, <3>1, <3>3, PanicGone, Zenon
  <2> QED BY <2>2, <2>3, <2>4, Zenon
<1> QED BY <1>11, <1>12, Zenon

\* validate_selected_pair and check_keepalive: the connection fails where the
\* failed timeout expired.
LEMMA SelectedContactGood ==
    ASSUME TypeOK, NEW a \in Agents, NEW C, NEW r, NEW s, Good(r, a, C), Live(r), r.selected # 0,
           r.out = {},
           s = Validate(r) \/ s = Keepalive(Validate(r), a)
    PROVE  /\ Good(s, a, C) /\ s.remote = r.remote
           /\ r.silent = 2 => s.state = "Failed" /\ s.remotes = <<>>
           /\ r.silent # 2 => Live(s) /\ Same(r, s)
<1> DEFINE st == CASE r.silent = 2 -> "Failed"
                   [] r.silent = 1 -> "Disconnected"
                   [] r.silent = 0 -> "Connected"
           t == UpdateState(r, st)
<1>1. r \in Records(a)
  BY Zenon DEF Good
<1>2. /\ st \in {"Checking", "Connected", "Disconnected", "Failed"}
      /\ st = "Failed" <=> r.silent = 2
  <2>1. r.silent \in 0 .. 2
    BY <1>1, Zenon DEF Records
  <2>2. r.silent = 0 \/ r.silent = 1 \/ r.silent = 2
    BY <2>1
  <2> QED BY <2>2
<1>3. Validate(r) = t
  BY Zenon DEF Validate
<1>4. /\ Good(t, a, C) /\ t.state = st /\ t.remote = r.remote
      /\ st = "Failed" => t.remotes = <<>>
      /\ st # "Failed" => Live(t) /\ Same(r, t) /\ t.pairs = r.pairs
  <2> HIDE DEF st
  <2> QED BY <1>2, StateGood
<1>5. CASE r.silent = 2
  <2>1. ~Live(t)
    BY <1>2, <1>4, <1>5, Zenon DEF Live
  <2>2. t.selected = 0
    BY <1>4, <2>1, Zenon DEF Good, Indexed
  <2>3. s = t
    BY <1>3, <2>2, Zenon DEF Keepalive
  <2> QED BY <1>2, <1>4, <1>5, <2>3, Zenon
<1>6. CASE r.silent # 2 /\ s = t
  BY <1>2, <1>4, <1>6, Zenon
<1>7. CASE r.silent # 2 /\ s = Keepalive(Validate(r), a)
  <2> HIDE DEF t
  <2>1. Live(t) /\ Same(r, t) /\ t.selected # 0
    BY <1>2, <1>4, <1>7, Zenon DEF Same
  <2>2. t.selected \in DOMAIN t.pairs
    <3>1. Len(t.pairs) \in Nat /\ DOMAIN t.pairs = 1 .. Len(t.pairs)
      BY <1>4, Lists, Zenon DEF Good
    <3> QED BY <1>4, <2>1, <3>1 DEF Good, Indexed
  <2> DEFINE E == {<<t.pairs[t.selected].local, t.pairs[t.selected].remote>>}
  <2>3. InRange(t, t.pairs[t.selected].local, t.pairs[t.selected].remote)
    BY <1>4, <2>1, <2>2, Zenon DEF Good, Indexed
  <2>4. \A e \in E : InRange(t, e[1], e[2])
    BY <2>3
  <2>5. s = Requests(t, a, E, FALSE)
    BY <1>3, <1>7, <2>1, Zenon DEF Keepalive, Request
  <2>6. Good(s, a, C) /\ Same(t, s) /\ Live(s)
    <3>1. Good(t, a, C) /\ FALSE \in BOOLEAN
      BY <1>4, Zenon
    <3> HIDE DEF E
    <3>2. Live(t)
      BY <2>1, Zenon
    <3>3. /\ Good(Requests(t, a, E, FALSE), a, C)
          /\ Same(t, Requests(t, a, E, FALSE)) /\ Live(Requests(t, a, E, FALSE))
      BY <2>4, <3>1, <3>2, RequestsGood, Zenon
    <3> QED BY <2>5, <3>3, Zenon
  <2>7. Same(r, s) /\ s.remote = r.remote
    <3>1. DOMAIN t.pairs = DOMAIN r.pairs
      BY <1>1, <1>4, <2>1, Lists, Zenon DEF Good, Same
    <3> QED BY <2>1, <2>6, <3>1, Zenon DEF Same
  <2> QED BY <1>7, <2>6, <2>7, Zenon
<1> QED BY <1>3, <1>5, <1>6, <1>7, Zenon

\* An operation on the clocks, on the requests under way or on the last state.
Alike(r, s) ==
    /\ s.locals = r.locals /\ s.remotes = r.remotes /\ s.pairs = r.pairs
    /\ s.remote = r.remote /\ s.nominated = r.nominated /\ s.selected = r.selected
    /\ s.state = r.state /\ s.panic = r.panic /\ s.out = r.out

LEMMA Quiet ==
    ASSUME NEW a \in Agents, NEW C, NEW r, NEW s \in Records(a), Good(r, a, C), Alike(r, s)
    PROVE  Good(s, a, C) /\ (Live(s) <=> Live(r))
<1>1. Live(s) <=> Live(r)
  BY Zenon DEF Alike, Live
<1>2. Same(r, s) /\ ~s.panic
  BY Zenon DEF Alike, Same, Good
<1> DEFINE O == {}
<1>3. s.out = r.out \cup O /\ (O # {} => Live(s))
      /\ \A q \in O : Sendable(s, a, q) /\ (IsNomination(q) => OfNominated(s, q))
  BY Zenon DEF Alike
<1> HIDE DEF O
<1>4. Good(s, a, C)
  BY <1>1, <1>2, <1>3, Kept, Zenon
<1> QED BY <1>1, <1>4, Zenon

\* contact_candidates of the two selectors.
LEMMA ContactCandidatesGood ==
    ASSUME TypeOK, NEW a \in Agents, NEW C, NEW r, NEW s, Good(r, a, C), Live(r),
           r.out = {}, s = ContactCandidates(r, a)
    PROVE  /\ Good(s, a, C) /\ s.remote = r.remote
           /\ (r.selected # 0 /\ r.silent = 2) => s.state = "Failed" /\ s.remotes = <<>>
           /\ (r.selected = 0 \/ r.silent # 2) => Live(s) /\ s.locals = r.locals /\ s.remotes = r.remotes
<1>1. r \in Records(a)
  BY Zenon DEF Good
<1>2. CASE r.selected # 0
  <2>1. s = Validate(r) \/ s = Keepalive(Validate(r), a)
    BY <1>2, Zenon DEF ContactCandidates
  <2>2. /\ Good(s, a, C) /\ s.remote = r.remote
        /\ r.silent = 2 => s.state = "Failed" /\ s.remotes = <<>>
        /\ (r.silent # 2 => Live(s) /\ Same(r, s))
    <3>1. CASE s = Validate(r)
      BY <1>2, <3>1, SelectedContactGood
    <3>2. CASE s = Keepalive(Validate(r), a)
      BY <1>2, <3>2, SelectedContactGood
    <3> QED BY <2>1, <3>1, <3>2, Zenon
  <2> QED BY <1>2, <2>2, Zenon DEF Same
<1>0. CASE r.selected = 0 /\ a \in Lite
  BY <1>0, Zenon DEF ContactCandidates
<1>3. CASE r.selected = 0 /\ a \notin Lite /\ a = Controlling /\ r.nominated # 0
  <2>1. s = Nominate(r, Controlling)
    BY <1>3, Zenon DEF ContactCandidates
  <2>2. Good(r, Controlling, C)
    BY <1>3, Zenon
  <2>3. Good(s, Controlling, C) /\ Live(s) /\ Same(r, s)
    BY <1>3, <2>1, <2>2, NominateGood, Zenon
  <2> QED BY <1>3, <2>3, Zenon DEF Same
<1>4. CASE r.selected = 0 /\ a \notin Lite /\ a = Controlling /\ r.nominated = 0 /\ Nominates(r)
  <2> DEFINE i == BestValid(r)
             t == [r EXCEPT !.nominated = i]
  <2>1. s = Nominate(t, Controlling)
    BY <1>4, Zenon DEF ContactCandidates
  <2>2. i \in DOMAIN r.pairs
    BY <1>1, <1>4, BestFinds, Zenon DEF Nominates, BestValid
  <2>3. Good(r, Controlling, C)
    BY <1>4, Zenon
  <2> HIDE DEF i
  <2>4. /\ Good(t, Controlling, C) /\ Live(t) /\ t.locals = r.locals /\ t.remotes = r.remotes
        /\ t.remote = r.remote /\ t.nominated # 0
    BY <1>4, <2>2, <2>3, NominatedGood
  <2> HIDE DEF t
  <2>5. Good(s, Controlling, C) /\ Live(s) /\ Same(t, s)
    BY <2>1, <2>4, NominateGood, Zenon
  <2> QED BY <1>4, <2>4, <2>5, Zenon DEF Same
<1>5. CASE r.selected = 0 /\ a \notin Lite /\ ~(a = Controlling /\ (r.nominated # 0 \/ Nominates(r)))
  <2>1. s = PingAll(r, a)
    BY <1>5, Zenon DEF ContactCandidates
  <2>2. Good(s, a, C) /\ Live(s) /\ Same(r, s)
    BY <2>1, PingAllGood, Zenon
  <2> QED BY <1>5, <2>2, Zenon DEF Same
<1> QED BY <1>0, <1>2, <1>3, <1>4, <1>5, Zenon

\* The candidates of r are still there in u.
Stays(r, u) == Live(u) /\ u.locals = r.locals /\ u.remotes = r.remotes

\* The agent fails, for a timeout that had expired.
Fails(r, u) == Due(r) /\ u.state = "Failed" /\ u.remotes = <<>>

\* contact, of an agent that is not closed.  Unless a timeout has expired, the
\* candidates are still there.
LEMMA ContactGood ==
    ASSUME TypeOK, NEW a \in Agents, NEW C, NEW r, NEW u, Good(r, a, C), r.state # "Closed",
           r.out = {}, u = Contact(r, a)
    PROVE  /\ Good(u, a, C) /\ u.remote = r.remote
           /\ Live(r) /\ r.remote # 0 => Stays(r, u) \/ Fails(r, u)
<1> DEFINE s == [r EXCEPT !.overdue = @ /\ r.last = r.state]
           t == IF s.state = "Failed" THEN s
                ELSE IF s.state = "Checking" /\ s.overdue THEN UpdateState(s, "Failed")
                ELSE ContactCandidates(s, a)
<1>1. r \in Records(a)
  BY Zenon DEF Good
<1>2. s \in Records(a)
  BY <1>1, Zenon DEF Records
<1>3. Alike(r, s) /\ s.silent = r.silent /\ (s.overdue => r.overdue)
  BY <1>1, Zenon DEF Records, Alike
<1>4. u = [t EXCEPT !.last = t.state]
  BY Zenon DEF Contact
<1> HIDE DEF s
<1>5. Good(s, a, C) /\ (Live(s) <=> Live(r)) /\ s.remote = r.remote /\ s.out = {}
  BY <1>2, <1>3, Quiet, Zenon DEF Alike
<1>6. /\ Good(t, a, C) /\ t.remote = r.remote
      /\ Live(r) /\ r.remote # 0 => Stays(r, t) \/ Fails(r, t)
  <2>1. CASE s.state = "Failed"
    BY <1>5, <2>1, Zenon DEF Live
  <2>2. CASE s.state # "Failed" /\ s.state = "Checking" /\ s.overdue
    <3>1. Live(s) /\ t = UpdateState(s, "Failed")
      BY <2>2, Zenon DEF Live
    <3>2. Good(t, a, C) /\ t.remote = s.remote /\ t.state = "Failed" /\ t.remotes = <<>>
      <4> HIDE DEF t
      <4> QED BY <1>5, <3>1, StateGood
    <3>3. r.remote # 0 => Due(r)
      BY <1>3, <2>2, Zenon DEF Due, Alike
    <3> QED BY <1>5, <3>2, <3>3, Zenon DEF Fails
  <2>3. CASE s.state # "Failed" /\ ~(s.state = "Checking" /\ s.overdue)
    <3>1. Live(s)
      BY <1>3, <2>3, Zenon DEF Live, Alike
    <3>2. t = ContactCandidates(s, a)
      BY <2>3, Zenon
    <3>3. /\ Good(t, a, C) /\ t.remote = s.remote
          /\ (s.selected # 0 /\ s.silent = 2) => t.state = "Failed" /\ t.remotes = <<>>
          /\ (s.selected = 0 \/ s.silent # 2) => Live(t) /\ t.locals = s.locals /\ t.remotes = s.remotes
      <4> HIDE DEF t
      <4> QED BY <1>5, <3>1, <3>2, ContactCandidatesGood
    <3>4. s.selected # 0 /\ s.silent = 2 => Due(r)
      BY <1>3, Zenon DEF Due, Alike
    <3> QED BY <1>3, <1>5, <3>3, <3>4, Zenon DEF Alike, Stays, Fails
  <2> QED BY <2>1, <2>2, <2>3, Zenon
<1> HIDE DEF t
<1>7. t \in Records(a)
  BY <1>6, Zenon DEF Good
<1>8. u \in Records(a) /\ Alike(t, u)
  BY <1>4, <1>7, Zenon DEF Records, Alike
<1>9. Good(u, a, C) /\ (Live(u) <=> Live(t))
  BY <1>6, <1>8, Quiet, Zenon
<1> QED BY <1>6, <1>8, <1>9, Zenon DEF Alike, Stays, Fails

\* contact of a closed agent: it panics when a pair is nominated or left to check.
LEMMA ClosedContact ==
    ASSUME TypeOK, NEW a \in Agents, NEW C, NEW r, NEW u, Good(r, a, C), r.state = "Closed",
           r.out = {}, r.remote # 0, u = Contact(r, a)
    PROVE  Good(u, a, C) \/ (Gone(u, a) /\ r.pairs # <<>>)
<1> DEFINE s == [r EXCEPT !.overdue = @ /\ r.last = r.state]
           t == ContactCandidates(s, a)
           i == BestValid(s)
           v == [s EXCEPT !.nominated = i]
<1>1. r \in Records(a)
  BY Zenon DEF Good
<1>2. s \in Records(a)
  BY <1>1, Zenon DEF Records
<1>3. Alike(r, s)
  BY <1>1, Zenon DEF Records, Alike
<1>4. u = [t EXCEPT !.last = t.state]
  BY <1>3, Zenon DEF Contact, Alike
<1> HIDE DEF s
<1>5. Good(s, a, C) /\ ~Live(s) /\ s.remote # 0 /\ s.out = {} /\ s.pairs = r.pairs
  BY <1>2, <1>3, Quiet, Zenon DEF Alike, Live
<1>6. s.selected = 0 /\ s.locals = <<>>
  BY <1>5, Zenon DEF Good, Indexed
<1>7. ASSUME NEW w \in Records(a), w.locals = <<>>, w.remote # 0, w.selected = 0, w.out = {}
      PROVE  Gone(Nominate(w, a), a)
  <2> DEFINE E == {<<w.pairs[w.nominated].local, w.pairs[w.nominated].remote>>}
  <2>1. \E e \in E : ~InRange(w, e[1], e[2])
    BY <1>7 DEF InRange
  <2>2. Nominate(w, a) = Requests(w, a, E, TRUE)
    BY Zenon DEF Nominate, Request
  <2> HIDE DEF E
  <2>3. Nominate(w, a) = Panic(w)
    BY <1>7, <2>1, <2>2, Zenon DEF Requests
  <2> QED BY <1>7, <2>3, PanicGone, Zenon
<1>8. Good(t, a, C) \/ (Gone(t, a) /\ r.pairs # <<>>)
  <2>1. CASE a \in Lite
    BY <1>5, <1>6, <2>1, Zenon DEF ContactCandidates
  <2>2. CASE a \notin Lite /\ a = Controlling /\ s.nominated # 0
    <3>1. t = Nominate(s, a)
      BY <1>6, <2>2, Zenon DEF ContactCandidates
    <3>2. s.pairs # <<>>
      BY <1>5, <2>2 DEF Good, Indexed
    <3> QED BY <1>2, <1>5, <1>6, <1>7, <3>1, <3>2, Zenon
  <2>3. CASE a \notin Lite /\ a = Controlling /\ s.nominated = 0 /\ Nominates(s)
    <3>1. t = Nominate(v, a)
      BY <1>6, <2>3, Zenon DEF ContactCandidates
    <3>2. i \in DOMAIN s.pairs
      BY <1>2, <2>3, BestFinds, Zenon DEF Nominates, BestValid
    <3>3. s.pairs # <<>> /\ i \in Nat
      BY <1>2, <3>2, Lists
    <3> HIDE DEF i
    <3>4. v \in Records(a) /\ v.locals = <<>> /\ v.remote # 0 /\ v.selected = 0 /\ v.out = {}
      BY <1>2, <1>5, <1>6, <3>3, Zenon DEF Records
    <3> HIDE DEF v
    <3> QED BY <1>5, <1>7, <3>1, <3>3, <3>4, Zenon
  <2>4. CASE a \notin Lite /\ ~(a = Controlling /\ (s.nominated # 0 \/ Nominates(s)))
    <3>1. t = PingAll(s, a)
      BY <1>6, <2>4, Zenon DEF ContactCandidates
    <3> HIDE DEF t
    <3> QED BY <1>5, <3>1, PingAllGood, Zenon
  <2> QED BY <2>1, <2>2, <2>3, <2>4, Zenon
<1> HIDE DEF t
<1>9. CASE Good(t, a, C)
  <2>1. t \in Records(a)
    BY <1>9, Zenon DEF Good
  <2>2. u \in Records(a) /\ Alike(t, u)
    BY <1>4, <2>1, Zenon DEF Records, Alike
  <2> QED BY <1>9, <2>2, Quiet, Zenon
<1>10. CASE Gone(t, a) /\ r.pairs # <<>>
  <2>1. t \in Records(a)
    BY <1>10, Zenon DEF Gone
  <2>2. u \in Records(a) /\ Alike(t, u)
    BY <1>4, <2>1, Zenon DEF Records, Alike
  <2> QED BY <1>10, <2>2, Zenon DEF Gone, Alike
<1> QED BY <1>8, <1>9, <1>10, Zenon

\* request_connectivity_check.
LEMMA RequestCheckGood ==
    ASSUME TypeOK, NEW a \in Agents, NEW C, NEW r, NEW u, Good(r, a, C), Live(r),
           r.out = {}, u = RequestCheck(r, a)
    PROVE  /\ Good(u, a, C) /\ u.remote = r.remote
           /\ Stays(r, u) \/ Fails(r, u)
<1>1. r.state # "Closed"
  BY Zenon DEF Live
<1>2. CASE r.remote = 0
  BY <1>2, Zenon DEF RequestCheck, Stays
<1>3. CASE r.remote # 0
  BY <1>1, <1>3, ContactGood DEF RequestCheck
<1> QED BY <1>2, <1>3, Zenon

\* The candidates of r are there in u, and c after them unless it was known.
Joined(r, u, c) ==
    /\ Live(u) /\ u.locals = r.locals
    /\ c \notin Range(r.remotes) =>
          Len(u.remotes) = Len(r.remotes) + 1 /\ u.remotes[Len(u.remotes)] = c

\* add_remote_candidate, the candidates stay unless a timeout has expired.
LEMMA WithRemoteGood ==
    ASSUME TypeOK, NEW a \in Agents, NEW C, NEW r, NEW u, NEW c \in Candidates(Peer(a)),
           Good(r, a, C), Live(r), r.out = {}, u = WithRemote(r, a, c)
    PROVE  /\ Good(u, a, C) /\ u.remote = r.remote
           /\ Joined(r, u, c) \/ (c \notin Range(r.remotes) /\ Fails(r, u))
<1>1. CASE c \in Range(r.remotes)
  BY <1>1, Zenon DEF WithRemote, Joined
<1>2. CASE c \notin Range(r.remotes)
  <2> DEFINE s == [r EXCEPT !.remotes = Append(@, c)]
             new == [l \in DOMAIN s.locals |-> NewPair(s, l, Len(s.remotes))]
             t == [s EXCEPT !.pairs = @ \o new]
  <2>1. u = RequestCheck(t, a)
    BY <1>2, Zenon DEF WithRemote
  <2>2. r \in Records(a) /\ ~r.panic
    BY Zenon DEF Good
  <2>3. Append(r.remotes, c) \in Seq(Candidates(Peer(a)))
    BY <2>2, Lists
  <2>4. s \in Records(a)
    BY <2>2, <2>3, Zenon DEF Records
  <2>5. /\ s.locals = r.locals /\ s.remotes = Append(r.remotes, c) /\ s.pairs = r.pairs
        /\ s.remote = r.remote /\ s.nominated = r.nominated /\ s.selected = r.selected
        /\ s.state = r.state /\ s.panic = r.panic /\ s.out = r.out
        /\ s.overdue = r.overdue /\ s.silent = r.silent
    BY <2>2, Zenon DEF Records
  <2> HIDE DEF s
  <2>6. /\ Len(s.locals) \in Nat /\ DOMAIN s.locals = 1 .. Len(s.locals) /\ s.pairs \in Seq(Pairs)
        /\ Len(s.remotes) \in 1 .. Len(s.remotes)
    BY <2>2, <2>4, <2>5, Lists
  <2>7. \A l \in DOMAIN s.locals : InRange(s, l, Len(s.remotes))
    BY <2>6, Zenon DEF InRange
  <2>8. \A l \in DOMAIN s.locals :
          /\ new[l] \in Pairs /\ new[l].state # "Succeeded"
          /\ new[l].local = l /\ new[l].remote = Len(s.remotes)
    BY <2>4, <2>7, NewPairTyped
  <2>9. new \in Seq(Pairs) /\ DOMAIN new = DOMAIN s.locals
    <3>1. DOMAIN new = DOMAIN s.locals /\ new \in [1 .. Len(s.locals) -> Pairs]
      BY <2>6, <2>8, Zenon
    <3> HIDE DEF new
    <3> QED BY <2>6, <3>1
  <2> HIDE DEF new
  <2>10. s.pairs \o new \in Seq(Pairs)
    BY <2>6, <2>9
  <2>11. t \in Records(a)
    BY <2>4, <2>10, Zenon DEF Records
  <2>12. /\ t.locals = r.locals /\ t.remotes = Append(r.remotes, c) /\ t.pairs = r.pairs \o new
         /\ t.remote = r.remote /\ t.nominated = r.nominated /\ t.selected = r.selected
         /\ t.state = r.state /\ t.panic = r.panic /\ t.out = r.out
         /\ t.overdue = r.overdue /\ t.silent = r.silent
    BY <2>4, <2>5, Zenon DEF Records
  <2> HIDE DEF t
  <2>13. Live(t) /\ ~t.panic /\ t.out = {} /\ (Due(t) <=> Due(r))
    BY <2>2, <2>12, Zenon DEF Live, Due
  <2>14. \A i \in DOMAIN new : InRange(t, new[i].local, new[i].remote) /\ new[i].state # "Succeeded"
    BY <2>5, <2>7, <2>8, <2>9, <2>12, Zenon DEF InRange
  <2>15. /\ Len(r.locals) <= Len(t.locals) /\ Len(r.remotes) <= Len(t.remotes)
         /\ \A l \in DOMAIN r.locals : t.locals[l] = r.locals[l]
         /\ \A m \in DOMAIN r.remotes : t.remotes[m] = r.remotes[m]
    BY <2>2, <2>12, Lists
  <2>16. Good(t, a, C)
    BY <2>9, <2>11, <2>12, <2>13, <2>14, <2>15, PairsGood, Zenon
  <2>17. /\ Good(u, a, C) /\ u.remote = t.remote
         /\ Stays(t, u) \/ Fails(t, u)
    BY <2>1, <2>13, <2>16, RequestCheckGood, Zenon
  <2>18. /\ Len(t.remotes) = Len(r.remotes) + 1 /\ t.remotes[Len(t.remotes)] = c
         /\ t.remote = r.remote /\ t.locals = r.locals
    BY <2>2, <2>12, Lists
  <2> QED BY <1>2, <2>13, <2>17, <2>18, Zenon DEF Joined, Stays, Fails
<1> QED BY <1>1, <1>2, Zenon

\* add_remote_candidate of a failed agent: there is nothing to pair it with.
LEMMA FailedRemoteGood ==
    ASSUME TypeOK, NEW a \in Agents, NEW C, NEW r, NEW u, NEW c \in Candidates(Peer(a)),
           Good(r, a, C), r.state = "Failed", r.out = {}, u = WithRemote(r, a, c)
    PROVE  Good(u, a, C)
<1>1. CASE c \in Range(r.remotes)
  BY <1>1, Zenon DEF WithRemote
<1>2. CASE c \notin Range(r.remotes)
  <2> DEFINE s == [r EXCEPT !.remotes = Append(@, c)]
             new == [l \in DOMAIN s.locals |-> NewPair(s, l, Len(s.remotes))]
             t == [s EXCEPT !.pairs = @ \o new]
  <2>1. u = RequestCheck(t, a)
    BY <1>2, Zenon DEF WithRemote
  <2>2. r \in Records(a) /\ ~r.panic /\ r.locals = <<>> /\ r.selected = 0 /\ ~Live(r)
    BY Zenon DEF Good, Indexed, Live
  <2>3. Append(r.remotes, c) \in Seq(Candidates(Peer(a)))
    BY <2>2, Lists
  <2>4. s \in Records(a)
    BY <2>2, <2>3, Zenon DEF Records
  <2>5. /\ s.locals = <<>> /\ s.pairs = r.pairs
        /\ s.remote = r.remote /\ s.nominated = r.nominated /\ s.selected = 0
        /\ s.state = r.state /\ s.panic = r.panic /\ s.out = r.out
    BY <2>2, Zenon DEF Records
  <2> HIDE DEF s
  <2>6. s.pairs \o new = s.pairs
    <3>1. new = <<>>
      BY <2>5
    <3>2. s.pairs \in Seq(Pairs)
      BY <2>4, Lists, Zenon
    <3> HIDE DEF new
    <3> QED BY <3>1, <3>2
  <2> HIDE DEF new
  <2>7. /\ t \in Records(a) /\ t.locals = <<>> /\ t.pairs = r.pairs
        /\ t.remote = r.remote /\ t.nominated = r.nominated /\ t.selected = 0
        /\ t.state = r.state /\ t.panic = r.panic /\ t.out = r.out
    BY <2>4, <2>5, <2>6, Zenon DEF Records
  <2> HIDE DEF t
  <2>8. ~Live(t)
    BY <2>2, <2>7, Zenon DEF Live
  <2>9. Indexed(t, a, C)
    <3>1. r.nominated \in 0 .. Len(r.pairs) /\ (a = Controlled => r.nominated = 0)
      BY Zenon DEF Good, Indexed
    <3>2. Len(r.pairs) \in Nat
      BY <2>2, Lists, Zenon
    <3> QED BY <2>7, <2>8, <3>1, <3>2 DEF Indexed
  <2>10. Good(t, a, C)
    BY <2>2, <2>7, <2>8, <2>9, Zenon DEF Good, Invited, Steady, OfNominated
  <2>11. t.state # "Closed" /\ t.out = {}
    BY <2>7, Zenon
  <2>12. u = t \/ u = Contact(t, a)
    BY <2>1, Zenon DEF RequestCheck
  <2> QED BY <2>10, <2>11, <2>12, ContactGood, Zenon
<1> QED BY <1>1, <1>2, Zenon

\* add_local_candidate.
LEMMA WithLocalGood ==
    ASSUME TypeOK, NEW a \in Agents, NEW C, NEW r, NEW u, NEW x \in Range(Addresses[a]),
           Good(r, a, C), Live(r), r.out = {}, u = WithLocal(r, a, x)
    PROVE  Good(u, a, C)
<1> DEFINE s == [r EXCEPT !.locals = Append(@, x)]
           new == [m \in DOMAIN s.remotes |-> NewPair(s, Len(s.locals), m)]
           t == [s EXCEPT !.pairs = @ \o new]
<1>1. u = RequestCheck(t, a)
  BY Zenon DEF WithLocal
<1>2. r \in Records(a) /\ ~r.panic
  BY Zenon DEF Good
<1>3. Append(r.locals, x) \in Seq(Range(Addresses[a]))
  BY <1>2, Lists
<1>4. s \in Records(a)
  BY <1>2, <1>3, Zenon DEF Records
<1>5. /\ s.locals = Append(r.locals, x) /\ s.remotes = r.remotes /\ s.pairs = r.pairs
      /\ s.remote = r.remote /\ s.nominated = r.nominated /\ s.selected = r.selected
      /\ s.state = r.state /\ s.panic = r.panic /\ s.out = r.out
      /\ s.overdue = r.overdue /\ s.silent = r.silent
  BY <1>2, Zenon DEF Records
<1> HIDE DEF s
<1>6. /\ Len(s.remotes) \in Nat /\ DOMAIN s.remotes = 1 .. Len(s.remotes) /\ s.pairs \in Seq(Pairs)
      /\ Len(s.locals) \in 1 .. Len(s.locals)
  BY <1>2, <1>4, <1>5, Lists
<1>7. \A m \in DOMAIN s.remotes : InRange(s, Len(s.locals), m)
  BY <1>6, Zenon DEF InRange
<1>8. \A m \in DOMAIN s.remotes :
        /\ new[m] \in Pairs /\ new[m].state # "Succeeded"
        /\ new[m].local = Len(s.locals) /\ new[m].remote = m
  BY <1>4, <1>7, NewPairTyped
<1>9. new \in Seq(Pairs) /\ DOMAIN new = DOMAIN s.remotes
  <2>1. DOMAIN new = DOMAIN s.remotes /\ new \in [1 .. Len(s.remotes) -> Pairs]
    BY <1>6, <1>8, Zenon
  <2> HIDE DEF new
  <2> QED BY <1>6, <2>1
<1> HIDE DEF new
<1>10. s.pairs \o new \in Seq(Pairs)
  BY <1>6, <1>9
<1>11. t \in Records(a)
  BY <1>4, <1>10, Zenon DEF Records
<1>12. /\ t.locals = Append(r.locals, x) /\ t.remotes = r.remotes /\ t.pairs = r.pairs \o new
       /\ t.remote = r.remote /\ t.nominated = r.nominated /\ t.selected = r.selected
       /\ t.state = r.state /\ t.panic = r.panic /\ t.out = r.out
       /\ t.overdue = r.overdue /\ t.silent = r.silent
  BY <1>4, <1>5, Zenon DEF Records
<1> HIDE DEF t
<1>13. Live(t) /\ ~t.panic /\ t.out = {} /\ (Due(t) <=> Due(r))
  BY <1>2, <1>12, Zenon DEF Live, Due
<1>14. \A i \in DOMAIN new : InRange(t, new[i].local, new[i].remote) /\ new[i].state # "Succeeded"
  BY <1>5, <1>7, <1>8, <1>9, <1>12 DEF InRange
<1>15. /\ Len(r.locals) <= Len(t.locals) /\ Len(r.remotes) <= Len(t.remotes)
       /\ \A l \in DOMAIN r.locals : t.locals[l] = r.locals[l]
       /\ \A m \in DOMAIN r.remotes : t.remotes[m] = r.remotes[m]
  BY <1>2, <1>12, Lists
<1>16. Good(t, a, C)
  BY <1>9, <1>11, <1>12, <1>13, <1>14, <1>15, PairsGood, Zenon
<1> QED BY <1>1, <1>13, <1>16, RequestCheckGood, Zenon

\* The message makes the agent hear from its selected pair.
LEMMA SeenGood ==
    ASSUME NEW a \in Agents, NEW C, NEW r, NEW m, Good(r, a, C)
    PROVE  Good(Seen(r, m), a, C)
<1>1. r \in Records(a)
  BY Zenon DEF Good
<1> DEFINE s == [r EXCEPT !.silent = 0]
<1>2. s \in Records(a)
  <2>1. 0 \in 0 .. 2
    OBVIOUS
  <2> QED BY <1>1, <2>1, Zenon DEF Records
<1>3. Alike(r, s)
  BY <1>1, Zenon DEF Records, Alike
<1>4. Good(s, a, C)
  <2> HIDE DEF s
  <2> QED BY <1>2, <1>3, Quiet, Zenon
<1> QED BY <1>4, Zenon DEF Seen

\* handle_binding_request of ControllingSelector.
LEMMA RequestToControllingGood ==
    ASSUME TypeOK, NEW C, NEW r, NEW l, NEW m, NEW q \in net, Good(r, Controlling, C), Live(r),
           InRange(r, l, m), ~q.use
    PROVE  Good(RequestToControlling(r, Controlling, l, m, q), Controlling, C)
<1> DEFINE s == Success(r, Controlling, l, m, q)
           i == FindPair(s, l, m)
           t == [s EXCEPT !.nominated = i]
<1>0. Controlling \in Agents
  BY Zenon DEF Agents
<1>1. Good(s, Controlling, C) /\ Same(r, s) /\ Live(s)
  <2> HIDE DEF s
  <2> QED BY <1>0, SuccessGood, Zenon DEF s
<1>2. InRange(s, l, m)
  <2> HIDE DEF s
  <2> QED BY <1>1, Zenon DEF InRange, Same
<1> HIDE DEF s
<1>3. CASE i = 0
  <2>1. RequestToControlling(r, Controlling, l, m, q) = AddPair(s, l, m)
    BY <1>3, Zenon DEF RequestToControlling, s
  <2> QED BY <1>0, <1>1, <1>2, <2>1, AddPairGood, Zenon
<1>4. CASE i # 0 /\ NominatesNow(s, i)
  <2>1. RequestToControlling(r, Controlling, l, m, q) = Nominate(t, Controlling)
    BY <1>4, Zenon DEF RequestToControlling, s
  <2>2. i \in DOMAIN s.pairs /\ s.nominated = 0
    <3>1. s \in Records(Controlling)
      BY <1>1, Zenon DEF Good
    <3> QED BY <1>0, <1>4, <3>1, FindPairFinds, Zenon DEF NominatesNow
  <2> HIDE DEF i
  <2>3. Good(t, Controlling, C) /\ Live(t) /\ t.nominated # 0
    BY <1>1, <2>2, NominatedGood
  <2> HIDE DEF t
  <2> QED BY <2>1, <2>3, NominateGood, Zenon
<1>5. CASE i # 0 /\ ~NominatesNow(s, i)
  <2>1. RequestToControlling(r, Controlling, l, m, q) = s
    BY <1>5, Zenon DEF RequestToControlling, s
  <2> QED BY <1>1, <2>1, Zenon
<1> QED BY <1>3, <1>4, <1>5, Zenon

\* handle_binding_request of ControlledSelector.
LEMMA RequestToControlledGood ==
    ASSUME TypeOK, NEW C, NEW r, NEW l, NEW m, NEW q \in net, Good(r, Controlled, C), Live(r),
           InRange(r, l, m), q.type = "request", q.from = r.remotes[m].addr, q.to = r.locals[l],
           q.by = r.remote, q.for = gen[Controlled]
    PROVE  Good(RequestToControlled(r, Controlled, l, m, q), Controlled, C)
<1> DEFINE a == Controlled
           s == IF FindPair(r, l, m) = 0 THEN AddPair(r, l, m) ELSE r
           i == FindPair(s, l, m)
           u == RequestToControlled(r, a, l, m, q)
<1>0. a \in Agents /\ a # Controlling
  BY DEF Agents, Controlling, Controlled
<1>1. /\ Good(s, a, C) /\ Live(s) /\ s.locals = r.locals /\ s.remotes = r.remotes
      /\ s.remote = r.remote
  BY <1>0, AddPairGood
<1>2. q \in Messages /\ r.remote # 0
  BY DEF TypeOK, Messages
<1>3. u = IF i = 0 THEN s
          ELSE IF ~q.use THEN Request(Success(s, a, l, m, q), a, l, m, FALSE)
          ELSE IF AcceptsNomination(s, i)
               THEN Success(IF s.selected = 0 THEN SetSelected(s, i) ELSE s, a, l, m, q)
          ELSE Request(s, a, l, m, FALSE)
  BY Zenon DEF RequestToControlled
<1>4. i = 0 \/ /\ i \in DOMAIN s.pairs /\ s.pairs[i].local = l /\ s.pairs[i].remote = m
  <2> HIDE DEF s
  <2>1. s \in Records(a)
    BY <1>1, Zenon DEF Good
  <2> QED BY <1>0, <2>1, FindPairFinds
<1> HIDE DEF s, i, u
<1>5. InRange(s, l, m)
  BY <1>1, Zenon DEF InRange
<1>6. q.use => Nomination(<<s.remotes[m].addr, s.locals[l]>>, q.by, gen[a]) = q
  <2>1. q = [type |-> q.type, from |-> q.from, to |-> q.to, use |-> q.use, by |-> q.by, for |-> q.for]
    BY <1>2, Zenon DEF Messages
  <2>2. q.use => q.use = TRUE
    BY <1>2, Zenon DEF Messages
  <2> QED BY <1>1, <2>1, <2>2, Zenon DEF Nomination
<1>7. ASSUME NEW t, Good(t, a, C), Live(t), t.locals = r.locals, t.remotes = r.remotes
      PROVE  /\ Good(Success(t, a, l, m, q), a, C)
             /\ Same(t, Success(t, a, l, m, q)) /\ Live(Success(t, a, l, m, q))
  <2>1. InRange(t, l, m)
    BY <1>7, Zenon DEF InRange
  <2>2. q.use => Nomination(<<t.remotes[m].addr, t.locals[l]>>, q.by, gen[a]) \in net
    BY <1>1, <1>6, <1>7, Zenon
  <2> QED BY <1>0, <1>7, <2>1, <2>2, SuccessGood, Zenon
<1>8. ASSUME NEW t, Good(t, a, C), Live(t), t.locals = r.locals, t.remotes = r.remotes
      PROVE  Good(Request(t, a, l, m, FALSE), a, C)
  <2> DEFINE E == {<<l, m>>}
  <2>1. \A e \in E : InRange(t, e[1], e[2])
    BY <1>7, <1>8 DEF InRange
  <2>2. Request(t, a, l, m, FALSE) = Requests(t, a, E, FALSE)
    BY Zenon DEF Request
  <2> HIDE DEF E
  <2>3. Good(Requests(t, a, E, FALSE), a, C)
    BY <1>0, <1>8, <2>1, RequestsGood, Zenon
  <2> QED BY <2>2, <2>3, Zenon
<1>9. CASE i = 0
  BY <1>1, <1>3, <1>9, Zenon DEF u
<1>10. CASE i # 0 /\ ~q.use
  <2> DEFINE t == Success(s, a, l, m, q)
  <2>1. Good(t, a, C) /\ Live(t) /\ t.locals = r.locals /\ t.remotes = r.remotes
    BY <1>1, <1>7, Zenon DEF Same
  <2> HIDE DEF t
  <2>2. u = Request(t, a, l, m, FALSE)
    BY <1>3, <1>10, Zenon DEF t
  <2> QED BY <1>8, <2>1, <2>2, Zenon DEF u
<1>11. CASE i # 0 /\ q.use /\ AcceptsNomination(s, i)
  <2> DEFINE t == IF s.selected = 0 THEN SetSelected(s, i) ELSE s
  <2>1. Good(t, a, C) /\ Live(t) /\ t.locals = r.locals /\ t.remotes = r.remotes
    <3>1. CASE s.selected # 0
      BY <1>1, <3>1, Zenon
    <3>2. CASE s.selected = 0
      <4>1. t = SetSelected(s, i)
        BY <3>2, Zenon
      <4>2. s.pairs[i].state = "Succeeded"
        BY <1>11, Zenon DEF AcceptsNomination
      <4>3. Invitation(s, a, i) = Nomination(<<s.remotes[m].addr, s.locals[l]>>, q.by, gen[a])
        BY <1>0, <1>1, <1>4, <1>11, Zenon DEF Invitation, EndsOf
      <4>4. Invitation(s, a, i) \in net
        BY <1>6, <1>11, <4>3, Zenon
      <4> HIDE DEF t
      <4> QED BY <1>0, <1>1, <1>2, <1>4, <1>11, <4>1, <4>2, <4>4, SelectedGood
    <3> QED BY <3>1, <3>2, Zenon
  <2> HIDE DEF t
  <2>2. u = Success(t, a, l, m, q)
    BY <1>3, <1>11, Zenon DEF t
  <2> QED BY <1>7, <2>1, <2>2, Zenon DEF u
<1>12. CASE i # 0 /\ q.use /\ ~AcceptsNomination(s, i)
  <2>1. u = Request(s, a, l, m, FALSE)
    BY <1>3, <1>12, Zenon
  <2> QED BY <1>1, <1>8, <2>1, Zenon DEF u
<1> QED BY <1>9, <1>10, <1>11, <1>12, Zenon DEF u

\* What was checked only grows.
LEMMA GoodMore ==
    ASSUME NEW a \in Agents, NEW C, NEW D, NEW r, Good(r, a, C), C \subseteq D
    PROVE  Good(r, a, D)
BY Zenon DEF Good, Indexed

\* handle_success_response: pair i succeeds.
LEMMA SucceededGood ==
    ASSUME TypeOK, NEW a \in Agents, NEW C, NEW r, NEW s, NEW i, Good(r, a, C), Live(r),
           i \in DOMAIN r.pairs, EndsOf(r, i) \in C, s = [r EXCEPT !.pairs[i].state = "Succeeded"]
    PROVE  /\ Good(s, a, C) /\ Live(s) /\ s.locals = r.locals /\ s.remotes = r.remotes
           /\ s.remote = r.remote /\ s.selected = r.selected /\ i \in DOMAIN s.pairs
           /\ s.pairs[i].state = "Succeeded" /\ EndsOf(s, i) = EndsOf(r, i)
<1> DEFINE p == [r.pairs[i] EXCEPT !.state = "Succeeded"]
           pairs == [r.pairs EXCEPT ![i] = p]
<1>1. r \in Records(a) /\ ~r.panic
  BY Zenon DEF Good
<1>2. r.pairs \in Seq(Pairs) /\ Len(r.pairs) \in Nat /\ DOMAIN r.pairs = 1 .. Len(r.pairs)
  BY <1>1, Lists, Zenon
<1>3. /\ p \in Pairs /\ p.local = r.pairs[i].local /\ p.remote = r.pairs[i].remote
      /\ p.state = "Succeeded"
  <2>1. r.pairs[i] \in Pairs
    BY <1>2
  <2> QED BY <2>1, Zenon DEF Pairs
<1>4. s = [r EXCEPT !.pairs = pairs]
  <2>1. r = [x \in DOMAIN r |-> r[x]] /\ DOMAIN r = DOMAIN [r EXCEPT !.pairs = pairs]
    BY <1>1, Zenon DEF Records
  <2> QED BY <1>1, Zenon DEF Records
<1> HIDE DEF p
<1>5. /\ pairs \in Seq(Pairs) /\ Len(pairs) = Len(r.pairs) /\ DOMAIN pairs = DOMAIN r.pairs
      /\ pairs[i] = p /\ \A j \in DOMAIN r.pairs : j # i => pairs[j] = r.pairs[j]
  BY <1>2, <1>3
<1> HIDE DEF pairs
<1>6. s \in Records(a)
  BY <1>1, <1>4, <1>5, Zenon DEF Records
<1>7. /\ s.locals = r.locals /\ s.remotes = r.remotes /\ s.pairs = pairs
      /\ s.remote = r.remote /\ s.nominated = r.nominated /\ s.selected = r.selected
      /\ s.state = r.state /\ s.panic = r.panic /\ s.out = r.out
  BY <1>1, <1>4, Zenon DEF Records
<1>8. Live(s)
  BY <1>7, Zenon DEF Live
<1>9. \A j \in DOMAIN r.pairs :
        /\ s.pairs[j].local = r.pairs[j].local /\ s.pairs[j].remote = r.pairs[j].remote
        /\ EndsOf(s, j) = EndsOf(r, j)
  BY <1>3, <1>5, <1>7, Zenon DEF EndsOf
<1>10. Indexed(s, a, C)
  <2>1. ASSUME NEW j \in DOMAIN r.pairs
        PROVE  /\ InRange(s, s.pairs[j].local, s.pairs[j].remote)
               /\ s.pairs[j].state = "Succeeded" => EndsOf(s, j) \in C
    <3>1. InRange(r, r.pairs[j].local, r.pairs[j].remote)
      BY Zenon DEF Good, Indexed
    <3>2. InRange(s, s.pairs[j].local, s.pairs[j].remote)
      BY <1>7, <1>9, <3>1, Zenon DEF InRange
    <3>3. CASE j = i
      BY <1>9, <3>2, <3>3, Zenon
    <3>4. CASE j # i
      BY <1>5, <1>7, <1>9, <3>2, <3>4, Zenon DEF Good, Indexed
    <3> QED BY <3>3, <3>4, Zenon
  <2>2. r.selected # 0 => r.selected \in DOMAIN r.pairs
    BY <1>2 DEF Good, Indexed
  <2>3. s.selected # 0 => s.pairs[s.selected].state = "Succeeded"
    BY <1>3, <1>5, <1>7, <2>2, Zenon DEF Good, Indexed
  <2>4. /\ s.nominated \in 0 .. Len(s.pairs) /\ s.selected \in 0 .. Len(s.pairs)
        /\ a = Controlled => s.nominated = 0
    BY <1>5, <1>7, Zenon DEF Good, Indexed
  <2> QED BY <1>5, <1>7, <1>8, <2>1, <2>3, <2>4, Zenon DEF Indexed
<1>11. Invited(s, a)
  <2>1. r.selected # 0 => r.selected \in DOMAIN r.pairs
    BY <1>2 DEF Good, Indexed
  <2> QED BY <1>7, <1>9, <2>1, Zenon DEF Good, Invited, Invitation
<1>12. Steady(s, a)
  <2>1. r.nominated # 0 => r.nominated \in DOMAIN r.pairs
    BY <1>2 DEF Good, Indexed
  <2> QED BY <1>7, <1>8, <1>9, <2>1, Zenon DEF Good, Steady, OfNominated
<1>13. \A q \in s.out : Sendable(s, a, q)
  BY <1>7, Zenon DEF Good, Sendable
<1>14. Good(s, a, C)
  BY <1>1, <1>6, <1>7, <1>8, <1>10, <1>11, <1>12, <1>13, Zenon DEF Good
<1> QED BY <1>3, <1>5, <1>7, <1>8, <1>9, <1>14, Zenon

\* handle_success_response of the two selectors.  D is what was checked, this
\* response included.
LEMMA HandleSuccessGood ==
    ASSUME TypeOK, Carried, NEW a \in Agents, NEW C, NEW D, NEW r, NEW l, NEW m, NEW q \in net,
           Good(r, a, C), Live(r), InRange(r, l, m), q.type = "success",
           q.to = r.locals[l], q.from = r.remotes[m].addr, q.by = r.remote,
           C \subseteq D, q.for = gen[a] => <<q.to, q.from>> \in D
    PROVE  Good(HandleSuccess(r, a, l, m, q), a, D)
<1> DEFINE request == [from |-> q.to, dest |-> q.from, use |-> q.use]
           s == [r EXCEPT !.pending = @ \ {request}]
           i == FindPair(r, l, m)
           t == [s EXCEPT !.pairs[i].state = "Succeeded"]
           u == HandleSuccess(r, a, l, m, q)
<1>1. r \in Records(a)
  BY Zenon DEF Good
<1>2. Good(r, a, D)
  BY GoodMore, Zenon
<1>3. u = IF request \notin r.pending \/ q.for # gen[a] THEN r
          ELSE IF i = 0 THEN s
          ELSE IF Selects(r, a, q) THEN SetSelected(t, i) ELSE t
  BY Zenon DEF HandleSuccess
<1>4. s \in Records(a)
  <2>1. r.pending \ {request} \subseteq Pending(a)
    BY <1>1, Zenon DEF Records
  <2> HIDE DEF request
  <2> QED BY <1>1, <2>1, Zenon DEF Records
<1>5. Alike(r, s)
  BY <1>1, Zenon DEF Records, Alike
<1> HIDE DEF s
<1>6. Good(s, a, D) /\ Live(s)
  BY <1>2, <1>4, <1>5, Quiet, Zenon
<1>7. i = 0 \/ /\ i \in DOMAIN s.pairs /\ s.pairs[i].local = l /\ s.pairs[i].remote = m
  BY <1>1, <1>5, FindPairFinds DEF Alike
<1> HIDE DEF i, u
<1>8. CASE request \notin r.pending \/ q.for # gen[a]
  BY <1>2, <1>3, <1>8, Zenon DEF u
<1>9. CASE request \in r.pending /\ q.for = gen[a] /\ i = 0
  BY <1>3, <1>6, <1>9, Zenon DEF u
<1>10. CASE request \in r.pending /\ q.for = gen[a] /\ i # 0
  <2>1. EndsOf(s, i) = <<q.to, q.from>>
    BY <1>5, <1>7, <1>10, Zenon DEF EndsOf, Alike
  <2>2. EndsOf(s, i) \in D
    BY <1>10, <2>1, Zenon
  <2>3. /\ Good(t, a, D) /\ Live(t) /\ t.locals = s.locals /\ t.remotes = s.remotes
        /\ t.remote = s.remote /\ t.selected = s.selected /\ i \in DOMAIN t.pairs
        /\ t.pairs[i].state = "Succeeded" /\ EndsOf(t, i) = EndsOf(s, i)
    BY <1>6, <1>7, <1>10, <2>2, SucceededGood
  <2> HIDE DEF t
  <2>4. CASE Selects(r, a, q)
    <3>1. u = SetSelected(t, i)
      BY <1>3, <1>10, <2>4, Zenon
    <3>2. a = Controlling /\ q.use
      BY <2>4, Zenon DEF Selects
    <3>3. Nomination(<<q.to, q.from>>, q.for, q.by) \in net
      BY <3>2, Zenon DEF Carried
    <3>4. t.remote = q.by /\ q.by # 0
      <4>1. q.by \in 1 .. MaxGen
        BY Zenon DEF TypeOK, Messages
      <4>2. s.remote = r.remote
        BY <1>5, Zenon DEF Alike
      <4> QED BY <2>3, <4>1, <4>2
    <3>5. Invitation(t, a, i) \in net
      BY <1>10, <2>1, <2>3, <3>2, <3>3, <3>4, Zenon DEF Invitation
    <3> QED BY <2>3, <3>1, <3>4, <3>5, SelectedGood, Zenon DEF u
  <2>5. CASE ~Selects(r, a, q)
    BY <1>3, <1>10, <2>3, <2>5, Zenon DEF u
  <2> QED BY <2>4, <2>5, Zenon
<1> QED BY <1>8, <1>9, <1>10, Zenon DEF u

\* A message to an agent is from its peer, and a nomination is for the controlled
\* agent: the two have no address in common.
LEMMA FromPeer ==
    ASSUME TypeOK, Carried, NEW a \in Agents, NEW q \in net, q.to \in Range(Addresses[a])
    PROVE  q.from \in Range(Addresses[Peer(a)]) /\ (IsNomination(q) => a = Controlled)
<1>1. \A b \in Agents : b # a => Range(Addresses[a]) \cap Range(Addresses[b]) = {}
  <2>1. Range(Addresses[Controlling]) \cap Range(Addresses[Controlled]) = {}
    BY IceAssumption, Zenon DEF TypeOK, Addresses
  <2> QED BY <2>1 DEF Agents
<1>2. PICK b \in Agents : q.from \in Range(Addresses[b]) /\ q.to \in Range(Addresses[Peer(b)])
  BY Zenon DEF Carried
<1>3. Peer(b) \in Agents /\ Peer(Peer(b)) = b
  BY DEF Agents, Peer, Controlling, Controlled
<1>4. Peer(b) = a
  BY <1>1, <1>2, <1>3, Zenon
<1>5. IsNomination(q) => a = Controlled
  BY <1>1, Zenon DEF Carried, Agents
<1> QED BY <1>2, <1>3, <1>4, <1>5, Zenon

\* The read of the request q makes u of r: it is good, or it panicked with a timeout due.
Outcome(r, a, C, q, u) ==
    \/ Good(u, a, C)
    \/ Due(r) /\ FindRemote(r, q.from) = 0 /\ Gone(u, a) /\ u.state = "Failed"

\* handle_inbound of a request: a peer reflexive candidate is the last of the list
\* after the candidates were contacted.
LEMMA HandleRequestGood ==
    ASSUME TypeOK, Carried, NEW a \in Agents, NEW C, NEW r, NEW l, NEW q \in net,
           Good(r, a, C), Live(r), r.out = {},
           l \in 1 .. Len(r.locals), r.locals[l] = q.to, q.type = "request",
           q.by = r.remote, q.for = gen[a]
    PROVE  Outcome(r, a, C, q, HandleRequest(r, a, l, q))
<1> USE DEF Outcome
<1> DEFINE c == [addr |-> q.from, kind |-> "prflx"]
           w == WithRemote(r, a, c)
           s == IF FindRemote(r, q.from) = 0 THEN WithReflexive(r, a, q.from) ELSE r
           m == IF FindRemote(r, q.from) = 0 THEN Len(s.remotes) ELSE FindRemote(r, q.from)
           t == IF a = Controlling THEN RequestToControlling(s, a, l, m, q)
                                   ELSE RequestToControlled(s, a, l, m, q)
<1>1. r \in Records(a)
  BY Zenon DEF Good
<1>2. HandleRequest(r, a, l, q) = IF s.panic THEN s ELSE Seen(t, m)
  BY Zenon DEF HandleRequest
<1>3. \/ Due(r) /\ FindRemote(r, q.from) = 0 /\ Gone(s, a) /\ s.state = "Failed"
      \/ /\ Good(s, a, C) /\ Live(s) /\ s.locals = r.locals /\ s.remote = r.remote
         /\ m \in 1 .. Len(s.remotes) /\ s.remotes[m].addr = q.from
  <2>1. CASE FindRemote(r, q.from) # 0
    <3>1. s = r /\ m = FindRemote(r, q.from)
      BY <2>1, Zenon
    <3> HIDE DEF s, m
    <3> QED BY <1>1, <2>1, <3>1, FindRemoteFinds
  <2>2. CASE FindRemote(r, q.from) = 0
    <3>1. q.to \in Range(Addresses[a])
      <4>1. r.locals \in Seq(Range(Addresses[a]))
        BY <1>1, Lists, Zenon
      <4> QED BY <4>1
    <3>2. c \in Candidates(Peer(a))
      BY <3>1, FromPeer, Zenon DEF Candidates
    <3>3. c \notin Range(r.remotes)
      <4>1. \A j \in DOMAIN r.remotes : r.remotes[j].addr # q.from
        BY <1>1, <2>2, FindRemoteFinds, Zenon
      <4> QED BY <4>1 DEF Range
    <3> HIDE DEF c
    <3>4. /\ Good(w, a, C) /\ w.remote = r.remote
          /\ \/ /\ Live(w) /\ w.locals = r.locals
                /\ Len(w.remotes) = Len(r.remotes) + 1 /\ w.remotes[Len(w.remotes)] = c
             \/ Fails(r, w)
      <4>1. w = WithRemote(r, a, c)
        OBVIOUS
      <4> HIDE DEF w
      <4>2. Good(w, a, C) /\ w.remote = r.remote /\ (Joined(r, w, c) \/ Fails(r, w))
        BY <3>2, <4>1, WithRemoteGood
      <4> QED BY <3>3, <4>2, Zenon DEF Joined
    <3> HIDE DEF w
    <3>5. Len(r.remotes) \in Nat
      BY <1>1, Lists, Zenon
    <3>10. CASE Fails(r, w)
      <4>1. s = Panic(w)
        BY <2>2, <3>10, Zenon DEF WithReflexive, w, c, Fails
      <4>2. w \in Records(a) /\ w.selected = 0 /\ w.out = {}
        BY <3>4, <3>10, Zenon DEF Good, Indexed, Live, Fails
      <4> HIDE DEF s
      <4> QED BY <2>2, <3>10, <4>1, <4>2, PanicGone, Zenon DEF Fails
    <3> SUFFICES ASSUME ~Fails(r, w)
        PROVE  /\ Good(s, a, C) /\ Live(s) /\ s.locals = r.locals /\ s.remote = r.remote
               /\ m \in 1 .. Len(s.remotes) /\ s.remotes[m].addr = q.from
      BY <3>10, Zenon
    <3>6. w.remotes # <<>>
      BY <3>4, <3>5
    <3>7. s = w
      BY <2>2, <3>6, Zenon DEF WithReflexive, w, c
    <3>8. m = Len(w.remotes)
      BY <2>2, <3>7, Zenon
    <3>9. c.addr = q.from
      BY Zenon DEF c
    <3> HIDE DEF s, m
    <3> QED BY <3>4, <3>5, <3>6, <3>7, <3>8, <3>9
  <2> QED BY <2>1, <2>2, Zenon
<1> HIDE DEF s, m
<1>7. CASE Gone(s, a)
  <2>1. HandleRequest(r, a, l, q) = s /\ s.panic
    BY <1>2, <1>7, Zenon DEF Gone
  <2> QED BY <1>3, <2>1, Zenon DEF Good
<1> SUFFICES ASSUME ~Gone(s, a) PROVE Good(HandleRequest(r, a, l, q), a, C)
  BY <1>7, Zenon
<1>4. ~s.panic
  BY <1>3, Zenon DEF Good
<1>5. InRange(s, l, m)
  BY <1>3, Zenon DEF InRange
<1>6. Good(t, a, C)
  <2>1. CASE a = Controlling
    <3>1. q.to \in Range(Addresses[a])
      <4>1. r.locals \in Seq(Range(Addresses[a]))
        BY <1>1, Lists, Zenon
      <4> QED BY <4>1
    <3>2. ~q.use
      BY <2>1, <3>1, FromPeer DEF IsNomination, Controlling, Controlled
    <3>3. Good(s, Controlling, C)
      BY <1>3, <2>1, Zenon
    <3>4. Good(RequestToControlling(s, Controlling, l, m, q), Controlling, C)
      BY <1>3, <1>5, <3>2, <3>3, RequestToControllingGood, Zenon
    <3> QED BY <2>1, <3>4, Zenon
  <2>2. CASE a # Controlling
    <3>1. a = Controlled
      BY <2>2, Zenon DEF Agents
    <3>2. Good(s, Controlled, C) /\ q.for = gen[Controlled]
      BY <1>3, <3>1, Zenon
    <3>3. Good(RequestToControlled(s, Controlled, l, m, q), Controlled, C)
      BY <1>3, <1>5, <3>2, RequestToControlledGood, Zenon
    <3> QED BY <2>2, <3>1, <3>3, Zenon
  <2> QED BY <2>1, <2>2, Zenon
<1> HIDE DEF t
<1> QED BY <1>2, <1>4, <1>6, SeenGood, Zenon

-----------------------------------------------------------------------------
(***************************************************************************)
(* The steps.                                                              *)
(***************************************************************************)

LEMMA Peers ==
    \A a \in Agents : /\ Peer(a) \in Agents /\ Peer(Peer(a)) = a /\ Peer(a) # a
                      /\ \A b \in Agents : b = a \/ b = Peer(a)
BY DEF Agents, Peer, Controlling, Controlled

\* The setting fixes the types.
LEMMA Fixed ==
    ASSUME UNCHANGED setting
    PROVE  /\ Addresses' = Addresses /\ MaxGen' = MaxGen /\ AllAddresses' = AllAddresses
           /\ Messages' = Messages /\ Pairs' = Pairs
           /\ \A a \in Agents : /\ Candidates(a)' = Candidates(a) /\ Pending(a)' = Pending(a)
                                /\ Records(a)' = Records(a)
<1>1. Addresses' = Addresses /\ MaxGen' = MaxGen
  BY Zenon DEF Addresses, MaxGen
<1>2. AllAddresses' = AllAddresses
  BY <1>1, Zenon DEF AllAddresses
<1>3. Messages' = Messages
  BY <1>1, <1>2, Zenon DEF Messages
<1>4. Pairs' = Pairs
  BY Zenon DEF Pairs
<1>5. ASSUME NEW a \in Agents
      PROVE  /\ Candidates(a)' = Candidates(a) /\ Candidates(Peer(a))' = Candidates(Peer(a))
             /\ Pending(a)' = Pending(a)
  BY <1>1, Zenon DEF Candidates, Pending
<1>6. ASSUME NEW a \in Agents PROVE Records(a)' = Records(a)
  BY <1>1, <1>3, <1>4, <1>5, Zenon DEF Records
<1> QED BY <1>1, <1>2, <1>3, <1>4, <1>5, <1>6, Zenon

\* A step that leaves agent a as r, in the same generation.
LEMMA StepGood ==
    ASSUME IInv, NEW a \in Agents, NEW r, Becomes(a, r), UNCHANGED <<gen, setting>>,
           checked' \in [Agents -> SUBSET (AllAddresses \X AllAddresses)],
           checked'[Peer(a)] = checked[Peer(a)], Good(r, a, checked'[a])
    PROVE  IInv' /\ PanicsOnly
<1> DEFINE s == [r EXCEPT !.out = {}]
<1>1. /\ TypeOK /\ Carried
      /\ \A b \in Agents : Good(agent[b], b, checked[b]) \/ Gone(agent[b], b)
  BY Zenon DEF IInv
<1>2. /\ Addresses' = Addresses /\ MaxGen' = MaxGen /\ AllAddresses' = AllAddresses
      /\ Messages' = Messages /\ \A b \in Agents : Records(b)' = Records(b)
  BY Fixed, Zenon
<1>3. r \in Records(a) /\ r.out \subseteq Messages
  <2>1. r \in Records(a)
    BY Zenon DEF Good
  <2> QED BY <2>1, Zenon DEF Records
<1>4. s \in Records(a) /\ s.out = {} /\ Live(s) = Live(r) /\ Same(r, s) /\ s.panic = r.panic
      /\ s.pairs = r.pairs
  BY <1>3, Zenon DEF Records, Same, Live
<1>5. /\ agent'[a] = s /\ agent'[Peer(a)] = agent[Peer(a)] /\ DOMAIN agent' = Agents
      /\ net' = net \cup r.out
  <2>1. agent' = [agent EXCEPT ![a] = s] /\ net' = net \cup r.out
    BY Zenon DEF Becomes
  <2>2. DOMAIN agent = Agents
    BY <1>1, Zenon DEF TypeOK
  <2> HIDE DEF s
  <2> QED BY <2>1, <2>2, Peers, Zenon
<1> HIDE DEF s
<1>6. TypeOK'
  <2>1. net' \subseteq Messages'
    BY <1>1, <1>2, <1>3, <1>5, Zenon DEF TypeOK
  <2>2. \A b \in Agents : agent'[b] \in Records(b) /\ agent'[b].out = {}
    BY <1>1, <1>4, <1>5, Peers DEF TypeOK
  <2>3. gen' \in [Agents -> 1 .. MaxGen]
    BY <1>1, Zenon DEF TypeOK
  <2> QED BY <1>1, <1>2, <1>5, <2>1, <2>2, <2>3, Zenon DEF TypeOK
<1>7. Carried'
  <2>1. \A q \in r.out : Sendable(r, a, q)
    BY Zenon DEF Good
  <2>2. \A q \in r.out : q.from \in Range(Addresses[a]) /\ q.to \in Range(Addresses[Peer(a)])
    BY <2>1, Zenon DEF Sendable
  <2>3. \A q \in r.out : IsNomination(q) => a = Controlling /\ q.by = gen[Controlling]
    <3> TAKE q \in r.out
    <3> HAVE IsNomination(q)
    <3>1. Sendable(r, a, q)
      BY <2>1, Zenon
    <3>2. a = Controlling
      BY <3>1, Zenon DEF Sendable, IsNomination
    <3> QED BY <3>1, <3>2, Zenon DEF Sendable
  <2>4. gen[Controlling] \in Nat /\ Peer(Controlling) = Controlled
    BY <1>1 DEF TypeOK, Agents, Peer, Controlling, Controlled
  <2>5. \A q \in net' : \E b \in Agents :
           q.from \in Range(Addresses[b]) /\ q.to \in Range(Addresses[Peer(b)])
    BY <1>1, <1>5, <2>2, Zenon DEF Carried
  <2>6. \A q \in net' : IsNomination(q) =>
           /\ q.from \in Range(Addresses[Controlling]) /\ q.to \in Range(Addresses[Controlled])
           /\ q.by <= gen[Controlling]
    BY <1>1, <1>5, <2>2, <2>3, <2>4 DEF Carried
  <2>7. ASSUME NEW q1 \in net', NEW q2 \in net', IsNomination(q1), IsNomination(q2),
               q1.by = q2.by, q1.for = q2.for
        PROVE  q1.to = q2.to /\ q1.from = q2.from
    <3>1. CASE q1 \in net /\ q2 \in net
      BY <1>1, <2>7, <3>1, Zenon DEF Carried
    <3>2. CASE q1 \in r.out \/ q2 \in r.out
      <4>1. a = Controlling /\ q1.by = gen[a] /\ q2.by = gen[a]
        BY <2>3, <2>7, <3>2, Zenon
      <4>2. Live(r)
        BY <3>2, Zenon DEF Good
      <4>3. OfNominated(r, q1) /\ OfNominated(r, q2)
        BY <1>5, <2>7, <4>1, Zenon DEF Good, Steady
      <4>4. <<q1.from, q1.to>> = <<q2.from, q2.to>>
        BY <4>2, <4>3, Zenon DEF OfNominated
      <4> QED BY <4>4, Zenon
    <3> QED BY <1>5, <3>1, <3>2, Zenon
  <2>8. ASSUME NEW q \in net', q.type = "success", q.use
        PROVE  Nomination(<<q.to, q.from>>, q.for, q.by) \in net'
    <3>1. CASE q \in net
      BY <1>1, <1>5, <2>8, <3>1, Zenon DEF Carried
    <3>2. CASE q \in r.out
      BY <1>5, <2>1, <2>8, <3>2, Zenon DEF Sendable
    <3> QED BY <1>5, <3>1, <3>2, Zenon
  <2> QED BY <1>2, <2>5, <2>6, <2>7, <2>8, Zenon DEF Carried
<1>8. Good(agent[a], a, checked[a])'
  <2>1. Indexed(s, a, checked'[a])
    <3>1. Indexed(r, a, checked'[a])
      BY Zenon DEF Good
    <3> QED BY <1>4, <3>1, Zenon DEF Indexed, Same, EndsOf, InRange
  <2>2. Invited(agent[a], a)'
    <3>1. Invited(r, a)
      BY Zenon DEF Good
    <3> QED BY <1>4, <1>5, <3>1, Zenon DEF Invited, Invitation, Same, EndsOf
  <2>3. Steady(agent[a], a)'
    <3>1. Steady(r, a)
      BY Zenon DEF Good
    <3> QED BY <1>4, <1>5, <3>1, Zenon DEF Steady, OfNominated, Same, EndsOf
  <2>4. s \in Records(a)' /\ ~s.panic
    BY <1>2, <1>4, Zenon DEF Good
  <2>5. \A q \in s.out : (Sendable(agent[a], a, q))'
    BY <1>4, Zenon
  <2> QED BY <1>4, <1>5, <2>1, <2>2, <2>3, <2>4, <2>5, Zenon DEF Good
<1>9. ASSUME NEW b \in Agents, b = Peer(a), Good(agent[b], b, checked[b])
      PROVE  Good(agent[b], b, checked[b])'
  <2>1. /\ agent'[b] = agent[b] /\ checked'[b] = checked[b] /\ agent[b].out = {}
        /\ Good(agent[b], b, checked[b])
    BY <1>1, <1>5, <1>9, Zenon DEF TypeOK
  <2>2. Indexed(agent[b], b, checked[b])'
    BY <2>1, Zenon DEF Good, Indexed, Live, EndsOf, InRange
  <2>3. Invited(agent[b], b)'
    BY <1>5, <2>1, Zenon DEF Good, Invited, Invitation, EndsOf
  <2>4. Steady(agent[b], b)'
    <3>1. Steady(agent[b], b)
      BY <2>1, Zenon DEF Good
    <3>2. b = Controlling => \A q \in r.out : ~IsNomination(q)
      <4>1. \A q \in r.out : Sendable(r, a, q)
        BY Zenon DEF Good
      <4> QED BY <1>9, <4>1, Peers, Zenon DEF Sendable, IsNomination
    <3> QED BY <1>5, <2>1, <3>1, <3>2, Zenon DEF Steady, OfNominated, EndsOf, Live
  <2>5. agent'[b] \in Records(b)' /\ ~agent'[b].panic /\ agent'[b].out = {}
    BY <1>2, <2>1, Zenon DEF Good
  <2> QED BY <2>2, <2>3, <2>4, <2>5, Zenon DEF Good
<1>10. ASSUME NEW b \in Agents, b = Peer(a), Gone(agent[b], b) PROVE Gone(agent[b], b)'
  BY <1>2, <1>5, <1>10, Zenon DEF Gone
<1>11. \A b \in Agents : (Good(agent[b], b, checked[b]) \/ Gone(agent[b], b))'
  BY <1>1, <1>8, <1>9, <1>10, Peers, Zenon
<1>12. \A b \in Agents : Running(b) => Running(b)'
  <2>1. ~agent'[a].panic
    BY <1>4, <1>5, Zenon DEF Good
  <2> QED BY <1>5, <2>1, Peers, Zenon DEF Running
<1> QED BY <1>6, <1>7, <1>11, <1>12, Zenon DEF IInv, PanicsOnly

\* A step in which agent a panics.
LEMMA StepGone ==
    ASSUME IInv, NEW a \in Agents, NEW r, Becomes(a, r), UNCHANGED <<gen, setting>>,
           checked' \in [Agents -> SUBSET (AllAddresses \X AllAddresses)],
           checked'[Peer(a)] = checked[Peer(a)], Gone(r, a),
           agent'[a].state = r.state => Overtaken(a) \/ Outlived(a)
    PROVE  IInv' /\ PanicsOnly
<1>1. /\ TypeOK /\ Carried
      /\ \A b \in Agents : Good(agent[b], b, checked[b]) \/ Gone(agent[b], b)
  BY Zenon DEF IInv
<1>2. /\ Addresses' = Addresses /\ MaxGen' = MaxGen /\ AllAddresses' = AllAddresses
      /\ Messages' = Messages /\ \A b \in Agents : Records(b)' = Records(b)
  BY Fixed, Zenon
<1>3. r \in Records(a) /\ r.out = {}
  BY Zenon DEF Gone
<1>4. [r EXCEPT !.out = {}] = r
  BY <1>3, Zenon DEF Records
<1>5. /\ agent'[a] = r /\ agent'[Peer(a)] = agent[Peer(a)] /\ DOMAIN agent' = Agents
      /\ net' = net
  <2>1. agent' = [agent EXCEPT ![a] = r] /\ net' = net
    BY <1>3, <1>4, Zenon DEF Becomes
  <2>2. DOMAIN agent = Agents
    BY <1>1, Zenon DEF TypeOK
  <2> QED BY <2>1, <2>2, Peers, Zenon
<1>6. TypeOK'
  <2>1. \A b \in Agents : agent'[b] \in Records(b) /\ agent'[b].out = {}
    BY <1>1, <1>3, <1>5, Peers DEF TypeOK
  <2>2. gen' \in [Agents -> 1 .. MaxGen]
    BY <1>1, Zenon DEF TypeOK
  <2> QED BY <1>1, <1>2, <1>5, <2>1, <2>2, Zenon DEF TypeOK
<1>7. Carried'
  BY <1>1, <1>2, <1>5, Zenon DEF Carried
<1>8. Gone(agent[a], a)'
  BY <1>2, <1>5, Zenon DEF Gone
<1>9. ASSUME NEW b \in Agents, b = Peer(a), Good(agent[b], b, checked[b])
      PROVE  Good(agent[b], b, checked[b])'
  <2>1. agent'[b] = agent[b] /\ checked'[b] = checked[b] /\ UNCHANGED <<gen, net>>
    BY <1>5, <1>9, Zenon
  <2>2. Indexed(agent[b], b, checked[b])'
    BY <1>9, <2>1, Zenon DEF Good, Indexed, Live, EndsOf, InRange
  <2>3. Invited(agent[b], b)' /\ Steady(agent[b], b)'
    <3>1. Invited(agent[b], b) /\ Steady(agent[b], b)
      BY <1>9, Zenon DEF Good
    <3>2. Invited(agent[b], b)'
      BY <2>1, <3>1, Zenon DEF Invited, Invitation, EndsOf
    <3>3. Steady(agent[b], b)'
      BY <2>1, <3>1, Zenon DEF Steady, OfNominated, EndsOf, Live
    <3> QED BY <3>2, <3>3, Zenon
  <2>4. \A q \in agent'[b].out : Sendable(agent[b], b, q)'
    BY <1>2, <1>9, <2>1, Zenon DEF Good, Sendable
  <2> QED BY <1>2, <1>9, <2>1, <2>2, <2>3, <2>4, Zenon DEF Good, Live
<1>10. ASSUME NEW b \in Agents, b = Peer(a), Gone(agent[b], b) PROVE Gone(agent[b], b)'
  BY <1>2, <1>5, <1>10, Zenon DEF Gone
<1>11. \A b \in Agents : (Good(agent[b], b, checked[b]) \/ Gone(agent[b], b))'
  BY <1>1, <1>8, <1>9, <1>10, Peers, Zenon
<1>12. PanicsOnly
  <2>1. Overtaken(a) \/ Outlived(a)
    BY <1>5, Zenon
  <2> QED BY <1>5, <2>1, Peers, Zenon DEF PanicsOnly, Running
<1> QED BY <1>6, <1>7, <1>11, <1>12, Zenon DEF IInv

\* add_local_candidate, add_remote_candidate and handle_timeout.
LEMMA AgentStep ==
    ASSUME IInv, NEW a \in Agents, AddLocal(a) \/ AddRemote(a) \/ Timeout(a)
    PROVE  IInv' /\ PanicsOnly
<1> DEFINE r == agent[a]
<1>1. TypeOK /\ Carried /\ Good(r, a, checked[a]) /\ r.out = {}
  <2>1. ~r.panic
    BY Zenon DEF AddLocal, AddRemote, Timeout, Gathers, Usable, Running
  <2> QED BY <2>1, Zenon DEF IInv, TypeOK, Gone
<1>2. /\ UNCHANGED <<gen, checked, setting>> /\ checked'[a] = checked[a]
      /\ checked'[Peer(a)] = checked[Peer(a)]
      /\ checked' \in [Agents -> SUBSET (AllAddresses \X AllAddresses)]
  BY <1>1, Zenon DEF AddLocal, AddRemote, Timeout, TypeOK
<1>3. r \in Records(a)
  BY <1>1, Zenon DEF Good
<1> HIDE DEF r
<1>4. SUFFICES \E u : /\ Becomes(a, u)
                      /\ Good(u, a, checked[a]) \/ (Gone(u, a) /\ Outlived(a))
  BY <1>2, StepGood, StepGone, Zenon
<1>5. CASE AddLocal(a)
  <2> DEFINE n == Len(r.locals) + 1
             x == Addresses[a][n]
             u == WithLocal(r, a, x)
  <2>1. Gathers(a) /\ n <= Len(Addresses[a]) /\ Becomes(a, u)
    BY <1>5, Zenon DEF AddLocal, r
  <2>2. Live(r)
    BY <2>1, Zenon DEF Gathers, Usable, Live, r
  <2>3. x \in Range(Addresses[a])
    <3>1. Addresses[a] \in Seq(Range(Addresses[a]))
      BY <1>1, IceAssumption, Zenon DEF TypeOK, Addresses
    <3>2. n \in 1 .. Len(Addresses[a])
      BY <1>3, <2>1, <3>1, Lists
    <3> QED BY <3>1, <3>2
  <2>4. u = WithLocal(r, a, x)
    OBVIOUS
  <2> HIDE DEF x, u
  <2>5. Good(u, a, checked[a])
    BY <1>1, <2>2, <2>3, <2>4, WithLocalGood, Zenon
  <2> QED BY <2>1, <2>5, Zenon
<1>6. CASE AddRemote(a)
  <2> DEFINE n == First(Unsignalled(a))
             c == [addr |-> Addresses[Peer(a)][n], kind |-> "host"]
             u == WithRemote(r, a, c)
  <2>1. Usable(a) /\ Unsignalled(a) # {} /\ Becomes(a, u)
    BY <1>6, Zenon DEF AddRemote, Host, r
  <2>2. Live(r) \/ r.state = "Failed"
    BY <2>1, Zenon DEF Usable, Live, r
  <2>3. c \in Candidates(Peer(a))
    <3>1. Addresses[Peer(a)] \in Seq(Range(Addresses[Peer(a)]))
      BY <1>1, IceAssumption, Peers, Zenon DEF TypeOK, Addresses
    <3>2. Unsignalled(a) \subseteq DOMAIN Addresses[Peer(a)] /\ DOMAIN Addresses[Peer(a)] \subseteq Nat
      BY <3>1 DEF Unsignalled
    <3>3. n \in DOMAIN Addresses[Peer(a)]
      BY <2>1, <3>2, FirstFinds, Zenon
    <3>4. Addresses[Peer(a)][n] \in Range(Addresses[Peer(a)])
      BY <3>1, <3>3
    <3> QED BY <3>4, Zenon DEF Candidates
  <2>4. u = WithRemote(r, a, c)
    OBVIOUS
  <2> HIDE DEF c, u
  <2>5. Good(u, a, checked[a])
    BY <1>1, <2>2, <2>3, <2>4, WithRemoteGood, FailedRemoteGood, Zenon
  <2> QED BY <2>1, <2>5, Zenon
<1>7. CASE Timeout(a)
  <2>1. r.remote # 0 /\ Becomes(a, Contact(r, a))
    BY <1>7, Zenon DEF Timeout, r
  <2>2. \/ Good(Contact(r, a), a, checked[a])
        \/ Gone(Contact(r, a), a) /\ r.state = "Closed" /\ r.pairs # <<>>
    <3>1. CASE r.state # "Closed"
      BY <1>1, <3>1, ContactGood, Zenon
    <3>2. CASE r.state = "Closed"
      BY <1>1, <2>1, <3>2, ClosedContact, Zenon
    <3> QED BY <3>1, <3>2, Zenon
  <2>3. r.state = "Closed" /\ r.pairs # <<>> => Outlived(a)
    BY <2>1, Zenon DEF Outlived, r
  <2> QED BY <2>1, <2>2, <2>3, Zenon
<1> QED BY <1>5, <1>6, <1>7, Zenon

\* handle_read.
LEMMA ReadStep ==
    ASSUME IInv, NEW a \in Agents, NEW q \in net, Read(a, q)
    PROVE  IInv' /\ PanicsOnly
<1> DEFINE r == agent[a]
           l == LocalOf(a, q)
           m == RemoteOf(a, q)
           new == {<<x.to, x.from>> : x \in {x \in {q} : x.type = "success" /\ x.for = gen[a]}}
           D == checked[a] \cup new
           u == AfterRead(a, q)
<1>1. TypeOK /\ Carried /\ Good(r, a, checked[a]) /\ r.out = {}
  <2>1. ~r.panic
    BY Zenon DEF Read, Readable, Running
  <2> QED BY <2>1, Zenon DEF IInv, TypeOK, Gone
<1>2. r \in Records(a)
  BY <1>1, Zenon DEF Good
<1>3. /\ Readable(a, q) /\ Becomes(a, u) /\ checked' = [checked EXCEPT ![a] = D]
      /\ UNCHANGED <<gen, setting>>
  BY Zenon DEF Read
<1>4. q \in Messages
  BY <1>1, Zenon DEF TypeOK
<1>5. new \subseteq AllAddresses \X AllAddresses
  BY <1>4 DEF Messages
<1> HIDE DEF new
<1>6. checked \in [Agents -> SUBSET (AllAddresses \X AllAddresses)]
  BY <1>1, Zenon DEF TypeOK
<1>7. /\ checked' \in [Agents -> SUBSET (AllAddresses \X AllAddresses)]
      /\ checked'[a] = D /\ checked'[Peer(a)] = checked[Peer(a)]
  BY <1>3, <1>5, <1>6, Peers, Zenon
<1>8. l \in 1 .. Len(r.locals) /\ r.locals[l] = q.to
  BY <1>2, <1>3, LocalFound, Zenon DEF Readable
<1>9. Live(r)
  <2>1. r.locals # <<>>
    BY <1>8
  <2> QED BY <1>1, <2>1, Zenon DEF Good, Indexed
<1>10. q.by = r.remote
  BY <1>3, Zenon DEF Readable
<1>11. \/ Good(u, a, D)
       \/ /\ Gone(u, a) /\ u.state = "Failed" /\ Due(r) /\ q.type = "request"
          /\ RemoteOf(a, q) = 0
  <2>1. CASE q.type = "request"
    <3>1. q.for = gen[a] /\ u = HandleRequest(r, a, l, q)
      BY <1>3, <2>1, Zenon DEF Readable, AfterRead
    <3>0. RemoteOf(a, q) = FindRemote(r, q.from)
      BY Zenon DEF RemoteOf
    <3> HIDE DEF r, l, u, D
    <3>2. \/ Good(u, a, checked[a])
          \/ Due(r) /\ FindRemote(r, q.from) = 0 /\ Gone(u, a) /\ u.state = "Failed"
      <4>1. Outcome(r, a, checked[a], q, HandleRequest(r, a, l, q))
        BY <1>1, <1>8, <1>9, <1>10, <2>1, <3>1, HandleRequestGood, Zenon
      <4> QED BY <3>1, <4>1, Zenon DEF Outcome
    <3>3. checked[a] \subseteq D
      BY Zenon DEF D
    <3> QED BY <2>1, <3>0, <3>2, <3>3, GoodMore, Zenon
  <2>2. CASE q.type # "request"
    <3>1. q.type = "success" /\ m # 0 /\ m = FindRemote(r, q.from)
      BY <1>3, <2>2, Zenon DEF Readable, RemoteOf
    <3>2. m \in 1 .. Len(r.remotes) /\ r.remotes[m].addr = q.from
      <4> HIDE DEF r, m
      <4> QED BY <1>2, <3>1, FindRemoteFinds
    <3>3. InRange(r, l, m)
      BY <1>8, <3>2, Zenon DEF InRange
    <3>4. q.for = gen[a] => <<q.to, q.from>> \in D
      BY <3>1, Zenon DEF new
    <3>5. checked[a] \subseteq D
      OBVIOUS
    <3>6. u = Seen(HandleSuccess(r, a, l, m, q), m)
      BY <3>1, Zenon DEF AfterRead
    <3> HIDE DEF r, l, m, u, D
    <3>7. Good(HandleSuccess(r, a, l, m, q), a, D)
      BY <1>1, <1>8, <1>9, <1>10, <3>1, <3>2, <3>3, <3>4, <3>5, HandleSuccessGood, Zenon
    <3> QED BY <3>6, <3>7, SeenGood, Zenon
  <2> QED BY <2>1, <2>2, Zenon
<1>12. Good(u, a, D) => Good(u, a, checked'[a])
  BY <1>7, Zenon
<1> HIDE DEF u, D
<1>13. CASE Good(u, a, D)
  BY <1>3, <1>7, <1>12, <1>13, StepGood, Zenon
<1>14. CASE Gone(u, a) /\ u.state = "Failed" /\ Due(r) /\ q.type = "request" /\ RemoteOf(a, q) = 0
  <2>1. agent'[a].state = u.state => Overtaken(a)
    BY <1>3, <1>14, Zenon DEF Overtaken
  <2> QED BY <1>3, <1>7, <1>14, <2>1, StepGone, Zenon
<1> QED BY <1>11, <1>13, <1>14, Zenon

\* Start of checks with the peer's credentials: nothing was nominated yet.
LEMMA CredentialsStep ==
    ASSUME IInv, NEW a \in Agents, SetRemoteCredentials(a)
    PROVE  IInv' /\ PanicsOnly
<1> DEFINE r == agent[a]
           s == [r EXCEPT !.remote = gen[Peer(a)]]
           t == Start(s, a)
           v == UpdateState(t, "Checking")
           u == IF s.state = "New" THEN RequestCheck(v, a) ELSE s
           C == checked[a]
<1>1. TypeOK /\ Carried /\ Good(r, a, C) /\ r.out = {}
  <2>1. ~r.panic
    BY Zenon DEF SetRemoteCredentials, Usable, Running
  <2> QED BY <2>1, Zenon DEF IInv, TypeOK, Gone
<1>2. r \in Records(a) /\ gen[Peer(a)] \in 1 .. MaxGen
  BY <1>1, Peers, Zenon DEF Good, TypeOK
<1>3. /\ r.remote = 0 /\ r.state # "Closed" /\ Becomes(a, u)
      /\ UNCHANGED <<gen, checked, setting>>
  BY Zenon DEF SetRemoteCredentials, Usable
<1>4. r.selected = 0
  BY <1>1, <1>3, Zenon DEF Good, Invited
<1>5. a = Controlling => \A q \in net : ~(IsNomination(q) /\ q.by = gen[a])
  BY <1>1, <1>3, Zenon DEF Good, Steady, OfNominated
<1>6. s \in Records(a)
  <2>1. gen[Peer(a)] \in 0 .. MaxGen
    BY <1>2
  <2> HIDE DEF r
  <2> QED BY <1>2, <2>1, Zenon DEF Records
<1>7. /\ s.locals = r.locals /\ s.remotes = r.remotes /\ s.pairs = r.pairs
      /\ s.nominated = r.nominated /\ s.selected = 0
      /\ s.state = r.state /\ s.panic = r.panic /\ s.out = {} /\ (Live(s) <=> Live(r))
  BY <1>1, <1>2, <1>4, Zenon DEF Records, Live
<1> HIDE DEF r, s
<1>8. ASSUME NEW w \in Records(a), w.locals = r.locals, w.remotes = r.remotes, w.pairs = r.pairs,
             w.nominated = r.nominated \/ w.nominated = 0, w.selected = 0, ~w.panic, w.out = {},
             Live(w) <=> Live(r)
      PROVE  Good(w, a, C)
  <2>1. Indexed(w, a, C)
    <3>1. Indexed(r, a, C)
      BY <1>1, Zenon DEF Good
    <3>2. Len(r.pairs) \in Nat
      BY <1>2, Lists, Zenon DEF r
    <3> QED BY <1>8, <3>1, <3>2 DEF Indexed, InRange, EndsOf
  <2>2. Invited(w, a) /\ Steady(w, a)
    BY <1>5, <1>8, Zenon DEF Invited, Steady
  <2> QED BY <1>8, <2>1, <2>2, Zenon DEF Good
<1>9. Good(s, a, C)
  BY <1>1, <1>6, <1>7, <1>8, Zenon DEF Good
<1>10. Good(u, a, C)
  <2>1. CASE s.state # "New"
    BY <1>9, <2>1, Zenon
  <2>2. CASE s.state = "New"
    <3>1. Live(s) /\ Live(r) /\ r.state = "New"
      BY <1>7, <2>2, Zenon DEF Live
    <3>2. t \in Records(a)
      BY <1>6, Zenon DEF Start, Records
    <3>3. /\ t.locals = s.locals /\ t.remotes = s.remotes /\ t.pairs = s.pairs
          /\ t.nominated = s.nominated \/ t.nominated = 0
          /\ t.selected = s.selected /\ t.state = s.state /\ t.panic = s.panic /\ t.out = s.out
      BY <1>6, Zenon DEF Start, Records
    <3> HIDE DEF t
    <3>4. Live(t) /\ ~t.panic /\ t.out = {}
      BY <1>1, <1>7, <3>1, <3>3, Zenon DEF Live, Good
    <3>5. Good(t, a, C)
      BY <1>7, <1>8, <3>1, <3>2, <3>3, <3>4, Zenon
    <3>6. v = [t EXCEPT !.state = "Checking"]
      BY Zenon DEF UpdateState
    <3>7. v.out = {}
      BY <3>2, <3>4, <3>6, Zenon DEF Records
    <3>8. v = UpdateState(t, "Checking")
      OBVIOUS
    <3> HIDE DEF v
    <3>9. Good(v, a, C) /\ Live(v)
      BY <1>1, <3>4, <3>5, <3>8, StateGood, Zenon
    <3>10. Good(RequestCheck(v, a), a, C)
      BY <1>1, <3>7, <3>9, RequestCheckGood, Zenon
    <3> QED BY <2>2, <3>10, Zenon
  <2> QED BY <2>1, <2>2, Zenon
<1> HIDE DEF u
<1>11. /\ checked' \in [Agents -> SUBSET (AllAddresses \X AllAddresses)]
       /\ checked'[Peer(a)] = checked[Peer(a)] /\ checked'[a] = C
  BY <1>1, <1>3, Zenon DEF TypeOK
<1> QED BY <1>3, <1>10, <1>11, StepGood, Zenon

\* close.
LEMMA CloseStep ==
    ASSUME IInv, NEW a \in Agents, Close(a)
    PROVE  IInv' /\ PanicsOnly
<1> DEFINE r == agent[a]
           x == [r EXCEPT !.selected = 0]
           y == [x EXCEPT !.locals = <<>>, !.remotes = <<>>]
           u == [y EXCEPT !.state = "Closed"]
           C == checked[a]
<1>1. TypeOK /\ Carried /\ Good(r, a, C) /\ r.out = {}
  <2>1. ~r.panic
    BY Zenon DEF Close, Usable, Running
  <2> QED BY <2>1, Zenon DEF IInv, TypeOK, Gone
<1>2. r \in Records(a) /\ ~r.panic
  BY <1>1, Zenon DEF Good
<1>3. Becomes(a, u) /\ UNCHANGED <<gen, checked, setting>>
  BY Zenon DEF Close, UpdateState, DeleteCandidates
<1> HIDE DEF r
<1>4. x \in Records(a) /\ x.pairs = r.pairs /\ x.nominated = r.nominated /\ x.remote = r.remote
      /\ x.selected = 0 /\ x.out = r.out /\ x.panic = r.panic
  BY <1>2, Zenon DEF Records
<1> HIDE DEF x
<1>5. <<>> \in Seq(Range(Addresses[a])) /\ <<>> \in Seq(Candidates(Peer(a)))
  OBVIOUS
<1>6. y \in Records(a) /\ y.pairs = r.pairs /\ y.nominated = r.nominated /\ y.remote = r.remote
      /\ y.selected = 0 /\ y.out = r.out /\ y.panic = r.panic /\ y.locals = <<>> /\ y.remotes = <<>>
  BY <1>4, <1>5, Zenon DEF Records
<1> HIDE DEF y
<1>7. u \in Records(a)
  BY <1>6, Zenon DEF Records, States
<1>8. /\ u.pairs = r.pairs /\ u.nominated = r.nominated /\ u.remote = r.remote
      /\ u.selected = 0 /\ u.out = {} /\ ~u.panic /\ u.locals = <<>> /\ u.remotes = <<>>
      /\ u.state = "Closed"
  BY <1>1, <1>2, <1>6, Zenon DEF Records
<1> HIDE DEF u
<1>9. ~Live(u)
  BY <1>8, Zenon DEF Live
<1>10. Indexed(u, a, C)
  <2>1. r.nominated \in 0 .. Len(r.pairs) /\ (a = Controlled => r.nominated = 0)
    BY <1>1, Zenon DEF Good, Indexed
  <2>2. Len(r.pairs) \in Nat
    BY <1>2, Lists, Zenon
  <2> QED BY <1>8, <1>9, <2>1, <2>2 DEF Indexed
<1>11. Invited(u, a) /\ Steady(u, a)
  BY <1>1, <1>8, <1>9, Zenon DEF Good, Invited, Steady, OfNominated
<1>12. Good(u, a, C)
  BY <1>7, <1>8, <1>9, <1>10, <1>11, Zenon DEF Good
<1>13. /\ checked' \in [Agents -> SUBSET (AllAddresses \X AllAddresses)]
       /\ checked'[Peer(a)] = checked[Peer(a)] /\ checked'[a] = C
  BY <1>1, <1>3, Zenon DEF TypeOK
<1> QED BY <1>3, <1>12, <1>13, StepGood, Zenon

\* The clocks, and requests that are dropped.
LEMMA TimeStep ==
    ASSUME IInv, NEW a \in Agents, Wait(a) \/ Expire(a)
    PROVE  IInv' /\ PanicsOnly
<1> DEFINE r == agent[a]
           C == checked[a]
<1>1. TypeOK /\ Carried /\ Good(r, a, C) /\ r.out = {} /\ DOMAIN agent = Agents
  <2>1. ~r.panic
    BY Zenon DEF Wait, Expire, Running
  <2> QED BY <2>1, Zenon DEF IInv, TypeOK, Gone
<1>2. r \in Records(a)
  BY <1>1, Zenon DEF Good
<1>3. UNCHANGED <<gen, checked, net, setting>>
  BY Zenon DEF Wait, Expire
<1>4. SUFFICES \E u : agent' = [agent EXCEPT ![a] = u] /\ u \in Records(a) /\ Alike(r, u)
  <2>1. PICK u : agent' = [agent EXCEPT ![a] = u] /\ u \in Records(a) /\ Alike(r, u)
    BY <1>4, Zenon
  <2> HIDE DEF r
  <2>2. Good(u, a, C) /\ u.out = {}
    BY <1>1, <2>1, Quiet, Zenon DEF Alike
  <2>3. [u EXCEPT !.out = {}] = u
    BY <2>1, <2>2, Zenon DEF Records
  <2>4. Becomes(a, u)
    BY <1>3, <2>1, <2>2, <2>3, Zenon DEF Becomes
  <2>5. /\ checked' \in [Agents -> SUBSET (AllAddresses \X AllAddresses)]
        /\ checked'[Peer(a)] = checked[Peer(a)] /\ checked'[a] = C
    BY <1>1, <1>3, Zenon DEF TypeOK
  <2> QED BY <1>3, <2>2, <2>4, <2>5, StepGood, Zenon
<1>5. CASE Wait(a)
  <2>1. agent' = [agent EXCEPT ![a] = [r EXCEPT !.waited = TRUE]]
    BY <1>1, <1>5, Zenon DEF Wait
  <2>2. [r EXCEPT !.waited = TRUE] \in Records(a) /\ Alike(r, [r EXCEPT !.waited = TRUE])
    BY <1>2, Zenon DEF Records, Alike
  <2> QED BY <2>1, <2>2, Zenon
<1>6. CASE Expire(a)
  <2>1. CASE agent' = [agent EXCEPT ![a].overdue = TRUE]
    <3>1. agent' = [agent EXCEPT ![a] = [r EXCEPT !.overdue = TRUE]]
      BY <1>1, <2>1, Zenon
    <3>2. [r EXCEPT !.overdue = TRUE] \in Records(a) /\ Alike(r, [r EXCEPT !.overdue = TRUE])
      BY <1>2, Zenon DEF Records, Alike
    <3> QED BY <3>1, <3>2, Zenon
  <2>2. CASE r.silent < 2 /\ agent' = [agent EXCEPT ![a].silent = @ + 1]
    <3>1. agent' = [agent EXCEPT ![a] = [r EXCEPT !.silent = @ + 1]]
      BY <1>1, <2>2, Zenon
    <3>2. r.silent + 1 \in 0 .. 2
      BY <1>2, <2>2 DEF Records
    <3>3. [r EXCEPT !.silent = @ + 1] \in Records(a)
      BY <1>2, <3>2, Zenon DEF Records
    <3>4. Alike(r, [r EXCEPT !.silent = @ + 1])
      BY <1>2, Zenon DEF Records, Alike
    <3> QED BY <3>1, <3>3, <3>4, Zenon
  <2>3. CASE agent' = [agent EXCEPT ![a].pending = {}]
    <3>1. agent' = [agent EXCEPT ![a] = [r EXCEPT !.pending = {}]]
      BY <1>1, <2>3, Zenon
    <3>2. [r EXCEPT !.pending = {}] \in Records(a) /\ Alike(r, [r EXCEPT !.pending = {}])
      BY <1>2, Zenon DEF Records, Alike
    <3> QED BY <3>1, <3>2, Zenon
  <2> QED BY <1>6, <2>1, <2>2, <2>3, Zenon DEF Expire
<1> QED BY <1>5, <1>6, Zenon

\* restart: a new generation, of which there is no nomination.
LEMMA RestartStep ==
    ASSUME IInv, NEW a \in Agents, Restart(a)
    PROVE  IInv' /\ PanicsOnly
<1> DEFINE r == agent[a]
           x == Start(r, a)
           y == [x EXCEPT !.remote = 0, !.pending = {}, !.pairs = <<>>, !.selected = 0]
           z == [y EXCEPT !.locals = <<>>, !.remotes = <<>>]
           u == [z EXCEPT !.state = "Checking"]
           s == [u EXCEPT !.out = {}]
<1>1. /\ TypeOK /\ Carried /\ Good(r, a, checked[a])
      /\ \A b \in Agents : /\ Good(agent[b], b, checked[b]) \/ Gone(agent[b], b)
                          /\ agent[b].out = {}
  <2>1. ~r.panic
    BY Zenon DEF Restart, Usable, Running
  <2> QED BY <2>1, Zenon DEF IInv, TypeOK, Gone
<1>2. r \in Records(a) /\ ~r.panic /\ r.out = {} /\ (a = Controlled => r.nominated = 0)
  BY <1>1, Zenon DEF Good, Indexed
<1>3. /\ gen[a] < MaxGen /\ gen' = [gen EXCEPT ![a] = @ + 1]
      /\ checked' = [checked EXCEPT ![a] = {}] /\ UNCHANGED setting /\ Becomes(a, u)
  BY Zenon DEF Restart, Restarted, UpdateState, DeleteCandidates
<1> HIDE DEF r
<1>4. /\ x \in Records(a) /\ x.nominated = 0 /\ x.out = {} /\ ~x.panic
  <2>1. CASE a = Controlling
    BY <1>2, <2>1, Zenon DEF Start, Records
  <2>2. CASE a # Controlling
    BY <1>2, <2>2, Zenon DEF Start, Agents
  <2> QED BY <2>1, <2>2, Zenon
<1> HIDE DEF x
<1>5. /\ <<>> \in Seq(Range(Addresses[a])) /\ <<>> \in Seq(Candidates(Peer(a)))
      /\ <<>> \in Seq(Pairs) /\ 0 \in 0 .. MaxGen /\ {} \subseteq Pending(a)
  <2>1. MaxGen \in Nat
    BY <1>1, IceAssumption, Zenon DEF TypeOK, MaxGen
  <2> QED BY <2>1
<1>6. /\ y \in Records(a) /\ y.nominated = 0 /\ y.out = {} /\ ~y.panic
      /\ y.remote = 0 /\ y.pairs = <<>> /\ y.selected = 0
  BY <1>4, <1>5, Zenon DEF Records
<1> HIDE DEF y
<1>7. /\ z \in Records(a) /\ z.nominated = 0 /\ z.out = {} /\ ~z.panic
      /\ z.remote = 0 /\ z.pairs = <<>> /\ z.selected = 0 /\ z.locals = <<>> /\ z.remotes = <<>>
  BY <1>5, <1>6, Zenon DEF Records
<1> HIDE DEF z
<1>8. /\ u \in Records(a) /\ u.nominated = 0 /\ u.out = {} /\ ~u.panic /\ u.state = "Checking"
      /\ u.remote = 0 /\ u.pairs = <<>> /\ u.selected = 0 /\ u.locals = <<>> /\ u.remotes = <<>>
  BY <1>7, Zenon DEF Records, States
<1> HIDE DEF u
<1>9. /\ s \in Records(a) /\ s.nominated = 0 /\ s.out = {} /\ ~s.panic /\ s.state = "Checking"
      /\ s.remote = 0 /\ s.pairs = <<>> /\ s.selected = 0
  BY <1>8, Zenon DEF Records
<1>10. agent' = [agent EXCEPT ![a] = s] /\ net' = net
  BY <1>3, <1>8, Zenon DEF Becomes
<1> HIDE DEF s
<1>11. /\ agent'[a] = s /\ agent'[Peer(a)] = agent[Peer(a)] /\ DOMAIN agent' = Agents
  BY <1>1, <1>10, Peers, Zenon DEF TypeOK
<1>12. /\ gen' \in [Agents -> 1 .. MaxGen] /\ gen[a] \in Nat
       /\ gen'[a] = gen[a] + 1 /\ gen'[Peer(a)] = gen[Peer(a)]
  <2>1. gen \in [Agents -> 1 .. MaxGen] /\ gen[a] \in 1 .. MaxGen /\ MaxGen \in Nat
    BY <1>1, IceAssumption, Zenon DEF TypeOK, MaxGen
  <2>2. gen[a] + 1 \in 1 .. MaxGen
    BY <1>3, <2>1
  <2> QED BY <1>3, <2>1, <2>2, Peers
<1>13. /\ checked' \in [Agents -> SUBSET (AllAddresses \X AllAddresses)]
       /\ checked'[a] = {} /\ checked'[Peer(a)] = checked[Peer(a)]
  BY <1>1, <1>3, Peers, Zenon DEF TypeOK
<1>14. /\ Addresses' = Addresses /\ MaxGen' = MaxGen /\ AllAddresses' = AllAddresses
       /\ Messages' = Messages /\ \A b \in Agents : Records(b)' = Records(b)
  BY <1>3, Fixed, Zenon
<1>15. TypeOK'
  <2>1. \A b \in Agents : agent'[b] \in Records(b) /\ agent'[b].out = {}
    BY <1>1, <1>9, <1>11, Peers DEF TypeOK
  <2> QED BY <1>1, <1>3, <1>10, <1>11, <1>12, <1>13, <1>14, <2>1, Zenon DEF TypeOK
<1>16. Carried'
  <2>1. gen[Controlling] \in Nat /\ gen'[Controlling] \in Nat /\ gen[Controlling] <= gen'[Controlling]
    BY <1>1, <1>12, Peers DEF TypeOK, Agents
  <2>2. \A q \in net : q.by \in Nat
    BY <1>1 DEF TypeOK, Messages
  <2>3. \A q \in net' : IsNomination(q) => q.by <= gen'[Controlling]
    BY <1>1, <1>10, <2>1, <2>2 DEF Carried
  <2> QED BY <1>1, <1>10, <1>14, <2>3, Zenon DEF Carried
<1>17. Good(agent[a], a, checked[a])'
  <2>1. Live(s)
    BY <1>9, Zenon DEF Live
  <2>2. Indexed(agent[a], a, checked[a])'
    BY <1>9, <1>11, <2>1 DEF Indexed
  <2>3. Invited(agent[a], a)'
    BY <1>9, <1>11, Zenon DEF Invited
  <2>4. Steady(agent[a], a)'
    <3>1. a = Controlling => \A q \in net' : ~(IsNomination(q) /\ q.by = gen'[a])
      <4>1. \A q \in net : q.by \in Nat
        BY <1>1 DEF TypeOK, Messages
      <4> QED BY <1>1, <1>10, <1>12, <4>1 DEF Carried
    <3> QED BY <1>9, <1>11, <3>1, Zenon DEF Steady
  <2> QED BY <1>9, <1>11, <1>14, <2>1, <2>2, <2>3, <2>4, Zenon DEF Good
<1>18. ASSUME NEW b \in Agents, b = Peer(a), Good(agent[b], b, checked[b])
       PROVE  Good(agent[b], b, checked[b])'
  <2>1. /\ agent'[b] = agent[b] /\ checked'[b] = checked[b] /\ agent[b].out = {} /\ gen'[b] = gen[b]
        /\ Good(agent[b], b, checked[b])
    BY <1>1, <1>11, <1>12, <1>13, <1>18, Zenon
  <2>2. Indexed(agent[b], b, checked[b])'
    BY <2>1, Zenon DEF Good, Indexed, Live, EndsOf, InRange
  <2>3. Invited(agent[b], b)'
    <3>1. Invited(agent[b], b)
      BY <2>1, Zenon DEF Good
    <3>2. \A i : Invitation(agent[b], b, i)' = Invitation(agent[b], b, i)
      BY <2>1, Zenon DEF Invitation, EndsOf
    <3> QED BY <1>10, <2>1, <3>1, <3>2 DEF Invited
  <2>4. Steady(agent[b], b)'
    BY <1>10, <2>1, Zenon DEF Good, Steady, OfNominated, EndsOf, Live
  <2>5. agent'[b] \in Records(b)' /\ ~agent'[b].panic /\ agent'[b].out = {}
    BY <1>14, <2>1, Zenon DEF Good
  <2> QED BY <2>2, <2>3, <2>4, <2>5, Zenon DEF Good
<1>19. ASSUME NEW b \in Agents, b = Peer(a), Gone(agent[b], b) PROVE Gone(agent[b], b)'
  BY <1>11, <1>14, <1>19, Zenon DEF Gone
<1>20. \A b \in Agents : (Good(agent[b], b, checked[b]) \/ Gone(agent[b], b))'
  BY <1>1, <1>17, <1>18, <1>19, Peers, Zenon
<1>21. PanicsOnly
  BY <1>9, <1>11, Peers, Zenon DEF PanicsOnly, Running
<1> QED BY <1>15, <1>16, <1>20, <1>21, Zenon DEF IInv

LEMMA InitGood == Init => IInv
<1> SUFFICES ASSUME Init PROVE IInv
  OBVIOUS
<1>1. \A a \in Agents : agent[a] = NewAgent /\ gen[a] = 1 /\ checked[a] = {}
  BY Zenon DEF Init
<1>2. MaxGen \in Nat \ {0}
  BY IceAssumption, Zenon DEF Init, MaxGen
<1>3. \A a \in Agents : NewAgent \in Records(a) /\ NewAgent.out = {}
  <2> TAKE a \in Agents
  <2>1. /\ <<>> \in Seq(Range(Addresses[a])) /\ <<>> \in Seq(Candidates(Peer(a)))
        /\ <<>> \in Seq(Pairs) /\ 0 \in 0 .. MaxGen /\ {} \subseteq Pending(a)
        /\ {} \subseteq Messages
    BY <1>2
  <2> QED BY <2>1 DEF NewAgent, Records, States
<1>4. TypeOK
  BY <1>1, <1>2, <1>3 DEF Init, TypeOK
<1>5. Carried
  BY Zenon DEF Init, Carried
<1>6. ASSUME NEW a \in Agents PROVE Good(agent[a], a, checked[a])
  <2>1. /\ NewAgent.pairs = <<>> /\ NewAgent.nominated = 0 /\ NewAgent.selected = 0
        /\ NewAgent.state = "New" /\ NewAgent.out = {} /\ ~NewAgent.panic
    BY Zenon DEF NewAgent
  <2>2. Live(NewAgent)
    BY <2>1, Zenon DEF Live
  <2>3. Indexed(NewAgent, a, {})
    BY <2>1, <2>2 DEF Indexed
  <2>4. Invited(NewAgent, a) /\ Steady(NewAgent, a)
    BY <2>1, Zenon DEF Invited, Steady, Init
  <2> QED BY <1>1, <1>3, <2>1, <2>2, <2>3, <2>4, Zenon DEF Good
<1> QED BY <1>4, <1>5, <1>6, Zenon DEF IInv

LEMMA NextGood == IInv /\ [Next]_vars => IInv' /\ [PanicsOnly]_vars
<1> SUFFICES ASSUME IInv, [Next]_vars PROVE IInv' /\ [PanicsOnly]_vars
  OBVIOUS
<1>1. CASE Next
  <2>1. PICK a \in Agents :
          \/ AddLocal(a) \/ AddRemote(a) \/ SetRemoteCredentials(a) \/ Restart(a) \/ Close(a)
          \/ Timeout(a) \/ Wait(a) \/ Expire(a) \/ \E q \in net : Read(a, q)
    BY <1>1, Zenon DEF Next
  <2> QED BY <2>1, AgentStep, CredentialsStep, RestartStep, CloseStep, TimeStep, ReadStep, Zenon
<1>2. CASE UNCHANGED vars
  <2>1. /\ Addresses' = Addresses /\ MaxGen' = MaxGen /\ AllAddresses' = AllAddresses
        /\ Messages' = Messages /\ \A b \in Agents : Records(b)' = Records(b)
    BY <1>2, Fixed, Zenon DEF vars
  <2>2. TypeOK' /\ Carried'
    BY <1>2, <2>1, Zenon DEF vars, IInv, TypeOK, Carried
  <2>3. ASSUME NEW b \in Agents, Good(agent[b], b, checked[b])
        PROVE  Good(agent[b], b, checked[b])'
    <3>1. Good(agent[b], b, checked[b]) /\ UNCHANGED <<agent, gen, checked, net>>
      BY <1>2, <2>3, Zenon DEF vars
    <3>2. Indexed(agent[b], b, checked[b])'
      BY <3>1, Zenon DEF Good, Indexed, Live, EndsOf, InRange
    <3>3. Invited(agent[b], b)' /\ Steady(agent[b], b)'
      BY <3>1, Zenon DEF Good, Invited, Steady, OfNominated, Invitation, EndsOf, Live
    <3>4. \A q \in agent'[b].out : Sendable(agent[b], b, q)'
      BY <2>1, <3>1, Zenon DEF Good, Sendable
    <3> QED BY <2>1, <3>1, <3>2, <3>3, <3>4, Zenon DEF Good, Live
  <2>4. ASSUME NEW b \in Agents, Gone(agent[b], b) PROVE Gone(agent[b], b)'
    BY <1>2, <2>1, <2>4, Zenon DEF vars, Gone
  <2> QED BY <1>2, <2>2, <2>3, <2>4, Zenon DEF IInv
<1> QED BY <1>1, <1>2, Zenon

-----------------------------------------------------------------------------

\* The invariant holds of every behaviour of the two agents.
THEOREM Invariance == Spec => []IInv
BY InitGood, NextGood, PTL DEF Spec

\* Every field has its type, and an agent uses an index its lists no longer have only
\* when a request from an unknown address overtakes the timeout by which it fails, or
\* when its timeouts are served after it was closed: in every other step pairs,
\* nomination and selection outlive the candidates only in a failed or closed agent,
\* which has no message to read and no pair to contact.
THEOREM NoPanicTheorem == Spec => NoPanic
<1>1. IInv => TypeOK
  BY Zenon DEF IInv
<1>2. Init => IInv
  BY InitGood
<1>3. IInv /\ [Next]_vars => IInv' /\ [PanicsOnly]_vars
  BY NextGood
<1> QED BY <1>1, <1>2, <1>3, PTL DEF Spec, NoPanic

\* An agent selects only a pair it has had a success response for since its last
\* restart, whatever its peer nominates and however often the response arrives.
THEOREM SelectedCheckedTheorem == Spec => []SelectedChecked
<1>1. ASSUME IInv PROVE SelectedChecked
  <2> SUFFICES ASSUME NEW a \in Agents, Selected(a) PROVE Selection(a) \in checked[a]
    BY Zenon DEF SelectedChecked
  <2> DEFINE r == agent[a]
  <2>1. Good(r, a, checked[a]) /\ r \in Records(a) /\ r.selected # 0
    BY <1>1, Zenon DEF IInv, Good, Gone, Selected
  <2>2. Live(r) /\ r.selected \in DOMAIN r.pairs
    BY <2>1, Lists DEF Good, Indexed
  <2>3. EndsOf(r, r.selected) \in checked[a]
    BY <2>1, <2>2, Zenon DEF Good, Indexed
  <2> QED BY <2>3, Zenon DEF Selection, EndsOf
<1> QED BY <1>1, Invariance, PTL

\* There is one nomination for two generations, and two agents that have both
\* selected a pair have selected its two ends: each selection was nominated.
THEOREM OneSelectionTheorem == Spec => []OneSelection
<1>1. ASSUME IInv PROVE OneSelection
  <2>1. net \subseteq Messages /\ Carried
    BY <1>1, Zenon DEF IInv, TypeOK
  <2>2. ASSUME NEW q1 \in net, NEW q2 \in net, IsNomination(q1), IsNomination(q2),
               q1.by = q2.by, q1.for = q2.for
        PROVE  q1 = q2
    <3>1. q1.to = q2.to /\ q1.from = q2.from
      BY <2>1, <2>2, Zenon DEF Carried
    <3>2. q1 \in Messages /\ q2 \in Messages /\ q1.type = q2.type /\ q1.use = q2.use
      <4>1. q1 \in Messages /\ q2 \in Messages
        BY <2>1, Zenon
      <4>2. q1.use \in BOOLEAN /\ q2.use \in BOOLEAN
        BY <4>1, Zenon DEF Messages
      <4> QED BY <2>2, <4>1, <4>2, Zenon DEF IsNomination
    <3> QED BY <2>2, <3>1, <3>2 DEF Messages
  <2>3. OneNomination
    BY <2>2, Zenon DEF OneNomination, IsNomination
  <2>4. ASSUME \A a \in Agents : Selected(a) /\ Current(a)
        PROVE  Selection(Controlled) = <<Selection(Controlling)[2], Selection(Controlling)[1]>>
    <3> DEFINE r == agent[Controlling]
               s == agent[Controlled]
               e == EndsOf(r, r.selected)
               f == EndsOf(s, s.selected)
               q1 == Nomination(e, gen[Controlling], r.remote)
               q2 == Nomination(<<f[2], f[1]>>, s.remote, gen[Controlled])
    <3>1. Controlling \in Agents /\ Controlled \in Agents /\ Peer(Controlling) = Controlled
          /\ Peer(Controlled) = Controlling /\ Controlled # Controlling
      BY DEF Agents, Peer, Controlling, Controlled
    <3>2. q1 \in net
      BY <1>1, <2>4, <3>1, Zenon DEF IInv, Good, Gone, Invited, Invitation, Selected
    <3>3. q2 \in net
      BY <1>1, <2>4, <3>1, Zenon DEF IInv, Good, Gone, Invited, Invitation, Selected
    <3>4. r.remote = gen[Controlled] /\ s.remote = gen[Controlling]
      BY <2>4, <3>1, Zenon DEF Current
    <3>5. /\ q1.from = e[1] /\ q1.to = e[2] /\ q2.from = f[2] /\ q2.to = f[1]
          /\ IsNomination(q1) /\ IsNomination(q2) /\ q1.by = q2.by /\ q1.for = q2.for
      BY <3>4, Zenon DEF Nomination, IsNomination
    <3>6. e[1] = f[2] /\ e[2] = f[1]
      <4> HIDE DEF q1, q2, e, f
      <4> QED BY <2>2, <3>2, <3>3, <3>5, Zenon
    <3>7. Selection(Controlling) = e /\ Selection(Controlled) = f
      BY Zenon DEF Selection, EndsOf
    <3>8. f = <<f[1], f[2]>>
      BY Zenon DEF EndsOf
    <3> HIDE DEF e, f
    <3> QED BY <3>6, <3>7, <3>8, Zenon
  <2> QED BY <2>3, <2>4, Zenon DEF OneSelection, SelectionsAgree
<1> QED BY <1>1, Invariance, PTL
=============================================================================
