------------------------------ MODULE IceAgent ------------------------------
(***************************************************************************)
(* Two ICE agents of rtc-ice, one controlling and one controlled, checking *)
(* the connectivity between their candidates over a network that loses,    *)
(* delays, repeats and reorders (rtc-ice/src/agent/mod.rs,                 *)
(* rtc-ice/src/agent/agent_selector.rs).                                   *)
(*                                                                         *)
(* An agent is a record, its candidate lists and its pairs are sequences,  *)
(* and pairs, nomination and selection refer to them by index as the code  *)
(* does; panic records that an index was out of range.  Credentials are    *)
(* numbered by the restarts of their agent.  A transaction id is the       *)
(* ends and the USE-CANDIDATE flag of the request.  Time is                *)
(* abstract: overdue, silent and waited are what the clocks say.  What an  *)
(* operation has sent is in out, and moves to the network with the step.   *)
(***************************************************************************)
EXTENDS Integers, Sequences, FiniteSetsExt

CONSTANTS MaxBinding,     \* max_binding_requests
          Settings        \* the surroundings to check, of which each behaviour has one

Controlling == 1
Controlled == 2
Agents == {Controlling, Controlled}
Peer(a) == 3 - a

ASSUME IceAssumption ==
    /\ MaxBinding \in Nat
    /\ \A s \in Settings :
        /\ DOMAIN s = {"addresses", "generations", "trickling", "failing", "closing", "lite"}
        /\ DOMAIN s.addresses = Agents /\ s.generations \in Nat \ {0}
        /\ \A a \in Agents : s.addresses[a] \in Seq(Range(s.addresses[a]))
        /\ Range(s.addresses[Controlling]) \cap Range(s.addresses[Controlled]) = {}
        /\ s.trickling \subseteq Agents /\ s.failing \subseteq Agents /\ s.closing \subseteq Agents
        /\ s.lite \subseteq {Controlled}

VARIABLES
    agent,      \* Agent, by agent
    gen,        \* generation of the local credentials, by agent
    checked,    \* <<local, remote>> addresses a success response arrived for, by agent
    net,        \* every message sent
    setting     \* never changes

vars == <<agent, gen, checked, net, setting>>

\* The addresses of each agent, in the order they are gathered and signalled.
Addresses == setting.addresses
\* Bound: generations of credentials per agent.
MaxGen == setting.generations
\* The agents that may be given candidates after the credentials.
CanTrickle == setting.trickling
\* The agents whose timeouts of a failing connection may expire.
CanFail == setting.failing
\* The agents that may be closed.
CanClose == setting.closing
\* The agents that are lite.
Lite == setting.lite

AllAddresses == Range(Addresses[1]) \cup Range(Addresses[2])

\* The agent that made a request, and the credentials it knew.
Messages == [type : {"request", "success"}, from : AllAddresses, to : AllAddresses,
             use : BOOLEAN,              \* USE-CANDIDATE, also of the request answered
             by : 1 .. MaxGen,           \* generation of the sender's credentials
             for : 1 .. MaxGen]          \* ... of the receiver's, as the sender knows them

NewAgent == [state |-> "New", last |-> "Unspecified",
             remote |-> 0,               \* remote_credentials: generation, 0 for None
             locals |-> <<>>, remotes |-> <<>>, pairs |-> <<>>,
             nominated |-> 0, selected |-> 0,      \* index of a pair, 0 for None
             pending |-> {},             \* pending_binding_requests
             overdue |-> FALSE,          \* checking longer than the timeouts allow
             silent |-> 0,               \* of the selected remote: 1 disconnected, 2 failed
             waited |-> FALSE,           \* the acceptance wait of non-host candidates is over
             out |-> {}, panic |-> FALSE]

Init ==
    /\ agent = [a \in Agents |-> NewAgent]
    /\ gen = [a \in Agents |-> 1]
    /\ checked = [a \in Agents |-> {}]
    /\ net = {}
    /\ setting \in Settings

-----------------------------------------------------------------------------
(***************************************************************************)
(* Operations of an agent on its record r.                                 *)
(***************************************************************************)

Panic(r) == [r EXCEPT !.panic = TRUE]

InRange(r, l, m) == l \in 1 .. Len(r.locals) /\ m \in 1 .. Len(r.remotes)

\* delete_all_candidates(false): the pairs stay as they are.
DeleteCandidates(r) == [r EXCEPT !.locals = <<>>, !.remotes = <<>>]

\* update_connection_state.
UpdateState(r, s) ==
    IF s = "Failed" /\ r.state # s
    THEN [DeleteCandidates(r) EXCEPT !.selected = 0, !.state = s]
    ELSE [r EXCEPT !.state = s]

\* set_selected_pair(Some(i)).
SetSelected(r, i) ==
    [UpdateState(r, "Connected") EXCEPT !.selected = i, !.silent = 0]

\* send_binding_request of pings or of a nomination, between the candidates E.
Requests(r, a, E, use) ==
    IF r.remote = 0 THEN r
    ELSE IF \E e \in E : ~InRange(r, e[1], e[2]) THEN Panic(r)
    ELSE [r EXCEPT !.pending = @ \cup {[from |-> r.locals[e[1]], dest |-> r.remotes[e[2]].addr,
                                         use |-> use] : e \in E},
                   !.out = @ \cup {[type |-> "request", from |-> r.locals[e[1]],
                                    to |-> r.remotes[e[2]].addr, use |-> use,
                                    by |-> gen[a], for |-> r.remote] : e \in E}]

Request(r, a, l, m, use) == Requests(r, a, {<<l, m>>}, use)

\* send_binding_success in answer to q.
Success(r, a, l, m, q) ==
    IF ~InRange(r, l, m) THEN Panic(r)
    ELSE [r EXCEPT !.out = @ \cup {[type |-> "success", from |-> r.locals[l],
                                    to |-> r.remotes[m].addr, use |-> q.use,
                                    by |-> gen[a], for |-> q.by]}]

\* CandidatePair::priority: local candidates are host candidates, so the remote
\* one decides.
Priority(r, i) == IF r.pairs[i].kind = "host" THEN 2 ELSE 1

\* The first pair of highest priority among those in the states S, 0 if none:
\* get_best_valid_candidate_pair and get_best_available_candidate_pair.
Best(r, S) ==
    LET some == {i \in DOMAIN r.pairs : r.pairs[i].state \in S}
        better(i, j) == \/ Priority(r, i) > Priority(r, j)
                        \/ Priority(r, i) = Priority(r, j) /\ i <= j
    IN  IF some = {} THEN 0
        ELSE CHOOSE i \in some : \A j \in some : better(i, j)

BestValid(r) == Best(r, {"Succeeded"})
BestAvailable(r) == Best(r, {"Waiting", "InProgress", "Succeeded"})

\* The first of the indexes I, 0 if there is none.
First(I) == IF I = {} THEN 0 ELSE Min(I)

\* find_pair.
FindPair(r, l, m) ==
    First({i \in DOMAIN r.pairs : r.pairs[i].local = l /\ r.pairs[i].remote = m})

NewPair(r, l, m) == [local |-> l, remote |-> m, kind |-> r.remotes[m].kind,
                     state |-> "Waiting", count |-> 0]

\* add_pair.
AddPair(r, l, m) ==
    IF ~InRange(r, l, m) THEN Panic(r)
    ELSE [r EXCEPT !.pairs = Append(@, NewPair(r, l, m))]

\* Faulty variant: the acceptance wait never ends.
NominatableFault(r, i) == r.pairs[i].kind = "host"

\* is_nominatable of both candidates of pair i: host candidates at once.
Nominatable(r, i) == r.pairs[i].kind = "host" \/ r.waited

\* nominate_pair.
Nominate(r, a) ==
    LET p == r.pairs[r.nominated] IN Request(r, a, p.local, p.remote, TRUE)

\* ping_all_candidates: the pairs to check, their new states, and the checks.
PingAll(r, a) ==
    LET open == {i \in DOMAIN r.pairs : r.pairs[i].state \in {"Waiting", "InProgress"}}
        spent == {i \in open : r.pairs[i].count > MaxBinding}
        pairs == [i \in DOMAIN r.pairs |->
                    CASE i \in spent -> [r.pairs[i] EXCEPT !.state = "Failed"]
                      [] i \in open \ spent -> [r.pairs[i] EXCEPT !.state = "InProgress",
                                                                  !.count = @ + 1]
                      [] OTHER -> r.pairs[i]]
    IN  Requests([r EXCEPT !.pairs = pairs], a,
                 {<<r.pairs[i].local, r.pairs[i].remote>> : i \in open \ spent}, FALSE)

\* validate_selected_pair.
Validate(r) ==
    UpdateState(r, CASE r.silent = 2 -> "Failed"
                     [] r.silent = 1 -> "Disconnected"
                     [] r.silent = 0 -> "Connected")

\* check_keepalive.  A keepalive that is not due repeats a message already sent.
Keepalive(r, a) ==
    IF r.selected = 0 THEN r
    ELSE Request(r, a, r.pairs[r.selected].local, r.pairs[r.selected].remote, FALSE)

\* A valid pair is there to nominate.
Nominates(r) == BestValid(r) # 0 /\ Nominatable(r, BestValid(r))

\* contact_candidates of the two selectors.  A lite agent only validates.
ContactCandidates(r, a) ==
    IF r.selected # 0 THEN IF a \in Lite THEN Validate(r) ELSE Keepalive(Validate(r), a)
    ELSE IF a \in Lite THEN r
    ELSE IF a = Controlling /\ r.nominated # 0 THEN Nominate(r, a)
    ELSE IF a = Controlling /\ Nominates(r)
         THEN Nominate([r EXCEPT !.nominated = BestValid(r)], a)
    ELSE PingAll(r, a)

\* contact.
Contact(r, a) ==
    LET s == [r EXCEPT !.overdue = @ /\ r.last = r.state]
        t == IF s.state = "Failed" THEN s
             ELSE IF s.state = "Checking" /\ s.overdue THEN UpdateState(s, "Failed")
             ELSE ContactCandidates(s, a)
    IN  [t EXCEPT !.last = t.state]

\* request_connectivity_check.
RequestCheck(r, a) == IF r.remote = 0 THEN r ELSE Contact(r, a)

\* add_local_candidate.
WithLocal(r, a, addr) ==
    LET s == [r EXCEPT !.locals = Append(@, addr)]
        new == [m \in DOMAIN s.remotes |-> NewPair(s, Len(s.locals), m)]
    IN  RequestCheck([s EXCEPT !.pairs = @ \o new], a)

\* add_remote_candidate.
WithRemote(r, a, c) ==
    IF c \in Range(r.remotes) THEN r
    ELSE LET s == [r EXCEPT !.remotes = Append(@, c)]
             new == [l \in DOMAIN s.locals |-> NewPair(s, l, Len(s.remotes))]
         IN  RequestCheck([s EXCEPT !.pairs = @ \o new], a)

-----------------------------------------------------------------------------
(***************************************************************************)
(* handle_inbound.                                                         *)
(***************************************************************************)

\* find_remote_candidate: the first of that address, whatever its type.
FindRemote(r, addr) == First({m \in DOMAIN r.remotes : r.remotes[m].addr = addr})

\* A success response selects the pair: it answers a nomination.
Selects(r, a, q) == a = Controlling /\ q.use /\ r.selected = 0

\* handle_success_response.
HandleSuccess(r, a, l, m, q) ==
    LET request == [from |-> q.to, dest |-> q.from, use |-> q.use]
        s == [r EXCEPT !.pending = @ \ {request}]
        i == FindPair(r, l, m)
    IN  IF request \notin r.pending \/ q.for # gen[a] THEN r
        ELSE IF i = 0 THEN s
        ELSE LET t == [s EXCEPT !.pairs[i].state = "Succeeded"]
             IN  IF Selects(r, a, q) THEN SetSelected(t, i) ELSE t

\* Faulty variant: another pair may have been nominated already.
NominatesNowFault(r, i) ==
    /\ r.pairs[i].state = "Succeeded" /\ r.selected = 0
    /\ BestAvailable(r) = i /\ Nominatable(r, i)

\* The controlling agent nominates the best pair when it is checked in return.
NominatesNow(r, i) ==
    /\ r.pairs[i].state = "Succeeded" /\ r.nominated = 0 /\ r.selected = 0
    /\ BestAvailable(r) = i /\ Nominatable(r, i)

\* handle_binding_request of ControllingSelector.
RequestToControlling(r, a, l, m, q) ==
    LET s == Success(r, a, l, m, q)
        i == FindPair(s, l, m)
    IN  IF i = 0 THEN AddPair(s, l, m)
        ELSE IF NominatesNow(s, i) THEN Nominate([s EXCEPT !.nominated = i], a)
        ELSE s

\* Faulty variant: the pair need not have been checked.
AcceptsNominationFault(r, i) == TRUE

\* The controlled agent takes a nomination only for a pair it has checked itself.
AcceptsNomination(r, i) == r.pairs[i].state = "Succeeded"

\* handle_binding_request of ControlledSelector.
RequestToControlled(r, a, l, m, q) ==
    LET s == IF FindPair(r, l, m) = 0 THEN AddPair(r, l, m) ELSE r
        i == FindPair(s, l, m)
    IN  IF i = 0 THEN s
        ELSE IF ~q.use THEN Request(Success(s, a, l, m, q), a, l, m, FALSE)
        ELSE IF AcceptsNomination(s, i)
             THEN Success(IF s.selected = 0 THEN SetSelected(s, i) ELSE s, a, l, m, q)
        ELSE Request(s, a, l, m, FALSE)

\* The message q makes the agent hear from remote candidate m.
Seen(r, m) ==
    IF r.selected # 0 /\ r.pairs[r.selected].remote = m THEN [r EXCEPT !.silent = 0] ELSE r

\* A request from an unknown address: a peer reflexive candidate is added, which
\* contacts the candidates, and is then taken to be the last of the list.
WithReflexive(r, a, addr) ==
    LET s == WithRemote(r, a, [addr |-> addr, kind |-> "prflx"])
    IN  IF s.remotes = <<>> THEN Panic(s) ELSE s

HandleRequest(r, a, l, q) ==
    LET s == IF FindRemote(r, q.from) = 0 THEN WithReflexive(r, a, q.from) ELSE r
        m == IF FindRemote(r, q.from) = 0 THEN Len(s.remotes) ELSE FindRemote(r, q.from)
    IN  IF s.panic THEN s
        ELSE Seen(IF a = Controlling THEN RequestToControlling(s, a, l, m, q)
                                     ELSE RequestToControlled(s, a, l, m, q), m)

-----------------------------------------------------------------------------
(***************************************************************************)
(* Actions.                                                                *)
(***************************************************************************)

\* The step leaves agent a as r, and what it sent is under way.
Becomes(a, r) ==
    /\ agent' = [agent EXCEPT ![a] = [r EXCEPT !.out = {}]]
    /\ net' = net \cup r.out

Running(a) == ~agent[a].panic

\* The application's part: a closed agent is not called any more, though its
\* timeouts are still served (poll_timeout) and what arrives still read, and a failed
\* agent is restarted before it is given its own candidates.
Usable(a) == Running(a) /\ agent[a].state # "Closed"
Gathers(a) == Usable(a) /\ agent[a].state # "Failed"

\* add_local_candidate of the next candidate gathered.
AddLocal(a) ==
    LET n == Len(agent[a].locals) + 1
    IN  /\ Gathers(a) /\ n <= Len(Addresses[a])
        /\ Becomes(a, WithLocal(agent[a], a, Addresses[a][n]))
        /\ UNCHANGED <<gen, checked, setting>>

Host(addr) == [addr |-> addr, kind |-> "host"]

\* The candidates of the peer that were not handed over yet.
Unsignalled(a) ==
    {n \in DOMAIN Addresses[Peer(a)] : Host(Addresses[Peer(a)][n]) \notin Range(agent[a].remotes)}

\* add_remote_candidate of a candidate the peer signalled.
AddRemote(a) ==
    /\ Usable(a) /\ Unsignalled(a) # {}
    /\ Becomes(a, WithRemote(agent[a], a, Host(Addresses[Peer(a)][First(Unsignalled(a))])))
    /\ UNCHANGED <<gen, checked, setting>>

\* Every candidate was handed over.
Gathered(a) == Len(agent[a].locals) = Len(Addresses[a]) /\ Unsignalled(a) = {}

\* start of the selector: the controlled one has nothing to reset.
Start(r, a) == IF a = Controlling THEN [r EXCEPT !.nominated = 0, !.waited = FALSE] ELSE r

\* start_connectivity_checks with the peer's credentials; after a restart, which the
\* peer follows before it answers, set_remote_credentials alone.
SetRemoteCredentials(a) ==
    LET r == [agent[a] EXCEPT !.remote = gen[Peer(a)]]
    IN  /\ Usable(a) /\ agent[a].remote = 0
        /\ gen[Peer(a)] = gen[a] /\ (a \in CanTrickle \/ Gathered(a))
        /\ Becomes(a, IF r.state = "New"
                      THEN RequestCheck(UpdateState(Start(r, a), "Checking"), a) ELSE r)
        /\ UNCHANGED <<gen, checked, setting>>

\* Faulty variant: the pairs of the old generation stay.
RestartedFault(r, a) == UpdateState(DeleteCandidates(
    [Start(r, a) EXCEPT !.remote = 0, !.pending = {}, !.selected = 0]), "Checking")

\* restart(.., keep_local_candidates = false) of an agent that was started.
Restarted(r, a) == UpdateState(DeleteCandidates(
    [Start(r, a) EXCEPT !.remote = 0, !.pending = {}, !.pairs = <<>>, !.selected = 0]),
    "Checking")

Restart(a) ==
    /\ Usable(a) /\ gen[a] < MaxGen /\ gen[a] <= gen[Peer(a)]
    /\ agent[a].state # "New"
    /\ gen' = [gen EXCEPT ![a] = @ + 1]
    /\ checked' = [checked EXCEPT ![a] = {}]
    /\ Becomes(a, Restarted(agent[a], a))
    /\ UNCHANGED setting

\* close, and nothing of the pairs or the nomination.
Close(a) ==
    /\ a \in CanClose /\ Usable(a)
    /\ Becomes(a, UpdateState(DeleteCandidates([agent[a] EXCEPT !.selected = 0]), "Closed"))
    /\ UNCHANGED <<gen, checked, setting>>

\* handle_timeout.  A call that changes nothing is a stutter, here and in Read.
Timeout(a) ==
    /\ Running(a) /\ agent[a].remote # 0
    /\ Becomes(a, Contact(agent[a], a))
    /\ UNCHANGED <<gen, checked, setting>>
    /\ vars' # vars

LocalOf(a, q) == First({l \in DOMAIN agent[a].locals : agent[a].locals[l] = q.to})
RemoteOf(a, q) == FindRemote(agent[a], q.from)

\* handle_read: the checks of address, role, username and integrity.
Readable(a, q) ==
    /\ Running(a) /\ q.to \in Range(Addresses[a]) /\ LocalOf(a, q) # 0
    /\ q.by = agent[a].remote
    /\ \/ q.type = "request" /\ q.for = gen[a]
       \/ q.type = "success" /\ RemoteOf(a, q) # 0

AfterRead(a, q) ==
    IF q.type = "request" THEN HandleRequest(agent[a], a, LocalOf(a, q), q)
    ELSE Seen(HandleSuccess(agent[a], a, LocalOf(a, q), RemoteOf(a, q), q), RemoteOf(a, q))

Read(a, q) ==
    /\ Readable(a, q)
    /\ Becomes(a, AfterRead(a, q))
    /\ checked' = [checked EXCEPT ![a] = @ \cup {<<m.to, m.from>> : m \in
                      {m \in {q} : m.type = "success" /\ m.for = gen[a]}}]
    /\ UNCHANGED <<gen, setting>>
    /\ vars' # vars

\* Time passes: the acceptance wait of the agent that nominates ends, checking runs
\* overdue, the selected remote candidate has been silent for one timeout more, or
\* the requests under way are dropped by invalidate_pending_binding_requests.
Wait(a) ==
    /\ Running(a) /\ a = Controlling /\ ~agent[a].waited /\ agent[a].remote # 0
    /\ agent' = [agent EXCEPT ![a].waited = TRUE]
    /\ UNCHANGED <<gen, checked, net, setting>>

Expire(a) ==
    /\ Running(a) /\ a \in CanFail
    /\ \/ /\ agent[a].state = "Checking" /\ agent[a].last = "Checking" /\ ~agent[a].overdue
          /\ agent' = [agent EXCEPT ![a].overdue = TRUE]
       \/ /\ agent[a].selected # 0 /\ agent[a].silent < 2
          /\ agent' = [agent EXCEPT ![a].silent = @ + 1]
       \/ /\ agent[a].pending # {}
          /\ agent' = [agent EXCEPT ![a].pending = {}]
    /\ UNCHANGED <<gen, checked, net, setting>>

Next ==
    \E a \in Agents :
        \/ AddLocal(a) \/ AddRemote(a)
        \/ SetRemoteCredentials(a) \/ Restart(a) \/ Close(a)
        \/ Timeout(a) \/ Wait(a) \/ Expire(a)
        \/ \E q \in net : Read(a, q)

Spec == Init /\ [][Next]_vars

\* The addresses of an agent, in any of the settings.
Ends(a) == UNION {Range(s.addresses[a]) : s \in Settings}

\* The kinds of messages an agent gets: requests, answers, and what nominates.
Kinds(a) == [type : {"request", "success"}, use : {FALSE}, from : Ends(Peer(a)), to : Ends(a)]
            \cup
            [type : {IF a = Controlling THEN "success" ELSE "request"}, use : {TRUE},
             from : Ends(Peer(a)), to : Ends(a)]

\* The message of that kind between the generations the agent knows.
Latest(a, k) == [type |-> k.type, from |-> k.from, to |-> k.to, use |-> k.use,
                 by |-> agent[a].remote, for |-> gen[a]]

\* Nothing fails and nothing is closed: only there does a property need fairness.
Undisturbed == CanFail \cup CanClose = {}

\* A read of the message q certainly changes something: it answers a request under
\* way, or is a request not answered before that the agent answers at once.
Awaited(a, q) ==
    IF q.type = "success"
    THEN [from |-> q.to, dest |-> q.from, use |-> q.use] \in agent[a].pending
    ELSE /\ [type |-> "success", from |-> q.to, to |-> q.from, use |-> q.use,
             by |-> gen[a], for |-> q.by] \notin net
         /\ a = Controlled /\ q.use =>
              LET i == FindPair(agent[a], LocalOf(a, q), RemoteOf(a, q))
              IN  i # 0 /\ AcceptsNomination(agent[a], i)

\* The message of this kind is there and its read changes something.
Useful(a, k) ==
    /\ Undisturbed /\ Latest(a, k) \in net
    /\ Awaited(a, Latest(a, k)) /\ Readable(a, Latest(a, k))

ReadOf(a, k) == Undisturbed /\ Read(a, Latest(a, k))

\* Contacting the candidates certainly changes something: there is a pair to nominate
\* or to check, or the state is new.
Contacts(a) ==
    LET r == agent[a]
    IN  /\ Undisturbed /\ Running(a) /\ r.remote # 0
        /\ \/ r.last # r.state
           \/ /\ r.selected = 0 /\ a \notin Lite /\ ~(a = Controlling /\ r.nominated # 0)
              /\ \/ \E i \in DOMAIN r.pairs : r.pairs[i].state \in {"Waiting", "InProgress"}
                 \/ a = Controlling /\ Nominates(r)

\* The driver calls handle_timeout again and again, the application hands over the
\* candidates and the credentials, the acceptance wait ends, and of the messages of
\* each kind that can still be used one arrives: weak fairness, with what enables
\* the steps written out.
Fairness ==
    \A a \in Agents :
        /\ <>[](Running(a) /\ a = Controlling /\ ~agent[a].waited /\ agent[a].remote # 0)
              => []<><<Wait(a)>>_vars
        /\ <>[](Len(agent[a].locals) < Len(Addresses[a]) /\ Gathers(a))
              => []<><<AddLocal(a)>>_vars
        /\ <>[](Unsignalled(a) # {} /\ Usable(a))
              => []<><<AddRemote(a)>>_vars
        /\ <>[](agent[a].remote = 0 /\ gen[Peer(a)] = gen[a] /\ Usable(a)
               /\ (a \in CanTrickle \/ Gathered(a)))
              => []<><<SetRemoteCredentials(a)>>_vars
        /\ <>[]Contacts(a) => []<><<Timeout(a)>>_vars
        /\ \A k \in Kinds(a) :
              <>[]Useful(a, k) => []<><<ReadOf(a, k)>>_<<agent, net>>

FairSpec == Spec /\ Fairness

-----------------------------------------------------------------------------
(***************************************************************************)
(* Properties.                                                             *)
(***************************************************************************)

States == {"New", "Checking", "Connected", "Disconnected", "Failed", "Closed"}

Candidates(a) == [addr : Range(Addresses[a]), kind : {"host", "prflx"}]

Pairs == [local : Nat, remote : Nat, kind : {"host", "prflx"},
          state : {"Waiting", "InProgress", "Failed", "Succeeded"},
          count : 0 .. MaxBinding + 1]

Pending(a) == [from : Range(Addresses[a]), dest : Range(Addresses[Peer(a)]), use : BOOLEAN]

\* An agent's state (struct Agent).
Records(a) ==
    [state : States, last : States \cup {"Unspecified"}, remote : 0 .. MaxGen,
     locals : Seq(Range(Addresses[a])),
     remotes : Seq(Candidates(Peer(a))), pairs : Seq(Pairs),
     nominated : Nat, selected : Nat,
     pending : SUBSET Pending(a),
     overdue : BOOLEAN, silent : 0 .. 2, waited : BOOLEAN,
     out : SUBSET Messages, panic : BOOLEAN]

\* Types of the variables.
TypeOK ==
    /\ net \subseteq Messages /\ gen \in [Agents -> 1 .. MaxGen]
    /\ checked \in [Agents -> SUBSET (AllAddresses \X AllAddresses)]
    /\ DOMAIN agent = Agents /\ setting \in Settings
    /\ \A a \in Agents : agent[a] \in Records(a) /\ agent[a].out = {}

\* The timeouts of the agent have expired, and handle_timeout did not see it yet.
Due(r) == \/ r.remote # 0 /\ r.state = "Checking" /\ r.overdue
          \/ r.selected # 0 /\ r.silent = 2

\* A request from an unknown address reaches agent a after its timeouts expired: the
\* peer reflexive candidate it adds makes the agent fail and lose all its candidates,
\* and handle_inbound takes the last of none (self.remote_candidates.len() - 1).
Overtaken(a) ==
    /\ Due(agent[a]) /\ agent'[a].state = "Failed"
    /\ \E q \in net : Readable(a, q) /\ q.type = "request" /\ RemoteOf(a, q) = 0

\* Agent a was closed with pairs left, and poll_timeout still asks for handle_timeout,
\* which contacts the candidates of these pairs.
Outlived(a) ==
    agent[a].state = "Closed" /\ agent[a].remote # 0 /\ agent[a].pairs # <<>>

PanicsOnly == \A a \in Agents : Running(a) /\ ~Running(a)' => Overtaken(a) \/ Outlived(a)

\* Every field has its type, and no step of an agent uses an index that its lists no
\* longer have but in two cases: a request from an unknown address that overtakes the
\* timeout by which the agent fails, and a timeout of an agent that was closed.  In
\* every other step pairs, nomination and selection outlive the candidates they were
\* made from only where nothing looks at them (ping_all_candidates, nominate_pair,
\* check_keepalive, handle_inbound and the two selectors index without a check).
NoPanic == []TypeOK /\ [][PanicsOnly]_vars

Selection(a) ==
    LET p == agent[a].pairs[agent[a].selected]
    IN  <<agent[a].locals[p.local], agent[a].remotes[p.remote].addr>>

Selected(a) == agent[a].selected # 0

Current(a) == agent[a].remote = gen[Peer(a)]

\* The controlling agent has at most one nomination under way: the requests with
\* USE-CANDIDATE of a generation are all for the same pair (nominated_pair is only
\* reset by start).
OneNomination ==
    \A q1, q2 \in {q \in net : q.type = "request" /\ q.use} :
        q1.by = q2.by /\ q1.for = q2.for => q1 = q2

\* Two agents of the same generations that have both selected a pair have
\* selected the two ends of one pair: the controlling agent's nomination decides,
\* whatever the order in which checks, nominations and responses arrive.
SelectionsAgree ==
    (\A a \in Agents : Selected(a) /\ Current(a)) =>
        Selection(Controlled) = <<Selection(Controlling)[2], Selection(Controlling)[1]>>

\* One nomination, and one selection that follows it.
OneSelection == OneNomination /\ SelectionsAgree

\* A selected pair was checked by the agent itself since its last restart: a
\* success response came back over it (handle_success_response of the two
\* selectors, the Succeeded test of handle_binding_request, restart).
SelectedChecked == \A a \in Agents : Selected(a) => Selection(a) \in checked[a]

\* Where no timeout of the connection expires, two agents that know each other's
\* current credentials both select a pair, or one of them is restarted: neither a
\* request that arrived too early nor a pair that ran out of binding requests keeps
\* them apart (contact_candidates, handle_binding_request).
Connect ==
    (Undisturbed /\ \A a \in Agents : Current(a)) ~>
        \/ \A a \in Agents : Selected(a)
        \/ \E a \in Agents : ~Current(a)
=============================================================================
