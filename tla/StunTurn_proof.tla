--------------------------- MODULE StunTurn_proof ---------------------------
(***************************************************************************)
(* For any peers, any range of channel numbers, any lifetime and any       *)
(* number of transactions, losses and renewals of the nonce: what the TURN *)
(* client counts on the server has, and no call is forgotten.  The STUN    *)
(* client implements TransactionService, for any finite set of             *)
(* transactions, any number of attempts and any number of answers.         *)
(***************************************************************************)
EXTENDS MCStunTurn, TLAPS

-----------------------------------------------------------------------------
(***************************************************************************)
(* The TURN client.                                                        *)
(***************************************************************************)
Requests == [type : {"binding", "attempt", "allocate", "permit", "permits", "refresh", "bind"},
             nonce : Nat, peers : SUBSET Peers, number : Nat, life : Nat, id : Nat]

Relays == [lifetime : Nat, nonce : Nat, perms : [Peers -> {"None", "Idle", "Permitted"}],
           allocTimer : Int, permsTimer : Int]

Bindings == [number : Channels, st : {"Request", "Ready", "Refresh"}, age : Nat]

Servers == [nonce : Nat, left : Nat, perm : [Peers -> 0 .. PermLifetime],
            chan : [Channels -> [peer : Peers \cup {NoPeer}, left : Nat]]]

TurnTypeOK ==
    /\ tr \subseteq Requests /\ relay \in Relays \cup {NoRelay}
    /\ binding \in [Peers -> Bindings \cup {NoBinding}]
    /\ chan \in [Channels -> Peers \cup {NoPeer}] /\ next \in Channels
    /\ server \in Servers
    /\ waiting \subseteq [id : Nat, peer : Peers \cup {NoPeer}]
    /\ missed \in 0 .. 2 /\ missedPerms \in 0 .. 2 /\ refused \subseteq Peers
    /\ served \in BOOLEAN /\ wrapped \in BOOLEAN /\ closing \in BOOLEAN

Open(type) == {t \in tr : t.type = type}

\* What is under way: one attempt to allocate until there is a relay, nothing
\* that needs one before, and permissions and channels for one peer each.
Shape ==
    /\ relay = NoRelay => \A t \in tr : t.type \in {"binding", "attempt", "allocate"}
    /\ relay # NoRelay => \A t \in tr : t.type \notin {"attempt", "allocate"}
    /\ \A t, u \in Open("attempt") \cup Open("allocate") : t = u
    /\ \A t \in Open("permit") \cup Open("bind") : \E p \in Peers : t.peers = {p}
    /\ \A t \in Open("bind") : t.number \in Channels

Counted == relay # NoRelay /\ ~closing

Half == Lifetime \div 2

\* The server's allocation lasts half a lifetime longer than the client's timer.
Leased ==
    /\ relay = NoRelay => server.left \in {0, Lifetime}
    /\ Counted =>
        /\ relay.lifetime = Lifetime /\ relay.allocTimer \in 0 .. Half
        /\ served => relay.allocTimer # 0
        /\ \A t \in Open("refresh") : t.life = Lifetime /\ relay.allocTimer = Half
        /\ missed = 0 => /\ server.left >= Half
                         /\ Open("refresh") = {} => server.left >= Half + relay.allocTimer

\* How much longer than the client's timer a permission lasts.
Margin == IF missedPerms = 0 THEN PermLifetime - PermRefresh
          ELSE PermLifetime - 2 * PermRefresh

Permitted ==
    Counted =>
        /\ relay.permsTimer \in 0 .. PermRefresh
        /\ served => relay.permsTimer # 0
        /\ \A t \in Open("permits") : relay.permsTimer = PermRefresh
        /\ server.left > 0 => \A p \in Peers : relay.perms[p] = "Permitted" =>
            /\ \A t \in Open("permits") : p \in t.peers \/ server.perm[p] = PermLifetime
            /\ missedPerms < 2 =>
                /\ server.perm[p] >= Margin
                /\ Open("permits") = {} => server.perm[p] >= Margin + relay.permsTimer

\* Somewhere channel number n stands for peer p.
Means(n, p) ==
    \/ chan[n] = p \/ server.chan[n].peer = p
    \/ binding[p] # NoBinding /\ binding[p].number = n
    \/ \E t \in Open("bind") : t.number = n /\ p \in t.peers

\* A number is only used once it was assigned, for one peer, and known to the
\* client unless a request for the peer was refused.
Assigned ==
    ~wrapped => \A n \in Channels, p \in Peers : Means(n, p) =>
        /\ n < next /\ \A q \in Peers : Means(n, q) => q = p
        /\ p \notin refused => chan[n] = p /\ binding[p] # NoBinding

\* The transaction that will answer a call, or the one before it.
Serves(t, w) ==
    \/ t.type = "attempt" /\ w.id = NextId(t.id)
    \/ t.type \in {"binding", "allocate"} /\ t.id = w.id
    \/ t.type = "permit" /\ t.id = w.id /\ t.peers = {w.peer}

\* The call is attended to, or one of the exceptions applies.
AttendedTo(w) == w.peer \in refused \/ w.id \in misnamed \/ \E t \in tr : Serves(t, w)

\* The calls that wait have the transaction that will answer them, and a
\* permission that is asked for has an entry unless one for the peer was refused.
\* Only the second request of allocate has an id that was not drawn.
Attending ==
    /\ \A t, u \in tr : t.id = u.id => t = u
    /\ \A t \in tr : t.type # "allocate" => t.id \in 1 .. MaxTransactions
    /\ ~closing => \A w \in waiting : AttendedTo(w)
    /\ Counted => \A t \in Open("permit") : \A p \in t.peers :
        relay.perms[p] = "None" => p \in refused

TurnInv == limit \in Limits /\ TurnTypeOK /\ Shape /\ Leased /\ Permitted /\ Assigned /\ Attending

-----------------------------------------------------------------------------
(***************************************************************************)
(* Transactions and the server.                                            *)
(***************************************************************************)

\* The requests of one transaction, whatever its id.
Copy(t, r) == /\ t.type = r.type /\ t.nonce = r.nonce /\ t.peers = r.peers
              /\ t.number = r.number /\ t.life = r.life

\* perform_transaction adds one transaction with the id of the request.
LEMMA PerformedAs ==
    ASSUME NEW id \in Nat, NEW r \in Requests, NEW gone, PerformAs(id, r, gone)
    PROVE  \E t \in Requests : tr' = (tr \ gone) \cup {t} /\ Copy(t, r) /\ t.id = id
<1> DEFINE t == [r EXCEPT !.id = id]
<1>1. t \in Requests /\ t.id = id /\ Copy(t, r)
  BY Zenon DEF Requests, Copy
<1>2. tr' = (tr \ gone) \cup {t}
  BY Zenon DEF PerformAs
<1> QED BY <1>1, <1>2, Zenon

\* The id is one nothing else has.
LEMMA Performed ==
    ASSUME NEW r \in Requests, NEW gone, Perform(r, gone)
    PROVE  \E t \in Requests : /\ tr' = (tr \ gone) \cup {t} /\ Copy(t, r)
                               /\ t.id = FreeId /\ FreeId \notin UsedIds
                               /\ t.id \in 1 .. MaxTransactions
<1>1. FreeId \in FreeIds /\ PerformAs(FreeId, r, gone)
  BY Zenon DEF Perform, FreeId
<1>2. FreeId \in 1 .. MaxTransactions /\ FreeId \in Nat /\ FreeId \notin UsedIds
  BY <1>1, TurnAssumption DEF FreeIds
<1>3. PICK t \in Requests : tr' = (tr \ gone) \cup {t} /\ Copy(t, r) /\ t.id = FreeId
  BY <1>1, <1>2, PerformedAs, Zenon
<1> QED BY <1>2, <1>3, Zenon

\* So does every one of several.
LEMMA PerformedAll ==
    ASSUME NEW rs, rs \subseteq Requests, NEW gone, PerformAll(rs, gone)
    PROVE  /\ tr \ gone \subseteq tr'
           /\ \A r \in rs : \E t \in tr' : Copy(t, r)
           /\ \A t \in tr' : \/ t \in tr \ gone
                             \/ t \in Requests /\ t.id \notin UsedIds /\ \E r \in rs : Copy(t, r)
           /\ \A t, u \in tr' \ tr : t.id = u.id => t = u
           /\ \A t \in tr' : t \in tr \/ t.id \in 1 .. MaxTransactions
<1> DEFINE f == CHOOSE g \in Numberings(rs) : TRUE
           Given(r) == [r EXCEPT !.id = f[r]]
<1>1. f \in Numberings(rs) /\ tr' = (tr \ gone) \cup {Given(r) : r \in rs}
  BY Zenon DEF PerformAll
<1>2. f \in [rs -> FreeIds] /\ \A q, r \in rs : f[q] = f[r] => q = r
  BY <1>1, Zenon DEF Numberings
<1> HIDE DEF f
<1>3. \A r \in rs : /\ Given(r) \in Requests /\ Given(r).id = f[r] /\ Given(r).id \notin UsedIds
                    /\ Copy(Given(r), r)
  BY <1>2, TurnAssumption DEF Requests, Copy, FreeIds
<1> HIDE DEF Given
<1>4. \A t \in tr' : \/ t \in tr \ gone
                     \/ t \in Requests /\ t.id \notin UsedIds /\ \E r \in rs : Copy(t, r)
  BY <1>1, <1>3, Zenon
<1>5. \A t, u \in tr' \ tr : t.id = u.id => t = u
  BY <1>1, <1>2, <1>3
<1>6. \A t \in tr' : t \in tr \/ t.id \in 1 .. MaxTransactions
  BY <1>1, <1>2, <1>3, Zenon DEF FreeIds
<1> QED BY <1>1, <1>3, <1>4, <1>5, <1>6, Zenon

\* The first request of allocate has an id of its own, and so has the second.
LEMMA Allocated ==
    ASSUME Allocate
    PROVE  \E t \in Requests :
              /\ tr' = (tr \ {}) \cup {t} /\ t.type = "attempt"
              /\ t.id \in 1 .. MaxTransactions /\ t.id \notin UsedIds /\ NextId(t.id) \in Nat
              /\ waiting' = waiting \cup {[id |-> NextId(t.id), peer |-> NoPeer]}
<1> DEFINE r == Req("attempt", 0, {}, 0, 0)
<1>1. FreePair \in FreePairs
  BY Zenon DEF Allocate, FreePair
<1>2. /\ FreePair \in 1 .. MaxTransactions /\ FreePair \notin UsedIds
      /\ FreePair \in Nat /\ NextId(FreePair) \in Nat
  BY <1>1, TurnAssumption DEF FreePairs, FreeIds, NextId
<1>3. r \in Requests /\ r.type = "attempt" /\ PerformAs(FreePair, r, {})
  BY Zenon DEF Allocate, Req, Requests
<1> HIDE DEF r
<1>4. PICK t \in Requests : tr' = (tr \ {}) \cup {t} /\ Copy(t, r) /\ t.id = FreePair
  BY <1>2, <1>3, PerformedAs, Zenon
<1>5. waiting' = waiting \cup {[id |-> NextId(FreePair), peer |-> NoPeer]}
  BY Zenon DEF Allocate
<1> QED BY <1>2, <1>3, <1>4, <1>5, Zenon DEF Copy

\* The two timers' requests.
LEMMA TimersAsk ==
    ASSUME TurnTypeOK
    PROVE  /\ TimerRequests \subseteq Requests
           /\ \A r \in TimerRequests : relay # NoRelay /\ r.type \in {"refresh", "permits"}
           /\ AllocDue => \E r \in TimerRequests : r.type = "refresh"
           /\ PermsDue /\ KnownPeers # {} => \E r \in TimerRequests : r.type = "permits"
           /\ \A r \in TimerRequests :
                /\ r.type = "refresh" => AllocDue /\ r.life = relay.lifetime
                /\ r.type = "permits" => PermsDue /\ r.peers = KnownPeers
<1>1. relay # NoRelay => relay \in Relays
  BY Zenon DEF TurnTypeOK
<1>2. KnownPeers \in SUBSET Peers
  BY Zenon DEF KnownPeers
<1> DEFINE q == Req("refresh", relay.nonce, {}, 0, relay.lifetime)
           r == Req("permits", relay.nonce, KnownPeers, 0, 0)
<1>3. relay # NoRelay => q \in Requests /\ r \in Requests
  BY <1>1, <1>2, Zenon DEF Requests, Req, Relays
<1>4. /\ q.type = "refresh" /\ q.life = relay.lifetime
      /\ r.type = "permits" /\ r.peers = KnownPeers
  BY Zenon DEF Req
<1> HIDE DEF q, r
<1>5. /\ AllocDue => q \in TimerRequests
      /\ PermsDue /\ KnownPeers # {} => r \in TimerRequests
      /\ \A s \in TimerRequests : (AllocDue /\ s = q) \/ (PermsDue /\ s = r)
  BY Zenon DEF TimerRequests, q, r
<1>6. AllocDue \/ PermsDue => relay # NoRelay
  BY Zenon DEF AllocDue, PermsDue
<1> QED BY <1>3, <1>4, <1>5, <1>6, Zenon

\* What the server does with a request.
LEMMA Served ==
    ASSUME TurnTypeOK, Shape, NEW t \in tr,
           server' = IF Class(t) = "success" THEN Granted(t) ELSE server
    PROVE  /\ server' \in Servers
           /\ Class(t) # "success" => server' = server
           /\ t.type \notin {"allocate", "refresh"} => server'.left = server.left
           /\ Class(t) = "success" /\ t.type = "allocate" =>
                server'.left = IF server.left = 0 THEN Lifetime ELSE server.left
           /\ Class(t) = "success" /\ t.type = "refresh" /\ t.life # 0 => server'.left = Lifetime
           /\ t.type = "refresh" /\ t.life # 0 => server'.perm = server.perm
           /\ t.type # "refresh" => \A p \in Peers : server'.perm[p] =
                IF Class(t) = "success" /\ t.type \in {"permit", "permits", "bind"} /\ p \in t.peers
                THEN PermLifetime ELSE server.perm[p]
           /\ \A n \in Channels : \/ server'.chan[n].peer \in {server.chan[n].peer, NoPeer}
                                  \/ t.type = "bind" /\ n = t.number /\ server'.chan[n].peer \in t.peers
           /\ Class(t) = "success" /\ t.type \in {"permit", "permits", "refresh", "bind"} =>
                server.left > 0
<1>1. server \in Servers /\ t \in Requests
  BY Zenon DEF TurnTypeOK
<1>2. CASE Class(t) # "success"
  <2>1. server' = server
    BY <1>2, Zenon
  <2> QED BY <1>1, <1>2, <2>1, Zenon
<1>3. CASE Class(t) = "success" /\ t.type \in {"binding", "attempt"}
  <2>1. server' = server
    BY <1>3, Zenon DEF Granted
  <2> QED BY <1>1, <1>3, <2>1, Zenon
<1>4. CASE Class(t) = "success" /\ t.type = "allocate"
  <2>1. server' = [server EXCEPT !.left = IF @ = 0 THEN Lifetime ELSE @]
    BY <1>4, Zenon DEF Granted
  <2> QED BY <1>1, <1>4, <2>1, TurnAssumption, Zenon DEF Servers
<1>5. ASSUME Class(t) = "success", t.type \in {"permit", "permits", "refresh", "bind"}
      PROVE  server.left > 0
  BY <1>1, <1>5 DEF Class, Refusal, Servers
<1>6. CASE Class(t) = "success" /\ t.type = "refresh" /\ t.life # 0
  <2>1. server' = [server EXCEPT !.left = Lifetime]
    BY <1>6, Zenon DEF Granted
  <2> QED BY <1>1, <1>5, <1>6, <2>1, TurnAssumption, Zenon DEF Servers
<1>7. CASE Class(t) = "success" /\ t.type = "refresh" /\ t.life = 0
  <2>1. server' = EmptyServer(server.nonce)
    BY <1>7, Zenon DEF Granted
  <2> QED BY <1>1, <1>5, <1>7, <2>1 DEF Servers, EmptyServer, PermLifetime
<1> DEFINE perm == [p \in Peers |-> IF p \in t.peers THEN PermLifetime ELSE server.perm[p]]
<1>8. perm \in [Peers -> 0 .. PermLifetime]
  BY <1>1 DEF Servers, PermLifetime
<1>9. CASE Class(t) = "success" /\ t.type \in {"permit", "permits"}
  <2>1. server' = [server EXCEPT !.perm = perm]
    BY <1>9, Zenon DEF Granted
  <2> QED BY <1>1, <1>5, <1>8, <1>9, <2>1 DEF Servers
<1>10. CASE Class(t) = "success" /\ t.type = "bind"
  <2> DEFINE peer == CHOOSE p \in t.peers : TRUE
             given == [peer |-> peer, left |-> ChannelLifetime]
             table == [server.chan EXCEPT ![t.number] = given]
  <2>1. t.number \in Channels /\ peer \in t.peers /\ peer \in Peers
    BY <1>10, Zenon DEF Shape, Open
  <2>2. server' = [[server EXCEPT !.perm = perm] EXCEPT !.chan = table]
    BY <1>10, Zenon DEF Granted
  <2> HIDE DEF peer
  <2>3. given \in [peer : Peers \cup {NoPeer}, left : Nat] /\ given.peer = peer
    BY <2>1, Zenon DEF ChannelLifetime
  <2> HIDE DEF given
  <2>4. /\ table \in [Channels -> [peer : Peers \cup {NoPeer}, left : Nat]]
        /\ \A n \in Channels : table[n] = IF n = t.number THEN given ELSE server.chan[n]
    BY <1>1, <2>1, <2>3, Zenon DEF Servers
  <2> HIDE DEF table
  <2>5. /\ server' \in Servers /\ server'.left = server.left /\ server'.perm = perm
        /\ server'.chan = table
    BY <1>1, <1>8, <2>2, <2>4, Zenon DEF Servers
  <2> QED BY <1>5, <1>10, <2>1, <2>3, <2>4, <2>5, Zenon
<1> QED BY <1>1, <1>2, <1>3, <1>4, <1>6, <1>7, <1>9, <1>10, Zenon DEF Requests

-----------------------------------------------------------------------------
(***************************************************************************)
(* Types, and the transactions under way.                                  *)
(***************************************************************************)

\* There is a relay exactly if its record has one.
LEMMA Relayed ==
    ASSUME TurnTypeOK
    PROVE  /\ relay # NoRelay => relay \in Relays
           /\ \A r \in Relays : r # NoRelay
           /\ \A s \in Bindings : s # NoBinding /\ s.number # -1
<1>1. \A r \in Relays : r # NoRelay
  <2>1. NoRelay.lifetime = -1 /\ \A r \in Relays : r.lifetime \in Nat
    BY Zenon DEF NoRelay, Relays
  <2> QED BY <2>1
<1>2. \A s \in Bindings : s # NoBinding /\ s.number # -1
  <2>1. NoBinding.number = -1 /\ \A s \in Bindings : s.number \in Nat
    BY TurnAssumption DEF NoBinding, Bindings, Channels
  <2> QED BY <2>1
<1> QED BY <1>1, <1>2, Zenon DEF TurnTypeOK

\* A unit of time passes for the relay.
LEMMA Ticked ==
    ASSUME TurnTypeOK, Tick
    PROVE  /\ relay \in Relays /\ relay' \in Relays
           /\ relay'.lifetime = relay.lifetime /\ relay'.perms = relay.perms
           /\ relay'.allocTimer = relay.allocTimer - 1
           /\ relay'.permsTimer = relay.permsTimer - 1
<1>1. relay \in Relays
  BY Relayed, Zenon DEF Tick
<1> DEFINE m == relay.allocTimer - 1
           n == relay.permsTimer - 1
<1>2. relay' = [[relay EXCEPT !.allocTimer = m] EXCEPT !.permsTimer = n]
  BY Zenon DEF Tick
<1>3. m \in Int /\ n \in Int
  BY <1>1 DEF Relays
<1>4. /\ relay' \in Relays /\ relay'.lifetime = relay.lifetime /\ relay'.perms = relay.perms
      /\ relay'.allocTimer = m /\ relay'.permsTimer = n
  <2> HIDE DEF m, n
  <2> QED BY <1>1, <1>2, <1>3, Zenon DEF Relays
<1> QED BY <1>1, <1>4, Zenon

LEMMA NumbersTyped == Channels \subseteq Nat /\ MinChannel \in Channels
BY TurnAssumption DEF Channels

\* The next channel number is one.
LEMMA AfterTyped == \A n \in Channels : After(n) \in Channels
BY TurnAssumption DEF Channels, After

LEMMA TypeInit == TurnInit => TurnTypeOK
<1> SUFFICES ASSUME TurnInit PROVE TurnTypeOK
  OBVIOUS
<1>1. EmptyServer(1) \in Servers
  BY DEF EmptyServer, Servers, PermLifetime
<1>2. binding \in [Peers -> Bindings \cup {NoBinding}] /\ chan \in [Channels -> Peers \cup {NoPeer}]
  BY Zenon DEF TurnInit
<1>3. served \in BOOLEAN /\ wrapped \in BOOLEAN /\ closing \in BOOLEAN
  BY Zenon DEF TurnInit
<1>4. relay \in Relays \cup {NoRelay}
  BY Zenon DEF TurnInit
<1> QED BY <1>1, <1>2, <1>3, <1>4, NumbersTyped DEF TurnInit, TurnTypeOK

\* One request more.
LEMMA AskedTyped ==
    ASSUME TurnTypeOK, NEW r \in Requests, Perform(r, {})
    PROVE  /\ tr' \subseteq Requests /\ FreeId \in Nat
           /\ \A t \in tr' : t \in tr \/ Copy(t, r)
<1>1. PICK t \in Requests : tr' = (tr \ {}) \cup {t} /\ Copy(t, r) /\ t.id = FreeId
  BY Performed, Zenon
<1> QED BY <1>1, Zenon DEF TurnTypeOK, Requests

\* The application's calls.
LEMMA CallsTyped ==
    ASSUME TurnTypeOK, Shape
    PROVE  /\ SendBindingRequest => TurnTypeOK' /\ Shape'
           /\ Allocate => TurnTypeOK' /\ Shape'
           /\ \A p \in Peers : CreatePermission(p) => TurnTypeOK' /\ Shape'
           /\ \A p \in Peers : SendTo(p) => TurnTypeOK' /\ Shape'
           /\ CloseRelay => TurnTypeOK' /\ Shape'
           /\ Close => TurnTypeOK' /\ Shape'
<1>1. ASSUME SendBindingRequest PROVE TurnTypeOK' /\ Shape'
  <2> DEFINE r == Req("binding", 0, {}, 0, 0)
  <2>1. Perform(r, {}) /\ r \in Requests /\ \A t : Copy(t, r) => t.type = "binding"
    BY <1>1, Zenon DEF SendBindingRequest, Req, Requests, Copy
  <2> HIDE DEF r
  <2>2. tr' \subseteq Requests /\ FreeId \in Nat /\ \A t \in tr' : t \in tr \/ t.type = "binding"
    BY <2>1, AskedTyped, Zenon
  <2>3. TurnTypeOK'
    BY <1>1, <2>2 DEF SendBindingRequest, TurnTypeOK, KeepBindings, KeepServer, KeepHistory, history
  <2>4. Shape'
    BY <1>1, <2>2, Zenon DEF SendBindingRequest, Shape, Open
  <2> QED BY <2>3, <2>4, Zenon
<1>2. ASSUME Allocate PROVE TurnTypeOK' /\ Shape'
  <2>1. PICK t \in Requests :
           /\ tr' = (tr \ {}) \cup {t} /\ t.type = "attempt" /\ NextId(t.id) \in Nat
           /\ waiting' = waiting \cup {[id |-> NextId(t.id), peer |-> NoPeer]}
    BY <1>2, Allocated, Zenon
  <2>2. waiting' \subseteq [id : Nat, peer : Peers \cup {NoPeer}]
    <3>1. [id |-> NextId(t.id), peer |-> NoPeer] \in [id : Nat, peer : Peers \cup {NoPeer}]
      BY <2>1
    <3> QED BY <2>1, <3>1, Zenon DEF TurnTypeOK
  <2>3. TurnTypeOK'
    BY <1>2, <2>1, <2>2, Zenon DEF Allocate, TurnTypeOK, KeepBindings, KeepServer, KeepHistory, history
  <2>4. Shape'
    BY <1>2, <2>1, Zenon DEF Allocate, Shape, Open
  <2> QED BY <2>3, <2>4, Zenon
<1>3. ASSUME NEW p \in Peers, CreatePermission(p) PROVE TurnTypeOK' /\ Shape'
  <2> DEFINE r == Req("permit", relay.nonce, {p}, 0, 0)
  <2>1. relay \in Relays
    BY <1>3, Relayed, Zenon DEF CreatePermission
  <2>2. Perform(r, {}) /\ r \in Requests /\ \A t : Copy(t, r) => t.type = "permit" /\ t.peers = {p}
    BY <1>3, <2>1, Zenon DEF CreatePermission, Relays, Req, Requests, Copy
  <2> HIDE DEF r
  <2>3. /\ tr' \subseteq Requests /\ FreeId \in Nat
        /\ \A t \in tr' : t \in tr \/ (t.type = "permit" /\ t.peers = {p})
    BY <2>2, AskedTyped, Zenon
  <2>4. relay' \in Relays
    BY <1>3, <2>1, Zenon DEF CreatePermission, Relays
  <2>5. TurnTypeOK'
    BY <1>3, <2>3, <2>4 DEF CreatePermission, TurnTypeOK, KeepBindings, KeepServer, KeepHistory, history
  <2>6. Shape'
    BY <1>3, <2>3, <2>4, Relayed, Zenon DEF CreatePermission, Shape, Open
  <2> QED BY <2>5, <2>6, Zenon
<1>4. ASSUME NEW p \in Peers, SendTo(p) PROVE TurnTypeOK' /\ Shape'
  <2>1. relay \in Relays
    BY <1>4, Relayed, Zenon DEF SendTo
  <2>2. ASSUME NEW n \in Channels, Perform(Req("bind", relay.nonce, {p}, n, 0), {})
        PROVE  tr' \subseteq Requests /\ Shape'
    <3> DEFINE r == Req("bind", relay.nonce, {p}, n, 0)
    <3>1. /\ Perform(r, {}) /\ r \in Requests
          /\ \A t : Copy(t, r) => t.type = "bind" /\ t.peers = {p} /\ t.number = n
      BY <2>1, <2>2, NumbersTyped, Zenon DEF Relays, Req, Requests, Copy
    <3> HIDE DEF r
    <3>2. /\ tr' \subseteq Requests
          /\ \A t \in tr' : t \in tr \/ (t.type = "bind" /\ t.peers = {p} /\ t.number = n)
      BY <3>1, AskedTyped, Zenon
    <3>3. Shape'
      BY <1>4, <3>2, Zenon DEF SendTo, Shape, Open
    <3> QED BY <3>2, <3>3, Zenon
  <2>3. CASE binding[p] = NoBinding
    <3>1. Create(p) /\ Perform(Req("bind", relay.nonce, {p}, next, 0), {})
      BY <1>4, <2>3, Zenon DEF SendTo
    <3>2. [number |-> next, st |-> "Request", age |-> 0] \in Bindings
      BY Zenon DEF Bindings, TurnTypeOK
    <3>3. binding' \in [Peers -> Bindings \cup {NoBinding}]
      BY <3>1, <3>2, Zenon DEF Create, TurnTypeOK
    <3>4. chan' \in [Channels -> Peers \cup {NoPeer}] /\ next' \in Channels /\ wrapped' \in BOOLEAN
      BY <3>1, AfterTyped, Zenon DEF Create, TurnTypeOK
    <3>5. tr' \subseteq Requests /\ Shape'
      BY <2>2, <3>1, Zenon DEF TurnTypeOK
    <3> QED BY <1>4, <3>3, <3>4, <3>5, Zenon DEF SendTo, TurnTypeOK, KeepServer
  <2>4. CASE binding[p] # NoBinding
    <3>1. /\ binding' = [binding EXCEPT ![p].st = "Refresh"]
          /\ Perform(Req("bind", relay.nonce, {p}, binding[p].number, 0), {})
          /\ UNCHANGED <<chan, next, wrapped>>
      BY <1>4, <2>4, Zenon DEF SendTo
    <3>2. binding[p] \in Bindings
      BY <2>4, Zenon DEF TurnTypeOK
    <3>3. [binding[p] EXCEPT !.st = "Refresh"] \in Bindings /\ binding[p].number \in Channels
      BY <3>2, Zenon DEF Bindings
    <3>4. binding' \in [Peers -> Bindings \cup {NoBinding}]
      BY <3>1, <3>3, Zenon DEF TurnTypeOK
    <3>5. tr' \subseteq Requests /\ Shape'
      BY <2>2, <3>1, <3>3, Zenon
    <3> QED BY <1>4, <3>1, <3>4, <3>5, Zenon DEF SendTo, TurnTypeOK, KeepServer
  <2> QED BY <2>3, <2>4, Zenon
<1>5. ASSUME CloseRelay PROVE TurnTypeOK' /\ Shape'
  <2> DEFINE r == Req("refresh", relay.nonce, {}, 0, 0)
  <2>1. relay \in Relays
    BY <1>5, Relayed, Zenon DEF CloseRelay
  <2>2. Perform(r, {}) /\ r \in Requests /\ \A t : Copy(t, r) => t.type = "refresh"
    BY <1>5, <2>1, Zenon DEF CloseRelay, Relays, Req, Requests, Copy
  <2> HIDE DEF r
  <2>3. tr' \subseteq Requests /\ \A t \in tr' : t \in tr \/ t.type = "refresh"
    BY <2>2, AskedTyped, Zenon
  <2>4. TurnTypeOK'
    BY <1>5, <2>3, Zenon DEF CloseRelay, TurnTypeOK, KeepBindings, KeepServer
  <2>5. Shape'
    BY <1>5, <2>3, Zenon DEF CloseRelay, Shape, Open
  <2> QED BY <2>4, <2>5, Zenon
<1>6. ASSUME Close PROVE TurnTypeOK' /\ Shape'
  BY <1>6, Zenon DEF Close, TurnTypeOK, Shape, Open, KeepBindings
<1> QED BY <1>1, <1>2, <1>3, <1>4, <1>5, <1>6, Zenon

\* A unit of time at the server.
LEMMA Aging ==
    ASSUME TurnTypeOK
    PROVE  /\ Aged \in Servers
           /\ server.left > 1 => /\ Aged.left = server.left - 1
                                 /\ \A p \in Peers : Aged.perm[p] = Less(server.perm[p])
           /\ server.left <= 1 => Aged.left = 0
           /\ \A n \in Channels : Aged.chan[n].peer \in {server.chan[n].peer, NoPeer}
<1>1. server \in Servers
  BY Zenon DEF TurnTypeOK
<1>2. CASE server.left <= 1
  <2>1. Aged = EmptyServer(server.nonce)
    BY <1>2, Zenon DEF Aged
  <2>2. Aged \in Servers /\ Aged.left = 0 /\ \A n \in Channels : Aged.chan[n].peer = NoPeer
    BY <1>1, <2>1 DEF EmptyServer, Servers, PermLifetime
  <2> QED BY <1>1, <1>2, <2>2 DEF Servers
<1>3. CASE ~(server.left <= 1)
  <2> DEFINE perm == [p \in Peers |-> Less(server.perm[p])]
             table == [n \in Channels |-> IF server.chan[n].left <= 1 THEN [peer |-> NoPeer, left |-> 0]
                                          ELSE [server.chan[n] EXCEPT !.left = @ - 1]]
  <2>1. Aged = [nonce |-> server.nonce, left |-> server.left - 1, perm |-> perm, chan |-> table]
    BY <1>3, Zenon DEF Aged
  <2>2. perm \in [Peers -> 0 .. PermLifetime]
    BY <1>1 DEF Servers, PermLifetime, Less
  <2>3. /\ table \in [Channels -> [peer : Peers \cup {NoPeer}, left : Nat]]
        /\ \A n \in Channels : table[n].peer \in {server.chan[n].peer, NoPeer}
    BY <1>1 DEF Servers
  <2>4. server.nonce \in Nat /\ server.left - 1 \in Nat
    BY <1>1, <1>3 DEF Servers
  <2> HIDE DEF table
  <2>5. /\ Aged \in Servers /\ Aged.left = server.left - 1 /\ Aged.perm = perm
        /\ Aged.chan = table
    BY <1>1, <2>1, <2>2, <2>3, <2>4, Zenon DEF Servers
  <2> QED BY <1>3, <2>3, <2>5, Zenon
<1> QED BY <1>2, <1>3, Zenon

\* Timeouts, the nonce and the clock.
LEMMA TimeTyped ==
    ASSUME TurnTypeOK, Shape
    PROVE  /\ \A gone \in SUBSET tr : TurnTimeout(gone) => TurnTypeOK' /\ Shape'
           /\ RenewNonce => TurnTypeOK' /\ Shape'
           /\ Tick => TurnTypeOK' /\ Shape'
<1>1. ASSUME NEW gone \in SUBSET tr, TurnTimeout(gone) PROVE TurnTypeOK' /\ Shape'
  <2>1. PerformAll(TimerRequests, gone) /\ TimerRequests \subseteq Requests
    BY <1>1, TimersAsk, Zenon DEF TurnTimeout
  <2>2. \A t \in tr' : \/ t \in tr
                       \/ t \in Requests /\ relay # NoRelay /\ t.type \in {"refresh", "permits"}
    BY <2>1, PerformedAll, TimersAsk DEF Copy
  <2>3. tr' \subseteq Requests
    BY <2>2, Zenon DEF TurnTypeOK
  <2>4. relay' \in Relays \cup {NoRelay} /\ (relay' = NoRelay <=> relay = NoRelay)
    <3>1. CASE relay = NoRelay
      BY <1>1, <3>1, Zenon DEF TurnTimeout
    <3>2. CASE relay # NoRelay
      <4>1. relay \in Relays /\ RefreshAfter(relay.lifetime) \in Int
        BY <3>2, Relayed DEF RefreshAfter, Relays
      <4> DEFINE m == IF AllocDue THEN relay.allocTimer + RefreshAfter(relay.lifetime)
                      ELSE relay.allocTimer
                 n == IF PermsDue THEN PermAfter(relay.permsTimer) ELSE relay.permsTimer
      <4>2. relay' = [[relay EXCEPT !.allocTimer = m] EXCEPT !.permsTimer = n]
        BY <1>1, <3>2, Zenon DEF TurnTimeout
      <4>3. m \in Int /\ n \in Int
        BY <4>1 DEF Relays, PermAfter, PermRefresh
      <4> HIDE DEF m, n
      <4>4. relay' \in Relays
        BY <4>1, <4>2, <4>3, Zenon DEF Relays
      <4> QED BY <3>2, <4>4, Relayed, Zenon
    <3> QED BY <3>1, <3>2, Zenon
  <2>5. missed' \in 0 .. 2 /\ missedPerms' \in 0 .. 2
    BY <1>1 DEF TurnTimeout, CountIf, TurnTypeOK
  <2>6. waiting' \subseteq waiting /\ served' \in BOOLEAN
    BY <1>1, Zenon DEF TurnTimeout, Told
  <2>7. TurnTypeOK'
    BY <1>1, <2>3, <2>4, <2>5, <2>6, Zenon DEF TurnTimeout, TurnTypeOK, KeepBindings
  <2>8. Shape'
    BY <2>2, <2>4, Zenon DEF Shape, Open
  <2> QED BY <2>7, <2>8, Zenon
<1>2. ASSUME RenewNonce PROVE TurnTypeOK' /\ Shape'
  <2>1. server' \in Servers
    BY <1>2 DEF RenewNonce, TurnTypeOK, Servers
  <2>2. TurnTypeOK'
    BY <1>2, <2>1, Zenon DEF RenewNonce, TurnTypeOK, client, history
  <2> QED BY <1>2, <2>2, Zenon DEF RenewNonce, Shape, Open, client
<1>3. ASSUME Tick PROVE TurnTypeOK' /\ Shape'
  <2>1. server' \in Servers
    BY <1>3, Aging, Zenon DEF Tick
  <2>2. relay \in Relays /\ relay' \in Relays
    BY <1>3, Ticked, Zenon
  <2>3. binding' \in [Peers -> Bindings \cup {NoBinding}]
    <3>1. \A p \in Peers : binding[p] # NoBinding =>
            [binding[p] EXCEPT !.age = IF @ > PermLifetime THEN @ ELSE @ + 1] \in Bindings
      BY DEF TurnTypeOK, Bindings, PermLifetime
    <3> QED BY <1>3, <3>1, Zenon DEF Tick
  <2>4. TurnTypeOK'
    BY <1>3, <2>1, <2>2, <2>3, Zenon DEF Tick, TurnTypeOK, history
  <2>5. Shape'
    BY <1>3, <2>2, Relayed, Zenon DEF Tick, Shape, Open
  <2> QED BY <2>4, <2>5, Zenon
<1> QED BY <1>1, <1>2, <1>3, Zenon

\* The relay with the nonce of an answer is as it was otherwise (set_nonce_from_msg).
LEMMA NonceTaken ==
    ASSUME TurnTypeOK, NEW t, relay # NoRelay
    PROVE  LET r == WithNonce(Answer(t))
           IN  /\ r \in Relays /\ r.lifetime = relay.lifetime /\ r.perms = relay.perms
               /\ r.allocTimer = relay.allocTimer /\ r.permsTimer = relay.permsTimer
<1>1. relay \in Relays /\ server.nonce \in Nat
  BY Relayed, Zenon DEF TurnTypeOK, Servers
<1> DEFINE m == IF Answer(t).class = "stale" THEN Answer(t).nonce ELSE relay.nonce
<1>2. m \in Nat /\ WithNonce(Answer(t)) = [relay EXCEPT !.nonce = m]
  BY <1>1, Zenon DEF Answer, WithNonce, Relays
<1> HIDE DEF m
<1> QED BY <1>1, <1>2, Zenon DEF Relays

\* A transaction that is answered has ended; an attempt goes on with the nonce.
LEMMA Answered ==
    ASSUME TurnTypeOK, Shape, NEW t \in tr, HandleStunMessage(t, Answer(t))
    PROVE  /\ t.type # "attempt" => tr' = tr \ {t}
           /\ t.type = "attempt" => \E u \in Requests :
                tr' = (tr \ {t}) \cup {u} /\ u.type = "allocate" /\ u.id = NextId(t.id)
<1>1. t \in Requests /\ server.nonce \in Nat /\ NextId(t.id) \in Nat
  BY TurnAssumption DEF TurnTypeOK, Servers, Requests, NextId
<1>2. CASE t.type # "attempt"
  BY <1>2, Zenon DEF HandleStunMessage, BindingAnswered, AllocateAnswered, PermitAnswered,
              PermitsAnswered, RefreshAnswered, BindAnswered
<1>3. CASE t.type = "attempt"
  <2> DEFINE r == Req("allocate", Answer(t).nonce, {}, 0, 0)
  <2>1. PerformAs(NextId(t.id), r, {t})
    BY <1>3, Zenon DEF HandleStunMessage, AllocateAnswered
  <2>2. r \in Requests /\ r.type = "allocate"
    BY <1>1, Zenon DEF Req, Requests, Answer
  <2> HIDE DEF r
  <2>3. PICK u \in Requests : tr' = (tr \ {t}) \cup {u} /\ Copy(u, r) /\ u.id = NextId(t.id)
    BY <1>1, <2>1, <2>2, PerformedAs, Zenon
  <2> QED BY <1>3, <2>2, <2>3, Zenon DEF Copy
<1> QED BY <1>2, <1>3, Zenon

\* Every other transaction stays, and no other begins.
LEMMA OthersStay ==
    ASSUME TurnTypeOK, Shape, NEW t \in tr, HandleStunMessage(t, Answer(t))
    PROVE  tr \ {t} \subseteq tr' /\ \A u \in tr' : u \in tr \/ u.type = "allocate"
<1>1. CASE t.type # "attempt"
  BY <1>1, Answered, Zenon
<1>2. CASE t.type = "attempt"
  <2>1. PICK u \in Requests : tr' = (tr \ {t}) \cup {u} /\ u.type = "allocate"
    BY <1>2, Answered, Zenon
  <2> QED BY <2>1, Zenon
<1> QED BY <1>1, <1>2, Zenon

\* What an answer makes of the relay.
LEMMA RelayAnswered ==
    ASSUME TurnTypeOK, Shape, NEW t \in tr, HandleStunMessage(t, Answer(t))
    PROVE  /\ relay = NoRelay =>
                \/ relay' = NoRelay
                \/ /\ t.type = "allocate" /\ Class(t) = "success"
                   /\ relay' \in Relays /\ relay'.lifetime = Lifetime
                   /\ relay'.allocTimer = Half /\ relay'.permsTimer = PermRefresh
                   /\ relay'.perms = [p \in Peers |-> "None"]
           /\ relay # NoRelay =>
                /\ relay' \in Relays
                /\ relay'.allocTimer = relay.allocTimer /\ relay'.permsTimer = relay.permsTimer
                /\ relay'.lifetime = IF t.type = "refresh" /\ Class(t) = "success"
                                     THEN Answer(t).life ELSE relay.lifetime
                /\ t.type # "permit" => relay'.perms = relay.perms
                /\ t.type = "permit" => \E p \in Peers : t.peers = {p} /\ relay'.perms =
                     [relay.perms EXCEPT ![p] = IF Class(t) = "success" THEN PermissionGranted(p)
                                                ELSE "None"]
<1>1. t \in Requests /\ Answer(t).class = Class(t)
  BY Zenon DEF TurnTypeOK, Answer
<1>2. CASE relay = NoRelay
  <2>1. t.type \in {"binding", "attempt", "allocate"}
    BY <1>2, Zenon DEF Shape
  <2>2. CASE t.type # "allocate" \/ Class(t) # "success"
    BY <1>1, <1>2, <2>1, <2>2, Zenon DEF HandleStunMessage, BindingAnswered, AllocateAnswered
  <2>3. CASE t.type = "allocate" /\ Class(t) = "success"
    <3>1. relay' = [lifetime |-> Answer(t).life, nonce |-> t.nonce,
                    perms |-> [p \in Peers |-> "None"],
                    allocTimer |-> RefreshAfter(Answer(t).life), permsTimer |-> PermRefresh]
      BY <1>1, <2>3, Zenon DEF HandleStunMessage, AllocateAnswered
    <3>2. Answer(t).life = Lifetime /\ Half \in Int /\ t.nonce \in Nat
      BY <1>1, <2>3, TurnAssumption DEF Answer, Half, Requests
    <3>3. RefreshAfter(Answer(t).life) = Half
      BY <3>2, Zenon DEF RefreshAfter, Half
    <3> QED BY <1>2, <2>3, <3>1, <3>2, <3>3, TurnAssumption DEF Relays, PermRefresh
  <2> QED BY <2>2, <2>3, Zenon
<1>3. CASE relay # NoRelay
  <2>1. /\ t.type \in {"binding", "permit", "permits", "refresh", "bind"}
        /\ relay \in Relays /\ Answer(t).life \in Nat
    BY <1>1, <1>3, Relayed, TurnAssumption, Zenon DEF Shape, Requests, Answer
  <2> DEFINE r == WithNonce(Answer(t))
  <2>2. /\ r \in Relays /\ r.lifetime = relay.lifetime /\ r.perms = relay.perms
        /\ r.allocTimer = relay.allocTimer /\ r.permsTimer = relay.permsTimer
    BY <1>3, NonceTaken, Zenon
  <2>3. CASE t.type = "binding"
    BY <1>3, <2>1, <2>3, Zenon DEF HandleStunMessage, BindingAnswered, AllocateAnswered
  <2>4. CASE t.type = "permits" \/ t.type = "bind"
    <3>1. relay' = IF Class(t) = "success" THEN relay ELSE r
      BY <1>1, <2>4, Zenon DEF HandleStunMessage, PermitsAnswered, BindAnswered, AllocateAnswered
    <3> HIDE DEF r
    <3> QED BY <1>3, <2>1, <2>2, <2>4, <3>1, Zenon
  <2>5. CASE t.type = "refresh"
    <3>1. relay' = IF Class(t) = "success" THEN [relay EXCEPT !.lifetime = Answer(t).life] ELSE r
      BY <1>1, <2>5, Zenon DEF HandleStunMessage, RefreshAnswered, AllocateAnswered
    <3> HIDE DEF r
    <3> QED BY <1>3, <2>1, <2>2, <2>5, <3>1, Zenon DEF Relays
  <2>6. CASE t.type = "permit"
    <3>1. PermitAnswered(t, Answer(t))
      BY <2>6, Zenon DEF HandleStunMessage, AllocateAnswered
    <3>2. PICK p \in t.peers : relay' = IF Class(t) = "success"
                                        THEN [relay EXCEPT !.perms[p] = PermissionGranted(p)]
                                        ELSE [r EXCEPT !.perms[p] = "None"]
      BY <1>1, <3>1, Zenon DEF PermitAnswered
    <3>3. p \in Peers /\ t.peers = {p}
      BY <2>6, <3>2, Zenon DEF Shape, Open
    <3>4. PermissionGranted(p) \in {"None", "Idle", "Permitted"}
      BY Zenon DEF PermissionGranted
    <3> HIDE DEF r
    <3> QED BY <1>3, <2>1, <2>2, <2>6, <3>2, <3>3, <3>4, Zenon DEF Relays
  <2> QED BY <2>1, <2>3, <2>4, <2>5, <2>6, Zenon
<1> QED BY <1>2, <1>3, Zenon

\* What an answer makes of the tables of channels.
LEMMA BindingsAnswered ==
    ASSUME TurnTypeOK, Shape, NEW t \in tr, HandleStunMessage(t, Answer(t))
    PROVE  /\ next' = next /\ wrapped' = wrapped /\ closing' = closing /\ served' = served
           /\ \/ UNCHANGED <<binding, chan>>
              \/ \E p \in Peers :
                    /\ t.type = "bind" /\ t.peers = {p}
                    /\ \/ /\ chan' = chan /\ binding[p] \in Bindings
                          /\ \E s \in Bindings : /\ s.number = binding[p].number
                                                 /\ binding' = [binding EXCEPT ![p] = s]
                       \/ DeleteByAddr(p) /\ refused' = refused \cup {p}
           /\ refused \subseteq refused' /\ refused' \subseteq Peers
<1>1. UNCHANGED <<served, wrapped, closing>> /\ t \in Requests
  BY Zenon DEF HandleStunMessage, TurnTypeOK
<1>2. CASE t.type \in {"binding", "attempt", "allocate", "permits", "refresh"}
  BY <1>1, <1>2, Zenon DEF HandleStunMessage, BindingAnswered, AllocateAnswered, PermitsAnswered,
                    RefreshAnswered, KeepBindings, TurnTypeOK
<1>3. CASE t.type = "permit"
  <2>1. PermitAnswered(t, Answer(t))
    BY <1>3, Zenon DEF HandleStunMessage, AllocateAnswered
  <2> QED BY <1>1, <1>3, <2>1, Zenon DEF PermitAnswered, KeepBindings, TurnTypeOK, Requests
<1>4. CASE t.type = "bind"
  <2>1. BindAnswered(t, Answer(t))
    BY <1>4, Zenon DEF HandleStunMessage, AllocateAnswered
  <2>2. PICK p \in t.peers :
           /\ next' = next
           /\ \/ /\ binding' = [binding EXCEPT ![p] =
                        IF @ = NoBinding THEN @ ELSE [@ EXCEPT !.st = "Ready", !.age = 0]]
                 /\ UNCHANGED <<chan, refused>>
              \/ DeleteByAddr(p) /\ refused' = refused \cup {p}
    BY <2>1, Zenon DEF BindAnswered
  <2>3. p \in Peers /\ t.peers = {p}
    BY <1>4, <2>2, Zenon DEF Shape, Open
  <2>4. CASE DeleteByAddr(p) /\ refused' = refused \cup {p}
    BY <1>1, <1>4, <2>2, <2>3, <2>4, Zenon DEF TurnTypeOK
  <2>5. CASE /\ UNCHANGED <<chan, refused>> /\ binding[p] = NoBinding
             /\ binding' = [binding EXCEPT ![p] =
                        IF @ = NoBinding THEN @ ELSE [@ EXCEPT !.st = "Ready", !.age = 0]]
    <3>1. binding' = binding
      BY <2>5, Zenon DEF TurnTypeOK
    <3> QED BY <1>1, <2>2, <2>5, <3>1, Zenon DEF TurnTypeOK
  <2>6. CASE /\ UNCHANGED <<chan, refused>> /\ binding[p] # NoBinding
             /\ binding' = [binding EXCEPT ![p] =
                        IF @ = NoBinding THEN @ ELSE [@ EXCEPT !.st = "Ready", !.age = 0]]
    <3> DEFINE s == [binding[p] EXCEPT !.st = "Ready", !.age = 0]
    <3>1. binding[p] \in Bindings
      BY <2>3, <2>6, Zenon DEF TurnTypeOK
    <3>2. s \in Bindings /\ s.number = binding[p].number
      BY <3>1, Zenon DEF Bindings
    <3>3. binding' = [binding EXCEPT ![p] = s]
      BY <2>6, Zenon
    <3> HIDE DEF s
    <3> QED BY <1>1, <1>4, <2>2, <2>3, <2>6, <3>1, <3>2, <3>3, Zenon DEF TurnTypeOK
  <2> QED BY <2>2, <2>4, <2>5, <2>6, Zenon
<1> QED BY <1>1, <1>2, <1>3, <1>4, Zenon DEF Requests

\* What is counted, and who is told, when an answer arrives.
LEMMA CountsAnswered ==
    ASSUME TurnTypeOK, Shape, NEW t \in tr, HandleStunMessage(t, Answer(t))
    PROVE  /\ missed' \in 0 .. 2 /\ missedPerms' \in 0 .. 2 /\ waiting' \subseteq waiting
           /\ missed' = 0 => missed = 0 /\ (t.type = "refresh" => Class(t) = "success")
           /\ t.type # "permits" => missedPerms' = missedPerms
           /\ t.type = "permits" =>
                missedPerms' = IF Class(t) = "success" THEN 0 ELSE CountIf(missedPerms, TRUE)
<1>1. /\ t \in Requests /\ Answer(t).class = Class(t)
      /\ missed \in 0 .. 2 /\ missedPerms \in 0 .. 2
  BY Zenon DEF TurnTypeOK, Answer
<1>2. CASE t.type \in {"binding", "attempt", "allocate", "bind"}
  BY <1>1, <1>2, Zenon DEF HandleStunMessage, BindingAnswered, AllocateAnswered, BindAnswered, Told
<1>3. CASE t.type = "permits"
  BY <1>1, <1>3 DEF HandleStunMessage, PermitsAnswered, AllocateAnswered, CountIf
<1>4. CASE t.type = "refresh"
  BY <1>1, <1>4 DEF HandleStunMessage, RefreshAnswered, AllocateAnswered, CountIf
<1>5. CASE t.type = "permit"
  <2>1. PermitAnswered(t, Answer(t))
    BY <1>5, Zenon DEF HandleStunMessage, AllocateAnswered
  <2>2. missed' = missed /\ missedPerms' = missedPerms /\ waiting' \subseteq waiting
    BY <2>1, Zenon DEF PermitAnswered, Told
  <2> QED BY <1>1, <1>5, <2>2, Zenon
<1> QED BY <1>1, <1>2, <1>3, <1>4, <1>5, Zenon DEF Requests

\* The server and its answers.
LEMMA ExchangeTyped ==
    ASSUME TurnTypeOK, Shape, NEW t \in tr, NEW arrives \in BOOLEAN, Exchange(t, arrives)
    PROVE  TurnTypeOK' /\ Shape'
<1>1. server' = IF Class(t) = "success" THEN Granted(t) ELSE server
  BY Zenon DEF Exchange
<1>2. server' \in Servers
  BY <1>1, Served, Zenon
<1>3. CASE ~arrives
  <2>1. UNCHANGED <<client, now, lost, history>>
    BY <1>3, Zenon DEF Exchange
  <2> QED BY <1>2, <2>1, Zenon DEF TurnTypeOK, Shape, Open, client, history
<1>4. CASE arrives
  <2>1. HandleStunMessage(t, Answer(t))
    BY <1>4, Zenon DEF Exchange
  <2>2. tr' \subseteq Requests
    BY <2>1, Answered DEF TurnTypeOK
  <2>3. relay' \in Relays \cup {NoRelay}
    BY <2>1, RelayAnswered, Zenon
  <2> DEFINE Tables == /\ binding' \in [Peers -> Bindings \cup {NoBinding}]
                       /\ chan' \in [Channels -> Peers \cup {NoPeer}]
  <2>4. Tables
    <3>1. binding \in [Peers -> Bindings \cup {NoBinding}] /\ chan \in [Channels -> Peers \cup {NoPeer}]
      BY Zenon DEF TurnTypeOK
    <3>2. CASE UNCHANGED <<binding, chan>>
      BY <3>1, <3>2, Zenon
    <3>3. ASSUME NEW p \in Peers, chan' = chan, NEW s \in Bindings,
                 binding' = [binding EXCEPT ![p] = s]
          PROVE  Tables
      BY <3>1, <3>3, Zenon
    <3>4. ASSUME NEW p \in Peers, DeleteByAddr(p) PROVE Tables
      BY <3>1, <3>4, Zenon DEF DeleteByAddr
    <3> QED BY <2>1, <3>2, <3>3, <3>4, BindingsAnswered, Zenon
  <2>5. next' \in Channels /\ {wrapped', closing', served'} \subseteq BOOLEAN /\ refused' \subseteq Peers
    BY <2>1, BindingsAnswered, Zenon DEF TurnTypeOK
  <2>6. missed' \in 0 .. 2 /\ missedPerms' \in 0 .. 2 /\ waiting' \subseteq waiting
    BY <2>1, CountsAnswered, Zenon
  <2>7. TurnTypeOK'
    BY <1>2, <2>2, <2>3, <2>4, <2>5, <2>6, Zenon DEF TurnTypeOK
  <2>8. CASE t.type # "attempt"
    <3>1. tr' = tr \ {t}
      BY <2>1, <2>8, Answered, Zenon
    <3>2. relay = NoRelay /\ relay' # NoRelay => t.type = "allocate"
      BY <2>1, RelayAnswered, Zenon
    <3>3. relay # NoRelay => relay' # NoRelay
      BY <2>1, RelayAnswered, Relayed, Zenon
    <3>4. relay = NoRelay /\ relay' # NoRelay => \A u \in tr' : u.type = "binding"
      BY <3>1, <3>2, Zenon DEF Shape, Open
    <3> QED BY <2>7, <3>1, <3>3, <3>4, Zenon DEF Shape, Open
  <2>9. CASE t.type = "attempt"
    <3>1. relay = NoRelay /\ relay' = NoRelay
      BY <2>1, <2>9, RelayAnswered, Zenon DEF Shape
    <3>2. PICK u \in Requests : tr' = (tr \ {t}) \cup {u} /\ u.type = "allocate"
      BY <2>1, <2>9, Answered, Zenon
    <3>3. \A w \in tr \ {t} : w.type = "binding"
      BY <2>9, <3>1, Zenon DEF Shape, Open
    <3> QED BY <2>7, <3>1, <3>2, <3>3, Zenon DEF Shape, Open
  <2> QED BY <2>7, <2>8, <2>9, Zenon
<1> QED BY <1>3, <1>4, Zenon

LEMMA TypeStep ==
    ASSUME TurnTypeOK, Shape, limit \in Limits, [TurnNext]_turnVars
    PROVE  TurnTypeOK' /\ Shape'
<1>1. CASE UNCHANGED turnVars
  BY <1>1, Zenon DEF turnVars, client, history, TurnTypeOK, Shape, Open
<1>2. CASE TurnNext
  <2>1. TurnStep /\ limit.peers \subseteq Peers
    BY <1>2, TurnAssumption, Zenon DEF TurnNext
  <2> QED BY <2>1, CallsTyped, TimeTyped, ExchangeTyped, Zenon DEF TurnStep
<1> QED BY <1>1, <1>2, Zenon

-----------------------------------------------------------------------------
(***************************************************************************)
(* The allocation.                                                         *)
(***************************************************************************)

LEMMA Halves == Half \in Nat /\ Half > 0 /\ Lifetime = Half + Half
BY TurnAssumption DEF Half

\* A request of another kind leaves those of a kind as they are.
LEMMA OpenKept ==
    ASSUME NEW r, NEW type, r.type # type, r \in Requests, Perform(r, {})
    PROVE  Open(type)' = Open(type)
<1>1. PICK t \in Requests : tr' = (tr \ {}) \cup {t} /\ Copy(t, r)
  BY Performed, Zenon
<1> QED BY <1>1, Zenon DEF Open, Copy

\* Permissions and channels are asked for.
LEMMA AskedKeeps ==
    ASSUME TurnTypeOK, NEW p \in Peers, CreatePermission(p) \/ SendTo(p)
    PROVE  /\ relay \in Relays /\ relay' \in Relays
           /\ relay'.lifetime = relay.lifetime /\ relay'.allocTimer = relay.allocTimer
           /\ relay'.permsTimer = relay.permsTimer
           /\ \A q \in Peers : relay'.perms[q] = relay.perms[q]
                               \/ (relay'.perms[q] = "Idle" /\ q = p)
           /\ UNCHANGED <<server, served, missed, missedPerms, closing>>
           /\ Open("refresh")' = Open("refresh") /\ Open("permits")' = Open("permits")
<1>1. relay \in Relays /\ relay # NoRelay
  BY Relayed, Zenon DEF CreatePermission, SendTo
<1>2. CASE CreatePermission(p)
  <2> DEFINE r == Req("permit", relay.nonce, {p}, 0, 0)
  <2>1. Perform(r, {}) /\ r \in Requests /\ r.type = "permit"
    BY <1>1, <1>2, Zenon DEF CreatePermission, Relays, Req, Requests
  <2> HIDE DEF r
  <2>2. Open("refresh")' = Open("refresh") /\ Open("permits")' = Open("permits")
    BY <2>1, OpenKept, Zenon
  <2> QED BY <1>1, <1>2, <2>2, Zenon DEF CreatePermission, Relays, KeepServer, KeepHistory, history
<1>3. CASE SendTo(p)
  <2>1. PICK n \in Channels : Perform(Req("bind", relay.nonce, {p}, n, 0), {})
    <3>1. binding[p] # NoBinding => binding[p].number \in Channels
      BY Zenon DEF TurnTypeOK, Bindings
    <3> QED BY <1>3, <3>1, Zenon DEF SendTo, TurnTypeOK
  <2> DEFINE r == Req("bind", relay.nonce, {p}, n, 0)
  <2>2. r \in Requests /\ r.type = "bind"
    BY <1>1, NumbersTyped, Zenon DEF Relays, Req, Requests
  <2> HIDE DEF r
  <2>3. Open("refresh")' = Open("refresh") /\ Open("permits")' = Open("permits")
    BY <2>1, <2>2, OpenKept, Zenon DEF r
  <2> QED BY <1>1, <1>3, <2>3, Zenon DEF SendTo, KeepServer
<1> QED BY <1>2, <1>3, Zenon

\* A timeout sends a refresh when one is due.
LEMMA TimeoutAsks ==
    ASSUME TurnTypeOK, NEW gone \in SUBSET tr, TurnTimeout(gone)
    PROVE  /\ \A t \in tr' : \/ t \in tr \ gone
                             \/ /\ t.type = "refresh" /\ AllocDue /\ t.life = relay.lifetime
                             \/ /\ t.type = "permits" /\ PermsDue /\ t.peers = KnownPeers
           /\ tr \ gone \subseteq tr'
           /\ AllocDue => Open("refresh")' # {}
           /\ PermsDue /\ KnownPeers # {} => Open("permits")' # {}
           /\ relay # NoRelay => /\ relay' \in Relays /\ relay'.lifetime = relay.lifetime
                                 /\ relay'.perms = relay.perms
                                 /\ relay'.allocTimer = IF AllocDue
                                      THEN relay.allocTimer + RefreshAfter(relay.lifetime)
                                      ELSE relay.allocTimer
                                 /\ relay'.permsTimer = IF PermsDue
                                      THEN relay.permsTimer + PermRefresh ELSE relay.permsTimer
           /\ relay = NoRelay => relay' = NoRelay
<1>1. PerformAll(TimerRequests, gone) /\ TimerRequests \subseteq Requests
  BY TimersAsk, Zenon DEF TurnTimeout
<1>2. \A t \in tr' : \/ t \in tr \ gone
                     \/ t.type = "refresh" /\ AllocDue /\ t.life = relay.lifetime
                     \/ t.type = "permits" /\ PermsDue /\ t.peers = KnownPeers
  BY <1>1, TimersAsk, PerformedAll DEF Copy
<1>3. AllocDue => Open("refresh")' # {}
  BY <1>1, TimersAsk, PerformedAll DEF Copy, Open
<1>4. PermsDue /\ KnownPeers # {} => Open("permits")' # {}
  BY <1>1, TimersAsk, PerformedAll DEF Copy, Open
<1>5. tr \ gone \subseteq tr'
  BY <1>1, PerformedAll, Zenon
<1>6. relay = NoRelay => relay' = NoRelay
  BY Zenon DEF TurnTimeout
<1>7. ASSUME relay # NoRelay
      PROVE  /\ relay' \in Relays /\ relay'.lifetime = relay.lifetime
             /\ relay'.perms = relay.perms
             /\ relay'.allocTimer = IF AllocDue THEN relay.allocTimer + RefreshAfter(relay.lifetime)
                                    ELSE relay.allocTimer
             /\ relay'.permsTimer = IF PermsDue THEN relay.permsTimer + PermRefresh
                                    ELSE relay.permsTimer
  <2>1. relay \in Relays /\ RefreshAfter(relay.lifetime) \in Int
    BY <1>7, Relayed DEF RefreshAfter, Relays
  <2> DEFINE m == IF AllocDue THEN relay.allocTimer + RefreshAfter(relay.lifetime)
                  ELSE relay.allocTimer
             n == IF PermsDue THEN relay.permsTimer + PermRefresh ELSE relay.permsTimer
  <2>2. relay' = [[relay EXCEPT !.allocTimer = m] EXCEPT !.permsTimer = n]
    BY <1>7, Zenon DEF TurnTimeout, PermAfter
  <2>3. m \in Int /\ n \in Int
    BY <2>1 DEF Relays, PermRefresh
  <2>4. /\ relay' \in Relays /\ relay'.lifetime = relay.lifetime /\ relay'.perms = relay.perms
        /\ relay'.allocTimer = m /\ relay'.permsTimer = n
    <3> HIDE DEF m, n
    <3> QED BY <2>1, <2>2, <2>3, Zenon DEF Relays
  <2> QED BY <2>4, Zenon
<1> QED BY <1>2, <1>3, <1>4, <1>5, <1>6, <1>7, Zenon

LEMMA LeasedStep ==
    ASSUME TurnTypeOK, Shape, Leased, limit \in Limits, TurnNext
    PROVE  Leased'
<1> USE DEF Counted
<1>1. TurnTypeOK' /\ Shape' /\ TurnStep /\ limit.peers \subseteq Peers
  BY TypeStep, TurnAssumption, Zenon DEF TurnNext
<1>2. CASE SendBindingRequest \/ Allocate \/ CloseRelay \/ Close
  BY <1>2, Zenon DEF SendBindingRequest, Allocate, CloseRelay, Close, Leased, KeepServer
<1>3. CASE RenewNonce
  <2>1. server'.left = server.left
    BY <1>3, Zenon DEF RenewNonce, TurnTypeOK, Servers
  <2> QED BY <1>3, <2>1, Zenon DEF RenewNonce, Leased, Open, client, history
<1>4. CASE Tick
  <2>1. relay \in Relays /\ ~closing /\ tr = {} /\ tr' = {} /\ relay # NoRelay
    BY <1>4, Relayed, Zenon DEF Tick
  <2>2. /\ relay' \in Relays /\ relay'.lifetime = relay.lifetime
        /\ relay'.allocTimer = relay.allocTimer - 1
    BY <1>4, Ticked, Zenon
  <2>3. relay.allocTimer > 0
    BY <1>4, <2>1, Halves DEF Tick, Leased, AllocDue
  <2>4. missed = 0 => server'.left = server.left - 1
    <3>1. missed = 0 => server.left >= Half + relay.allocTimer
      BY <2>1, Zenon DEF Leased, Open
    <3>2. server.left \in Nat /\ relay.allocTimer \in Int
      BY <2>1, Zenon DEF TurnTypeOK, Servers, Relays
    <3> QED BY <1>4, <2>3, <3>1, <3>2, Halves, Aging DEF Tick
  <2>5. served' = FALSE /\ missed' = missed /\ relay' # NoRelay
    BY <1>4, <2>2, Relayed, Zenon DEF Tick, history
  <2>6. Open("refresh") = {} /\ Open("refresh")' = {}
    BY <2>1, Zenon DEF Open
  <2>7. /\ relay.lifetime = Lifetime /\ relay.allocTimer \in 0 .. Half
        /\ missed = 0 => server.left >= Half + relay.allocTimer
    BY <2>1, <2>6, Zenon DEF Leased
  <2>8. server.left \in Nat
    BY Zenon DEF TurnTypeOK, Servers
  <2>9. /\ relay'.allocTimer \in 0 .. Half
        /\ missed = 0 => server'.left >= Half + relay'.allocTimer /\ server'.left >= Half
    BY <2>2, <2>3, <2>4, <2>7, <2>8, Halves
  <2> QED BY <2>2, <2>5, <2>6, <2>7, <2>9, Zenon DEF Leased
<1>5. ASSUME NEW p \in Peers, CreatePermission(p) \/ SendTo(p)
      PROVE  Leased'
  <2>1. relay # NoRelay /\ relay' # NoRelay
    BY <1>5, AskedKeeps, Relayed, Zenon
  <2> QED BY <1>5, <2>1, AskedKeeps, Zenon DEF Leased
<1>6. ASSUME NEW gone \in SUBSET tr, TurnTimeout(gone)
      PROVE  Leased'
  <2>1. server' = server /\ closing' = closing /\ (relay = NoRelay <=> relay' = NoRelay)
    BY <1>6, TimeoutAsks, Relayed, Zenon DEF TurnTimeout
  <2>2. CASE ~Counted
    BY <2>1, <2>2, Zenon DEF Leased
  <2>3. CASE Counted
    <3>1. /\ relay.lifetime = Lifetime /\ relay.allocTimer \in 0 .. Half
          /\ RefreshAfter(relay.lifetime) = Half
      BY <2>3, Zenon DEF Leased, RefreshAfter, Half
    <3>2. AllocDue <=> relay.allocTimer = 0
      BY <2>3, <3>1, Halves DEF AllocDue
    <3>3. /\ relay'.lifetime = Lifetime
          /\ relay'.allocTimer = IF AllocDue THEN Half ELSE relay.allocTimer
      BY <1>6, <2>3, <3>1, <3>2, Halves, TimeoutAsks
    <3>4. relay'.allocTimer \in 0 .. Half /\ relay'.allocTimer # 0
      BY <3>1, <3>2, <3>3, Halves
    <3>5. \A t \in Open("refresh")' : t.life = Lifetime /\ relay'.allocTimer = Half
      BY <1>6, <2>3, <3>1, <3>2, <3>3, Halves, TimeoutAsks, Zenon DEF Leased, Open
    <3>6. ASSUME missed' = 0
          PROVE  missed = 0 /\ \A t \in gone : t.type # "refresh"
      BY <1>6, <3>6 DEF TurnTimeout, CountIf, TurnTypeOK
    <3>7. ASSUME missed' = 0, Open("refresh")' = {}
          PROVE  ~AllocDue /\ Open("refresh") = {}
      BY <1>6, <3>6, <3>7, TimeoutAsks, Zenon DEF Open
    <3>8. missed' = 0 => server'.left >= Half
      BY <2>1, <2>3, <3>6, Zenon DEF Leased
    <3>9. missed' = 0 /\ Open("refresh")' = {} => server'.left >= Half + relay'.allocTimer
      BY <2>1, <2>3, <3>3, <3>6, <3>7, Zenon DEF Leased
    <3> QED BY <2>1, <2>3, <3>3, <3>4, <3>5, <3>8, <3>9, Zenon DEF Leased
  <2> QED BY <2>2, <2>3, Zenon
<1>7. ASSUME NEW t \in tr, NEW arrives \in BOOLEAN, Exchange(t, arrives)
      PROVE  Leased'
  <2>1. server' = IF Class(t) = "success" THEN Granted(t) ELSE server
    BY <1>7, Zenon DEF Exchange
  <2>2. CASE relay = NoRelay
    <3>1. t.type \in {"binding", "attempt", "allocate"} /\ server.left \in {0, Lifetime}
      BY <2>2, Zenon DEF Shape, Leased
    <3>2. server'.left \in {0, Lifetime}
      BY <2>1, <3>1, Served, Zenon
    <3>3. CASE relay' = NoRelay
      BY <3>2, <3>3, Zenon DEF Leased
    <3>4. CASE relay' # NoRelay
      <4>1. HandleStunMessage(t, Answer(t))
        BY <1>7, <2>2, <3>4, Zenon DEF Exchange, client
      <4>2. /\ t.type = "allocate" /\ Class(t) = "success"
            /\ relay'.lifetime = Lifetime /\ relay'.allocTimer = Half
        BY <2>2, <3>4, <4>1, RelayAnswered, Zenon
      <4>3. server'.left = Lifetime
        BY <2>1, <3>1, <4>2, Served, Zenon
      <4>4. Open("refresh")' = {}
        BY <2>2, <4>1, <4>2, Answered, Zenon DEF Shape, Open
      <4> QED BY <3>4, <4>2, <4>3, <4>4, Halves DEF Leased
    <3> QED BY <3>3, <3>4, Zenon
  <2>3. CASE relay # NoRelay
    <3>1. /\ relay' # NoRelay /\ closing' = closing /\ served' = served
          /\ relay'.allocTimer = relay.allocTimer
          /\ relay'.lifetime = relay.lifetime \/ (t.type = "refresh" /\ relay'.lifetime = Answer(t).life)
          /\ tr' \subseteq tr /\ (missed' = 0 => missed = 0)
          /\ missed' = 0 /\ t.type = "refresh" /\ Class(t) # "success" => tr' = tr
          /\ \A u \in tr : u # t => u \in tr'
      <4>1. CASE ~arrives
        BY <1>7, <2>3, <4>1, Zenon DEF Exchange, client, history
      <4>2. CASE arrives
        <5>1. HandleStunMessage(t, Answer(t)) /\ t.type # "attempt"
          BY <1>7, <2>3, <4>2, Zenon DEF Exchange, Shape
        <5>2. tr' = tr \ {t}
          BY <5>1, Answered, Zenon
        <5>3. /\ relay' # NoRelay /\ relay'.allocTimer = relay.allocTimer
              /\ relay'.lifetime = relay.lifetime \/ (t.type = "refresh" /\ relay'.lifetime = Answer(t).life)
          BY <2>3, <5>1, RelayAnswered, Relayed, Zenon
        <5>4. closing' = closing /\ served' = served
          BY <5>1, BindingsAnswered, Zenon
        <5> QED BY <5>1, <5>2, <5>3, <5>4, CountsAnswered, Zenon
      <4> QED BY <4>1, <4>2, Zenon
    <3>2. CASE closing
      BY <3>1, <3>2, Zenon DEF Leased
    <3>3. CASE ~closing
      <4>1. /\ relay.lifetime = Lifetime /\ relay.allocTimer \in 0 .. Half
            /\ served => relay.allocTimer # 0
            /\ \A u \in Open("refresh") : u.life = Lifetime /\ relay.allocTimer = Half
            /\ missed = 0 => server.left >= Half
            /\ missed = 0 /\ Open("refresh") = {} => server.left >= Half + relay.allocTimer
        BY <2>3, <3>3, Zenon DEF Leased
      <4>2. t.type # "allocate" /\ server.left \in Nat
        BY <2>3, Zenon DEF Shape, TurnTypeOK, Servers
      <4>3. CASE t.type = "refresh"
        <5>1. t.life = Lifetime /\ Lifetime # 0 /\ Answer(t).life = Lifetime
          BY <4>1, <4>3, TurnAssumption, Zenon DEF Open, Answer
        <5>2. CASE Class(t) = "success"
          <6>1. server'.left = Lifetime
            BY <2>1, <4>3, <5>1, <5>2, Served, Zenon
          <6> QED BY <3>1, <3>3, <4>1, <5>1, <6>1, Halves DEF Leased, Open
        <5>3. CASE Class(t) # "success"
          <6>1. server' = server
            BY <2>1, <5>3, Zenon
          <6>2. missed' = 0 => missed = 0 /\ Open("refresh") # {} /\ Open("refresh")' # {}
            BY <3>1, <4>3, <5>3, Zenon DEF Open
          <6> QED BY <3>1, <3>3, <4>1, <5>1, <6>1, <6>2, Zenon DEF Leased, Open
        <5> QED BY <5>2, <5>3, Zenon
      <4>4. CASE t.type # "refresh"
        <5>1. server'.left = server.left
          BY <2>1, <4>2, <4>4, Served, Zenon
        <5>2. Open("refresh")' = Open("refresh")
          BY <3>1, <4>4, Zenon DEF Open
        <5> QED BY <3>1, <3>3, <4>1, <4>4, <5>1, <5>2, Zenon DEF Leased
      <4> QED BY <4>3, <4>4, Zenon
    <3> QED BY <3>2, <3>3, Zenon
  <2> QED BY <2>2, <2>3, Zenon
<1> QED BY <1>1, <1>2, <1>3, <1>4, <1>5, <1>6, <1>7, Zenon DEF TurnStep

-----------------------------------------------------------------------------
(***************************************************************************)
(* The permissions.                                                        *)
(***************************************************************************)

\* What Permitted says of the permission of one peer, as numbers: left units of
\* it, the timer and the failures.
LEMMA PermsTyped ==
    ASSUME TurnTypeOK
    PROVE  \A p \in Peers : server.perm[p] \in 0 .. PermLifetime
BY Zenon DEF TurnTypeOK, Servers

LEMMA PermittedStep ==
    ASSUME TurnTypeOK, Shape, Leased, Permitted, limit \in Limits, TurnNext
    PROVE  Permitted'
<1> USE DEF Counted
<1>1. TurnTypeOK' /\ Shape' /\ TurnStep /\ limit.peers \subseteq Peers
  BY TypeStep, TurnAssumption, Zenon DEF TurnNext
<1>2. CASE SendBindingRequest \/ Allocate \/ CloseRelay \/ Close
  BY <1>2, Zenon DEF SendBindingRequest, Allocate, CloseRelay, Close, Permitted
<1>3. CASE RenewNonce
  <2>1. server'.left = server.left /\ server'.perm = server.perm
    BY <1>3, Zenon DEF RenewNonce, TurnTypeOK, Servers
  <2> QED BY <1>3, <2>1, Zenon DEF RenewNonce, Permitted, Open, client, history, Margin
<1>4. CASE Tick
  <2>1. relay # NoRelay /\ ~closing /\ tr = {} /\ tr' = {} /\ served' = FALSE
    BY <1>4, Zenon DEF Tick
  <2>2. /\ relay \in Relays /\ relay'.perms = relay.perms
        /\ relay'.permsTimer = relay.permsTimer - 1
    BY <1>4, Ticked, Zenon
  <2>3. relay.permsTimer \in 1 .. PermRefresh
    BY <1>4, <2>1 DEF Tick, Permitted, PermsDue, PermRefresh
  <2>4. Open("permits") = {} /\ Open("permits")' = {}
    BY <2>1, Zenon DEF Open
  <2>5. missedPerms' = missedPerms
    BY <1>4, Zenon DEF Tick, history
  <2>6. ASSUME server'.left > 0
        PROVE  server.left > 0 /\ \A p \in Peers : server'.perm[p] = Less(server.perm[p])
    BY <1>4, <2>6, Aging DEF Tick, TurnTypeOK, Servers
  <2>7. ASSUME server'.left > 0, NEW p \in Peers, relay'.perms[p] = "Permitted", missedPerms' < 2
        PROVE  server'.perm[p] >= Margin' + relay'.permsTimer /\ server'.perm[p] >= Margin'
    <3>1. server.perm[p] >= Margin + relay.permsTimer
      BY <2>1, <2>2, <2>4, <2>5, <2>6, <2>7, Zenon DEF Permitted
    <3>2. Margin' = Margin /\ Margin \in {1, 3} /\ server.perm[p] \in Nat
      BY <2>5, PermsTyped DEF Margin, PermLifetime, PermRefresh
    <3> QED BY <2>2, <2>3, <2>6, <2>7, <3>1, <3>2 DEF Less
  <2>8. relay'.permsTimer \in 0 .. PermRefresh
    BY <2>2, <2>3 DEF PermRefresh
  <2> QED BY <2>1, <2>4, <2>7, <2>8, Zenon DEF Permitted
<1>5. ASSUME NEW p \in Peers, CreatePermission(p) \/ SendTo(p)
      PROVE  Permitted'
  <2>1. relay # NoRelay /\ relay' # NoRelay
    BY <1>5, AskedKeeps, Relayed, Zenon
  <2>2. Margin' = Margin
    BY <1>5, AskedKeeps, Zenon DEF Margin
  <2>3. \A q \in Peers : relay'.perms[q] = "Permitted" => relay.perms[q] = "Permitted"
    BY <1>5, AskedKeeps, Zenon
  <2> QED BY <1>5, <2>1, <2>2, <2>3, AskedKeeps DEF Permitted
<1>6. ASSUME NEW gone \in SUBSET tr, TurnTimeout(gone)
      PROVE  Permitted'
  <2>1. /\ server' = server /\ closing' = closing /\ (relay = NoRelay <=> relay' = NoRelay)
        /\ missedPerms' = CountIf(missedPerms, \E t \in gone : t.type = "permits")
    BY <1>6, TimeoutAsks, Relayed, Zenon DEF TurnTimeout
  <2>2. CASE ~Counted
    BY <2>1, <2>2, Zenon DEF Permitted
  <2>3. CASE Counted
    <3>1. relay.permsTimer \in 0 .. PermRefresh /\ (PermsDue <=> relay.permsTimer = 0)
      BY <2>3 DEF Permitted, PermsDue, PermRefresh
    <3>2. /\ relay'.perms = relay.perms
          /\ relay'.permsTimer = IF PermsDue THEN PermRefresh ELSE relay.permsTimer
      BY <1>6, <2>3, <3>1, TimeoutAsks DEF PermRefresh
    <3>3. relay'.permsTimer \in 0 .. PermRefresh /\ relay'.permsTimer # 0
      BY <3>1, <3>2 DEF PermRefresh
    <3>4. \A t \in Open("permits")' : \/ PermsDue /\ t.peers = KnownPeers
                                      \/ t \in Open("permits") /\ t \notin gone
      BY <1>6, TimeoutAsks, Zenon DEF Open
    <3>5. \A t \in Open("permits") : relay.permsTimer = PermRefresh /\ ~PermsDue
      BY <2>3, <3>1 DEF Permitted, PermRefresh
    <3>6. \A t \in Open("permits")' : relay'.permsTimer = PermRefresh
      BY <3>2, <3>4, <3>5, Zenon
    <3>7. ASSUME server'.left > 0, NEW p \in Peers, relay'.perms[p] = "Permitted",
                 NEW t \in Open("permits")'
          PROVE  p \in t.peers \/ server'.perm[p] = PermLifetime
      BY <2>1, <2>3, <3>2, <3>4, <3>7, Zenon DEF Permitted, KnownPeers
    <3>8. ASSUME server'.left > 0, NEW p \in Peers, relay'.perms[p] = "Permitted", missedPerms' < 2
          PROVE  /\ server'.perm[p] >= Margin'
                 /\ Open("permits")' = {} => server'.perm[p] >= Margin' + relay'.permsTimer
      <4>1. missedPerms \in 0 .. 2 /\ server.perm[p] \in Nat
        BY PermsTyped DEF TurnTypeOK, PermLifetime
      <4>2. missedPerms < 2 /\ relay.perms[p] = "Permitted" /\ server.left > 0
        BY <2>1, <3>2, <3>8, <4>1, Zenon DEF CountIf
      <4>3. /\ server.perm[p] >= Margin
            /\ Open("permits") = {} => server.perm[p] >= Margin + relay.permsTimer
        BY <2>3, <4>2, Zenon DEF Permitted
      <4>4. CASE \E t \in gone : t.type = "permits"
        <5>1. PICK t \in gone : t.type = "permits"
          BY <4>4, Zenon
        <5>2. t \in Open("permits")
          BY <5>1, Zenon DEF Open
        <5>3. relay'.permsTimer = PermRefresh
          BY <3>2, <3>5, <5>2, Zenon
        <5>4. missedPerms = 0 /\ missedPerms' = 1
          BY <2>1, <3>8, <4>1, <4>4 DEF CountIf
        <5>5. Margin = 3 /\ Margin' = 1 /\ PermRefresh = 2
          BY <5>4 DEF Margin, PermRefresh, PermLifetime
        <5> QED BY <2>1, <4>1, <4>3, <5>3, <5>5
      <4>5. CASE ~\E t \in gone : t.type = "permits"
        <5>1. missedPerms' = missedPerms /\ Margin' = Margin
          BY <2>1, <4>5, Zenon DEF CountIf, Margin
        <5>2. CASE PermsDue
          <6>1. p \in KnownPeers
            BY <4>2, Zenon DEF KnownPeers
          <6>2. Open("permits")' # {}
            BY <1>6, <5>2, <6>1, TimeoutAsks, Zenon
          <6> QED BY <2>1, <4>3, <5>1, <6>2, Zenon
        <5>3. CASE ~PermsDue
          <6>1. Open("permits")' = {} => Open("permits") = {}
            BY <1>6, <4>5, TimeoutAsks, Zenon DEF Open
          <6> QED BY <2>1, <3>2, <4>3, <5>1, <5>3, <6>1, Zenon
        <5> QED BY <5>2, <5>3, Zenon
      <4> QED BY <4>4, <4>5, Zenon
    <3> QED BY <2>1, <2>3, <3>3, <3>6, <3>7, <3>8, Zenon DEF Permitted
  <2> QED BY <2>2, <2>3, Zenon
<1>7. ASSUME NEW t \in tr, NEW arrives \in BOOLEAN, Exchange(t, arrives)
      PROVE  Permitted'
  <2>1. server' = IF Class(t) = "success" THEN Granted(t) ELSE server
    BY <1>7, Zenon DEF Exchange
  <2>2. CASE ~Counted'
    BY <2>2, Zenon DEF Permitted
  <2>3. CASE Counted' /\ relay = NoRelay
    <3>1. HandleStunMessage(t, Answer(t))
      BY <1>7, <2>3, Zenon DEF Exchange, client
    <3>2. /\ t.type = "allocate" /\ relay'.permsTimer = PermRefresh
          /\ \A p \in Peers : relay'.perms[p] # "Permitted"
      BY <2>3, <3>1, RelayAnswered, Zenon
    <3>3. Open("permits")' = {}
      BY <2>3, <3>1, <3>2, Answered, Zenon DEF Shape, Open
    <3> QED BY <3>2, <3>3 DEF Permitted, PermRefresh
  <2>4. CASE Counted' /\ relay # NoRelay
    <3>1. /\ Counted /\ served' = served
          /\ relay'.permsTimer = relay.permsTimer
          /\ \A p \in Peers : \/ relay'.perms[p] # "Permitted" \/ relay.perms[p] = "Permitted"
                              \/ t.type = "permit" /\ p \in t.peers /\ Class(t) = "success"
          /\ \A u \in tr' : u \in tr
          /\ \A u \in tr : u # t => u \in tr'
          /\ \/ tr' = tr /\ missedPerms' = missedPerms
             \/ t.type # "permits" /\ missedPerms' = missedPerms
             \/ /\ t.type = "permits" /\ tr' # tr
                /\ missedPerms' = IF Class(t) = "success" THEN 0 ELSE CountIf(missedPerms, TRUE)
      <4>1. CASE ~arrives
        BY <1>7, <2>4, <4>1, Zenon DEF Exchange, client, history
      <4>2. CASE arrives
        <5>1. HandleStunMessage(t, Answer(t)) /\ t.type # "attempt"
          BY <1>7, <2>4, <4>2, Zenon DEF Exchange, Shape
        <5>2. tr' = tr \ {t}
          BY <5>1, Answered, Zenon
        <5>3. relay'.permsTimer = relay.permsTimer
          BY <2>4, <5>1, RelayAnswered, Zenon
        <5>4. ASSUME NEW p \in Peers, relay'.perms[p] = "Permitted"
              PROVE  \/ relay.perms[p] = "Permitted"
                     \/ t.type = "permit" /\ p \in t.peers /\ Class(t) = "success"
          <6>1. relay.perms \in [Peers -> {"None", "Idle", "Permitted"}]
            BY <2>4, Relayed, Zenon DEF Relays
          <6>2. CASE t.type # "permit"
            BY <2>4, <5>1, <5>4, <6>2, RelayAnswered, Zenon
          <6>3. CASE t.type = "permit"
            <7>1. PICK q \in Peers : t.peers = {q} /\ relay'.perms =
                     [relay.perms EXCEPT ![q] = IF Class(t) = "success" THEN PermissionGranted(q)
                                                ELSE "None"]
              BY <2>4, <5>1, <6>3, RelayAnswered, Zenon
            <7> QED BY <5>4, <6>1, <6>3, <7>1, Zenon
          <6> QED BY <6>2, <6>3, Zenon
        <5>5. closing' = closing /\ served' = served
          BY <5>1, BindingsAnswered, Zenon
        <5>6. \/ t.type # "permits" /\ missedPerms' = missedPerms
              \/ t.type = "permits" /\ missedPerms' = IF Class(t) = "success" THEN 0
                                                      ELSE CountIf(missedPerms, TRUE)
          BY <5>1, CountsAnswered, Zenon
        <5> QED BY <2>4, <5>2, <5>3, <5>4, <5>5, <5>6, Zenon
      <4> QED BY <4>1, <4>2, Zenon
    <3>2. /\ relay.permsTimer \in 0 .. PermRefresh /\ (served => relay.permsTimer # 0)
          /\ \A u \in Open("permits") : relay.permsTimer = PermRefresh
          /\ \A u \in Open("refresh") : u.life # 0
      BY <3>1, TurnAssumption, Zenon DEF Permitted, Leased
    <3>3. \A u \in Open("permits")' : u \in Open("permits")
      BY <3>1, Zenon DEF Open
    <3>4. t \in Requests /\ missedPerms \in 0 .. 2 /\ missedPerms' \in 0 .. 2 /\ server.left \in Nat
      BY <1>1, Zenon DEF TurnTypeOK, Servers
    <3>5. ASSUME server'.left > 0
          PROVE  server.left > 0
      <4>1. CASE t.type = "refresh" /\ Class(t) = "success"
        BY <2>1, <4>1, Served, Zenon
      <4>2. CASE t.type # "refresh" /\ Class(t) = "success"
        BY <2>1, <2>4, <3>5, <4>2, Served, Zenon DEF Shape
      <4>3. CASE Class(t) # "success"
        BY <2>1, <3>5, <4>3, Zenon
      <4> QED BY <4>1, <4>2, <4>3, Zenon
    <3>6. \A p \in Peers : \/ server'.perm[p] = server.perm[p]
                           \/ server'.perm[p] = PermLifetime
      <4>1. CASE t.type # "refresh"
        BY <2>1, <4>1, Served, Zenon
      <4>2. CASE t.type = "refresh"
        BY <2>1, <3>2, <4>2, Served, Zenon DEF Open
      <4> QED BY <4>1, <4>2, Zenon
    <3>7. \A p \in Peers : t.type \in {"permit", "permits"} /\ Class(t) = "success" /\ p \in t.peers
                              => server'.perm[p] = PermLifetime
      BY <2>1, Served, Zenon
    <3>8. ASSUME server'.left > 0, NEW p \in Peers, relay'.perms[p] = "Permitted",
                 NEW u \in Open("permits")'
          PROVE  p \in u.peers \/ server'.perm[p] = PermLifetime
      <4>1. CASE relay.perms[p] = "Permitted"
        BY <3>1, <3>3, <3>5, <3>6, <3>8, <4>1, Zenon DEF Permitted
      <4>2. CASE relay.perms[p] # "Permitted"
        BY <3>1, <3>7, <3>8, <4>2, Zenon
      <4> QED BY <4>1, <4>2, Zenon
    <3>9. ASSUME server'.left > 0, NEW p \in Peers, relay'.perms[p] = "Permitted", missedPerms' < 2
          PROVE  /\ server'.perm[p] >= Margin'
                 /\ Open("permits")' = {} => server'.perm[p] >= Margin' + relay'.permsTimer
      <4>1. Margin' \in {1, 3} /\ Margin' + PermRefresh <= PermLifetime /\ PermLifetime = 5
        BY DEF Margin, PermRefresh, PermLifetime
      <4>2. CASE server'.perm[p] = PermLifetime
        BY <3>1, <3>2, <4>1, <4>2 DEF PermRefresh
      <4>3. CASE server'.perm[p] # PermLifetime
        <5>1. server'.perm[p] = server.perm[p] /\ relay.perms[p] = "Permitted" /\ server.left > 0
          BY <3>1, <3>5, <3>6, <3>7, <3>9, <4>3, Zenon
        <5>2. server.perm[p] \in Nat
          BY PermsTyped DEF PermLifetime
        <5>3. ~(t.type = "permits" /\ Class(t) = "success")
          BY <3>1, <3>7, <4>3, <5>1, Zenon DEF Permitted, Open
        <5>4. CASE t.type = "permits" /\ tr' # tr
          <6>1. missedPerms = 0 /\ missedPerms' = 1 /\ relay.permsTimer = PermRefresh
            BY <3>1, <3>2, <3>4, <3>9, <5>3, <5>4 DEF CountIf, Open
          <6>2. server.perm[p] >= Margin
            BY <3>1, <5>1, <6>1 DEF Permitted
          <6> QED BY <3>1, <5>1, <5>2, <6>1, <6>2 DEF Margin, PermRefresh, PermLifetime
        <5>5. CASE ~(t.type = "permits" /\ tr' # tr)
          <6>1. missedPerms' = missedPerms /\ Open("permits")' = Open("permits")
            BY <3>1, <5>3, <5>5, Zenon DEF Open
          <6>2. Margin' = Margin
            BY <6>1, Zenon DEF Margin
          <6> QED BY <3>1, <3>9, <5>1, <6>1, <6>2, Zenon DEF Permitted
        <5> QED BY <5>4, <5>5, Zenon
      <4> QED BY <4>2, <4>3, Zenon
    <3> QED BY <3>1, <3>2, <3>3, <3>8, <3>9, Zenon DEF Permitted
  <2> QED BY <2>2, <2>3, <2>4, Zenon
<1> QED BY <1>1, <1>2, <1>3, <1>4, <1>5, <1>6, <1>7, Zenon DEF TurnStep

-----------------------------------------------------------------------------
(***************************************************************************)
(* The channels.                                                           *)
(***************************************************************************)

\* Numbers that mean no more than before stay assigned, if entries only go with a
\* refusal.
LEMMA MeansNoMore ==
    ASSUME Assigned, next' = next, wrapped' = wrapped, refused \subseteq refused',
           \A n \in Channels, p \in Peers : Means(n, p)' => Means(n, p),
           \A n \in Channels, p \in Peers :
              Means(n, p) /\ p \notin refused' /\ chan[n] = p /\ binding[p] # NoBinding
                 => chan'[n] = p /\ binding'[p] # NoBinding
    PROVE  Assigned'
<1> SUFFICES ASSUME ~wrapped', NEW n \in Channels, NEW p \in Peers, Means(n, p)'
             PROVE  /\ n < next' /\ \A q \in Peers : Means(n, q)' => q = p
                    /\ p \notin refused' => chan'[n] = p /\ binding'[p] # NoBinding
  BY Zenon DEF Assigned
<1>1. Means(n, p) /\ ~wrapped
  OBVIOUS
<1>2. /\ n < next /\ \A q \in Peers : Means(n, q) => q = p
      /\ p \notin refused => chan[n] = p /\ binding[p] # NoBinding
  BY <1>1, Zenon DEF Assigned
<1> QED BY <1>1, <1>2, Zenon

\* The same with the tables as they are.
LEMMA MeansAsBefore ==
    ASSUME TurnTypeOK, Assigned, next' = next, wrapped' = wrapped, refused' = refused,
           chan' = chan, server' \in Servers,
           \A n \in Channels : server'.chan[n].peer \in {server.chan[n].peer, NoPeer},
           \A p \in Peers : /\ binding'[p] # NoBinding <=> binding[p] # NoBinding
                            /\ binding[p] # NoBinding => binding'[p].number = binding[p].number,
           \A t \in Open("bind")' : \/ t \in Open("bind")
                                    \/ \E p \in Peers : t.peers = {p} /\ Means(t.number, p)
    PROVE  Assigned'
<1>1. ASSUME NEW n \in Channels, NEW p \in Peers, Means(n, p)'
      PROVE  Means(n, p)
  <2>1. \/ chan[n] = p \/ server'.chan[n].peer = p
        \/ binding'[p] # NoBinding /\ binding'[p].number = n
        \/ \E t \in Open("bind")' : t.number = n /\ p \in t.peers
    BY <1>1, Zenon DEF Means
  <2>2. NoPeer # p
    BY TurnAssumption, Zenon
  <2>3. CASE \E t \in Open("bind")' : t.number = n /\ p \in t.peers
    <3>1. PICK t \in Open("bind")' : t.number = n /\ p \in t.peers
      BY <2>3, Zenon
    <3>2. CASE t \in Open("bind")
      BY <3>1, <3>2, Zenon DEF Means
    <3>3. CASE \E q \in Peers : t.peers = {q} /\ Means(t.number, q)
      BY <3>1, <3>3, Zenon
    <3> QED BY <3>1, <3>2, <3>3, Zenon
  <2> QED BY <2>1, <2>2, <2>3, Zenon DEF Means
<1> QED BY <1>1, MeansNoMore, Zenon

\* A request that is not for a channel.
LEMMA AskedOther ==
    ASSUME TurnTypeOK, Assigned, NEW r \in Requests, r.type # "bind", Perform(r, {}),
           UNCHANGED <<binding, chan, next, server, refused, wrapped>>
    PROVE  Assigned'
<1>1. Open("bind")' = Open("bind")
  BY OpenKept, Zenon
<1>2. server' \in Servers
  BY Zenon DEF TurnTypeOK
<1> QED BY <1>1, <1>2, MeansAsBefore, Zenon

\* A number is assigned.
LEMMA Creates ==
    ASSUME TurnTypeOK, Assigned, NEW p \in Peers, binding[p] = NoBinding, Create(p),
           NEW t \in Requests, tr' = (tr \ {}) \cup {t}, t.number = next, t.peers = {p},
           server' = server, refused' = refused
    PROVE  Assigned'
<1> SUFFICES ASSUME ~wrapped' PROVE Assigned'
  BY Zenon DEF Assigned
<1>1. ~wrapped /\ next # MaxChannel /\ next' = next + 1 /\ next \in Channels
  BY Zenon DEF Create, After, TurnTypeOK
<1>2. /\ binding' = [binding EXCEPT ![p] = [number |-> next, st |-> "Request", age |-> 0]]
      /\ chan' = [chan EXCEPT ![next] = p]
  BY Zenon DEF Create
<1>3. binding \in [Peers -> Bindings \cup {NoBinding}] /\ chan \in [Channels -> Peers \cup {NoPeer}]
  BY Zenon DEF TurnTypeOK
<1>4. binding'[p] # NoBinding /\ binding'[p].number = next
  <2>1. [number |-> next, st |-> "Request", age |-> 0] \in Bindings
    BY <1>1, Zenon DEF Bindings
  <2> QED BY <1>2, <1>3, <2>1, Relayed, Zenon
<1>5. \A q \in Peers : q # p => binding'[q] = binding[q]
  BY <1>2, <1>3, Zenon
<1>6. \A n \in Channels : chan'[n] = IF n = next THEN p ELSE chan[n]
  BY <1>2, <1>3, Zenon
<1>7. ASSUME NEW n \in Channels, NEW q \in Peers, Means(n, q)'
      PROVE  Means(n, q) \/ (n = next /\ q = p)
  <2>1. \/ chan'[n] = q \/ server.chan[n].peer = q
        \/ binding'[q] # NoBinding /\ binding'[q].number = n
        \/ \E u \in Open("bind")' : u.number = n /\ q \in u.peers
    BY <1>7, Zenon DEF Means
  <2>2. CASE chan'[n] = q
    BY <1>6, <2>2, Zenon DEF Means
  <2>3. CASE binding'[q] # NoBinding /\ binding'[q].number = n
    BY <1>4, <1>5, <2>3, Zenon DEF Means
  <2>4. CASE \E u \in Open("bind")' : u.number = n /\ q \in u.peers
    BY <2>4, Zenon DEF Means, Open
  <2> QED BY <2>1, <2>2, <2>3, <2>4, Zenon DEF Means
<1>8. \A q \in Peers : ~Means(next, q)
  BY <1>1, NumbersTyped DEF Assigned
<1>9. \A n \in Channels : Means(n, p) => p \in refused
  BY <1>1, Zenon DEF Assigned
<1>10. ASSUME NEW n \in Channels, NEW q \in Peers, Means(n, q)'
       PROVE  /\ n < next' /\ \A s \in Peers : Means(n, s)' => s = q
              /\ q \notin refused' => chan'[n] = q /\ binding'[q] # NoBinding
  <2>1. CASE n = next
    <3>1. q = p /\ \A s \in Peers : Means(n, s)' => s = p
      BY <1>7, <1>8, <1>10, <2>1, Zenon
    <3> QED BY <1>1, <1>4, <1>6, <2>1, <3>1, NumbersTyped
  <2>2. CASE n # next
    <3>1. Means(n, q) /\ \A s \in Peers : Means(n, s)' => Means(n, s)
      BY <1>7, <1>10, <2>2, Zenon
    <3>2. /\ n < next /\ \A s \in Peers : Means(n, s) => s = q
          /\ q \notin refused => chan[n] = q /\ binding[q] # NoBinding
      BY <1>1, <3>1, Zenon DEF Assigned
    <3>3. q = p => q \in refused
      BY <1>9, <3>1, Zenon
    <3> QED BY <1>1, <1>5, <1>6, <2>2, <3>1, <3>2, <3>3, NumbersTyped
  <2> QED BY <2>1, <2>2, Zenon
<1> QED BY <1>10, Zenon DEF Assigned

\* An answer to a request for a channel.
LEMMA AssignedAnswered ==
    ASSUME TurnTypeOK, Shape, Assigned, NEW t \in tr, HandleStunMessage(t, Answer(t)),
           server' = IF Class(t) = "success" THEN Granted(t) ELSE server
    PROVE  Assigned'
<1>1. next' = next /\ wrapped' = wrapped /\ refused \subseteq refused'
  BY BindingsAnswered, Zenon
<1>2. \A u \in Open("bind")' : u \in Open("bind")
  BY OthersStay, Zenon DEF Open
<1>3. ASSUME NEW n \in Channels, NEW p \in Peers, server'.chan[n].peer = p
      PROVE  Means(n, p)
  <2>1. NoPeer # p
    BY TurnAssumption, Zenon
  <2> QED BY <1>3, <2>1, Served, Zenon DEF Means, Open
<1>4. \A n \in Channels, p \in Peers : Means(n, p)' =>
        \/ Means(n, p) \/ chan'[n] = p \/ (binding'[p] # NoBinding /\ binding'[p].number = n)
  BY <1>2, <1>3, Zenon DEF Means
<1>5. CASE UNCHANGED <<binding, chan>>
  <2>1. \A n \in Channels, p \in Peers : Means(n, p)' => Means(n, p)
    BY <1>4, <1>5, Zenon DEF Means
  <2> QED BY <1>1, <1>5, <2>1, MeansNoMore, Zenon
<1>6. ASSUME NEW p \in Peers, chan' = chan, binding[p] \in Bindings, NEW s \in Bindings,
             s.number = binding[p].number, binding' = [binding EXCEPT ![p] = s]
      PROVE  Assigned'
  <2>1. /\ binding'[p] = s /\ s # NoBinding /\ binding[p] # NoBinding
        /\ \A q \in Peers : q # p => binding'[q] = binding[q]
    BY <1>6, Relayed, Zenon DEF TurnTypeOK
  <2>2. \A n \in Channels, q \in Peers : Means(n, q)' => Means(n, q)
    BY <1>4, <1>6, <2>1 DEF Means
  <2> QED BY <1>1, <1>6, <2>1, <2>2, MeansNoMore, Zenon
<1>7. ASSUME NEW p \in Peers, DeleteByAddr(p), refused' = refused \cup {p}
      PROVE  Assigned'
  <2>1. /\ binding'[p] = NoBinding /\ \A q \in Peers : q # p => binding'[q] = binding[q]
        /\ \A n \in Channels : chan'[n] = IF n = binding[p].number THEN NoPeer ELSE chan[n]
    BY <1>7, Zenon DEF DeleteByAddr, TurnTypeOK
  <2>2. \A n \in Channels, q \in Peers : Means(n, q)' => Means(n, q)
    <3>1. \A q \in Peers : q # NoPeer
      BY TurnAssumption, Zenon
    <3> QED BY <1>4, <2>1, <3>1 DEF Means
  <2>3. CASE wrapped
    BY <1>1, <2>3, Zenon DEF Assigned
  <2>4. CASE ~wrapped
    <3>1. ASSUME NEW n \in Channels, NEW q \in Peers, Means(n, q), q \notin refused',
                 chan[n] = q, binding[q] # NoBinding
          PROVE  chan'[n] = q /\ binding'[q] # NoBinding
      <4>1. q # p
        BY <1>7, <3>1, Zenon
      <4>2. n # binding[p].number
        <5>1. SUFFICES ASSUME n = binding[p].number PROVE FALSE
          OBVIOUS
        <5>2. binding[p] # NoBinding
          BY <5>1, NumbersTyped DEF NoBinding
        <5>3. Means(n, p)
          BY <5>1, <5>2, Zenon DEF Means
        <5> QED BY <2>4, <3>1, <4>1, <5>3, Zenon DEF Assigned
      <4> QED BY <2>1, <3>1, <4>1, <4>2, Zenon
    <3> QED BY <1>1, <2>2, <3>1, MeansNoMore, Zenon
  <2> QED BY <2>3, <2>4, Zenon
<1> QED BY <1>5, <1>6, <1>7, BindingsAnswered, Zenon

LEMMA AssignedStep ==
    ASSUME TurnTypeOK, Shape, Assigned, limit \in Limits, TurnNext
    PROVE  Assigned'
<1>1. TurnTypeOK' /\ Shape' /\ TurnStep /\ limit.peers \subseteq Peers
  BY TypeStep, TurnAssumption, Zenon DEF TurnNext
<1>2. server \in Servers /\ server' \in Servers
  BY <1>1, Zenon DEF TurnTypeOK
<1>3. CASE SendBindingRequest
  <2> DEFINE r == Req("binding", 0, {}, 0, 0)
  <2>1. r \in Requests /\ r.type # "bind" /\ Perform(r, {})
    BY <1>3, Zenon DEF SendBindingRequest, Req, Requests
  <2> HIDE DEF r
  <2> QED BY <1>3, <2>1, AskedOther, Zenon DEF SendBindingRequest, KeepBindings, KeepServer, KeepHistory, history
<1>4. CASE Allocate
  <2>1. Open("bind")' = Open("bind")
    BY <1>4, Allocated, Zenon DEF Open
  <2>2. UNCHANGED <<binding, chan, next, server, refused, wrapped>>
    BY <1>4, Zenon DEF Allocate, KeepBindings, KeepServer, KeepHistory, history
  <2> QED BY <1>2, <2>1, <2>2, MeansAsBefore, Zenon
<1>5. CASE CloseRelay
  <2> DEFINE r == Req("refresh", relay.nonce, {}, 0, 0)
  <2>1. relay \in Relays
    BY <1>5, Relayed, Zenon DEF CloseRelay
  <2>2. r \in Requests /\ r.type # "bind" /\ Perform(r, {})
    BY <1>5, <2>1, Zenon DEF CloseRelay, Req, Requests, Relays
  <2> HIDE DEF r
  <2> QED BY <1>5, <2>2, AskedOther, Zenon DEF CloseRelay, KeepBindings, KeepServer
<1>6. CASE Close
  <2>1. Open("bind")' = {}
    BY <1>6, Zenon DEF Close, Open
  <2>2. UNCHANGED <<binding, chan, next, server, refused, wrapped>>
    BY <1>6, Zenon DEF Close, KeepBindings
  <2> QED BY <1>2, <2>1, <2>2, MeansAsBefore, Zenon
<1>7. CASE RenewNonce
  <2>1. Open("bind")' = Open("bind") /\ server'.chan = server.chan
    BY <1>2, <1>7, Zenon DEF RenewNonce, client, Open, Servers
  <2>2. UNCHANGED <<binding, chan, next, refused, wrapped>>
    BY <1>7, Zenon DEF RenewNonce, client, history
  <2> QED BY <1>2, <2>1, <2>2, MeansAsBefore, Zenon
<1>8. CASE Tick
  <2>1. /\ Open("bind")' = Open("bind") /\ UNCHANGED <<chan, next, refused, wrapped>>
        /\ \A n \in Channels : server'.chan[n].peer \in {server.chan[n].peer, NoPeer}
    BY <1>8, Aging, Zenon DEF Tick, Open, history
  <2>2. ASSUME NEW p \in Peers
        PROVE  /\ binding'[p] # NoBinding <=> binding[p] # NoBinding
               /\ binding[p] # NoBinding => binding'[p].number = binding[p].number
    <3>1. CASE binding[p] = NoBinding
      BY <1>8, <3>1, Zenon DEF Tick
    <3>2. CASE binding[p] # NoBinding
      <4> DEFINE s == [binding[p] EXCEPT !.age = IF @ > PermLifetime THEN @ ELSE @ + 1]
      <4>1. binding[p] \in Bindings
        BY <3>2, Zenon DEF TurnTypeOK
      <4>2. s \in Bindings /\ s.number = binding[p].number
        BY <4>1 DEF Bindings, PermLifetime
      <4>3. binding'[p] = s
        BY <1>8, <3>2, Zenon DEF Tick
      <4> HIDE DEF s
      <4> QED BY <3>2, <4>2, <4>3, Relayed, Zenon
    <3> QED BY <3>1, <3>2, Zenon
  <2> QED BY <1>2, <2>1, <2>2, MeansAsBefore, Zenon
<1>9. ASSUME NEW p \in Peers, CreatePermission(p)
      PROVE  Assigned'
  <2> DEFINE r == Req("permit", relay.nonce, {p}, 0, 0)
  <2>1. relay \in Relays
    BY <1>9, Relayed, Zenon DEF CreatePermission
  <2>2. r \in Requests /\ r.type # "bind" /\ Perform(r, {})
    BY <1>9, <2>1, Zenon DEF CreatePermission, Req, Requests, Relays
  <2> HIDE DEF r
  <2> QED BY <1>9, <2>2, AskedOther, Zenon DEF CreatePermission, KeepBindings, KeepServer, KeepHistory, history
<1>10. ASSUME NEW p \in Peers, SendTo(p)
       PROVE  Assigned'
  <2>1. relay \in Relays /\ server' = server /\ refused' = refused
    BY <1>10, Relayed, Zenon DEF SendTo, KeepServer
  <2>2. ASSUME NEW n \in Channels, Perform(Req("bind", relay.nonce, {p}, n, 0), {})
        PROVE  \E t \in Requests : tr' = (tr \ {}) \cup {t} /\ t.number = n /\ t.peers = {p}
    <3> DEFINE r == Req("bind", relay.nonce, {p}, n, 0)
    <3>1. r \in Requests /\ r.number = n /\ r.peers = {p}
      BY <2>1, NumbersTyped, Zenon DEF Req, Requests, Relays
    <3>2. PICK t \in Requests : tr' = (tr \ {}) \cup {t} /\ Copy(t, r)
      <4> HIDE DEF r
      <4> QED BY <2>2, <3>1, Performed, Zenon DEF r
    <3> HIDE DEF r
    <3> QED BY <3>1, <3>2, Zenon DEF Copy
  <2>3. CASE binding[p] = NoBinding
    <3>1. Create(p) /\ Perform(Req("bind", relay.nonce, {p}, next, 0), {}) /\ next \in Channels
      BY <1>10, <2>3, Zenon DEF SendTo, TurnTypeOK
    <3>2. PICK t \in Requests : tr' = (tr \ {}) \cup {t} /\ t.number = next /\ t.peers = {p}
      BY <2>2, <3>1, Zenon
    <3> QED BY <2>1, <2>3, <3>1, <3>2, Creates, Zenon
  <2>4. CASE binding[p] # NoBinding
    <3>1. /\ binding' = [binding EXCEPT ![p].st = "Refresh"]
          /\ Perform(Req("bind", relay.nonce, {p}, binding[p].number, 0), {})
          /\ UNCHANGED <<chan, next, wrapped>>
      BY <1>10, <2>4, Zenon DEF SendTo
    <3>2. binding[p] \in Bindings /\ binding[p].number \in Channels
      BY <2>4, Zenon DEF TurnTypeOK, Bindings
    <3>3. PICK t \in Requests : tr' = (tr \ {}) \cup {t} /\ t.number = binding[p].number /\ t.peers = {p}
      BY <2>2, <3>1, <3>2, Zenon
    <3>4. Means(t.number, p)
      BY <2>4, <3>3, Zenon DEF Means
    <3>5. \A u \in Open("bind")' : u \in Open("bind") \/ u = t
      BY <3>3, Zenon DEF Open
    <3>6. ASSUME NEW q \in Peers
          PROVE  /\ binding'[q] # NoBinding <=> binding[q] # NoBinding
                 /\ binding[q] # NoBinding => binding'[q].number = binding[q].number
      <4> DEFINE s == [binding[p] EXCEPT !.st = "Refresh"]
      <4>1. s \in Bindings /\ s.number = binding[p].number
        BY <3>2, Zenon DEF Bindings
      <4>2. binding'[q] = IF q = p THEN s ELSE binding[q]
        BY <3>1, Zenon DEF TurnTypeOK
      <4> HIDE DEF s
      <4> QED BY <2>4, <4>1, <4>2, Relayed, Zenon
    <3>7. \A n \in Channels : server'.chan[n].peer \in {server.chan[n].peer, NoPeer}
      BY <2>1, Zenon
    <3>8. \A u \in Open("bind")' : \/ u \in Open("bind")
                                   \/ \E q \in Peers : u.peers = {q} /\ Means(u.number, q)
      BY <3>3, <3>4, <3>5, Zenon
    <3> QED BY <1>2, <2>1, <3>1, <3>6, <3>7, <3>8, MeansAsBefore, Zenon
  <2> QED BY <2>3, <2>4, Zenon
<1>11. ASSUME NEW gone \in SUBSET tr, TurnTimeout(gone)
       PROVE  Assigned'
  <2>1. UNCHANGED <<binding, chan, next, server, refused, wrapped>>
    BY <1>11, Zenon DEF TurnTimeout, KeepBindings
  <2>2. \A t \in Open("bind")' : t \in Open("bind")
    BY <1>11, TimeoutAsks, Zenon DEF Open
  <2> QED BY <1>2, <2>1, <2>2, MeansAsBefore, Zenon
<1>12. ASSUME NEW t \in tr, NEW arrives \in BOOLEAN, Exchange(t, arrives)
       PROVE  Assigned'
  <2>1. server' = IF Class(t) = "success" THEN Granted(t) ELSE server
    BY <1>12, Zenon DEF Exchange
  <2>2. CASE arrives
    <3>1. HandleStunMessage(t, Answer(t))
      BY <1>12, <2>2, Zenon DEF Exchange
    <3> QED BY <2>1, <3>1, AssignedAnswered, Zenon
  <2>3. CASE ~arrives
    <3>1. UNCHANGED <<tr, binding, chan, next, refused, wrapped>>
      BY <1>12, <2>3, Zenon DEF Exchange, client, history
    <3>2. \A n \in Channels, p \in Peers : Means(n, p)' => Means(n, p)
      <4>1. \A p \in Peers : p # NoPeer
        BY TurnAssumption, Zenon
      <4> QED BY <2>1, <3>1, <4>1, Served DEF Means, Open
    <3> QED BY <3>1, <3>2, MeansNoMore, Zenon
  <2> QED BY <2>2, <2>3, Zenon
<1> QED BY <1>1, <1>3, <1>4, <1>5, <1>6, <1>7, <1>8, <1>9, <1>10, <1>11, <1>12, Zenon DEF TurnStep

-----------------------------------------------------------------------------
(***************************************************************************)
(* The calls.                                                              *)
(***************************************************************************)

\* A transaction more has an id of its own.
LEMMA IdsAdded ==
    ASSUME \A t, u \in tr : t.id = u.id => t = u, NEW t, t.id \notin UsedIds, NEW gone,
           tr' = (tr \ gone) \cup {t}
    PROVE  \A u, v \in tr' : u.id = v.id => u = v
<1>1. \A u \in tr : u.id # t.id
  BY Zenon DEF UsedIds
<1> QED BY <1>1, Zenon

\* A call or none is added with the transaction that serves it.
LEMMA AttendingAdded ==
    ASSUME TurnTypeOK, Attending, NEW t \in Requests, tr' = (tr \ {}) \cup {t},
           t.id \notin UsedIds, t.id \in 1 .. MaxTransactions,
           refused' = refused, misnamed' = misnamed, ~closing' => ~closing,
           \A w \in waiting' : w \in waiting \/ Serves(t, w),
           Counted' => Counted,
           Counted' => \A p \in Peers : relay'.perms[p] = "None" => relay.perms[p] = "None",
           Counted' /\ t.type = "permit" => \A p \in t.peers : relay'.perms[p] # "None"
    PROVE  Attending'
<1>1. \A u, v \in tr' : u.id = v.id => u = v
  BY IdsAdded, Zenon DEF Attending
<1>2. \A u \in tr' : u.type # "allocate" => u.id \in 1 .. MaxTransactions
  BY Zenon DEF Attending
<1>3. ASSUME ~closing', NEW w \in waiting' PROVE AttendedTo(w)'
  <2>1. CASE w \in waiting
    BY <1>3, <2>1, Zenon DEF Attending, AttendedTo
  <2>2. CASE w \notin waiting
    BY <1>3, <2>2, Zenon DEF AttendedTo
  <2> QED BY <2>1, <2>2, Zenon
<1>4. ASSUME Counted', NEW u \in Open("permit")', NEW p \in u.peers, relay'.perms[p] = "None"
      PROVE  p \in refused'
  <2>1. u \in Requests /\ p \in Peers
    BY <1>4, Zenon DEF Open, TurnTypeOK, Requests
  <2>2. u # t
    BY <1>4, Zenon DEF Open
  <2> QED BY <1>4, <2>1, <2>2, Zenon DEF Attending, Open
<1> QED BY <1>1, <1>2, <1>3, <1>4, Zenon DEF Attending

\* The same for the calls that make one transaction.
LEMMA AttendingAsked ==
    ASSUME TurnTypeOK, Attending, NEW r \in Requests, Perform(r, {}), refused' = refused,
           misnamed' = misnamed, ~closing' => ~closing,
           \A w \in waiting' : w \in waiting \/ (w.id = FreeId /\ (r.type = "binding" \/
                                                (r.type = "permit" /\ r.peers = {w.peer}))),
           Counted' => Counted,
           Counted' => \A p \in Peers : relay'.perms[p] = "None" => relay.perms[p] = "None",
           Counted' /\ r.type = "permit" => \A p \in r.peers : relay'.perms[p] # "None"
    PROVE  Attending'
<1>1. PICK t \in Requests : /\ tr' = (tr \ {}) \cup {t} /\ Copy(t, r)
                            /\ t.id = FreeId /\ FreeId \notin UsedIds
                            /\ t.id \in 1 .. MaxTransactions
  BY Performed, Zenon
<1>2. \A w \in waiting' : w \in waiting \/ Serves(t, w)
  BY <1>1, Zenon DEF Serves, Copy
<1>3. Counted' /\ t.type = "permit" => \A p \in t.peers : relay'.perms[p] # "None"
  BY <1>1, Zenon DEF Copy
<1> QED BY <1>1, <1>2, <1>3, AttendingAdded, Zenon

\* What an answer makes of the call that waited for it: it is told, unless the entry
\* of its peer has gone with a refusal.
LEMMA CallsTold ==
    ASSUME TurnTypeOK, Shape, Attending, Counted \/ relay = NoRelay, ~closing,
           NEW t \in tr, HandleStunMessage(t, Answer(t)), NEW w \in waiting', w.id = t.id,
           \/ t.type \in {"binding", "allocate"}
           \/ t.type = "permit" /\ t.peers = {w.peer}
    PROVE  w.peer \in refused'
<1>1. w \in waiting /\ refused \subseteq refused' /\ t \in Requests
  BY CountsAnswered, BindingsAnswered, Zenon DEF TurnTypeOK
<1>2. CASE t.type = "binding"
  BY <1>2, Zenon DEF HandleStunMessage, BindingAnswered, AllocateAnswered, Told
<1>3. CASE t.type = "allocate"
  BY <1>3, Zenon DEF HandleStunMessage, AllocateAnswered, Told
<1>4. CASE t.type = "permit" /\ t.peers = {w.peer}
  <2>1. PermitAnswered(t, Answer(t))
    BY <1>4, Zenon DEF HandleStunMessage, AllocateAnswered
  <2>2. waiting' = waiting /\ relay.perms[w.peer] = "None"
    BY <1>4, <2>1, Zenon DEF PermitAnswered, Told
  <2>3. relay # NoRelay
    BY <1>4, Zenon DEF Shape
  <2> QED BY <1>1, <1>4, <2>2, <2>3, Zenon DEF Attending, Open
<1> QED BY <1>2, <1>3, <1>4, Zenon

\* The second request of allocate has an id that nothing else has.
LEMMA SecondId ==
    ASSUME TurnTypeOK, Shape, Attending, NEW t \in tr, t.type = "attempt", NEW u,
           u.id = NextId(t.id), tr' = (tr \ {t}) \cup {u}
    PROVE  \A v, w \in tr' : v.id = w.id => v = w
<1>1. \A v \in tr \ {t} : v.type # "allocate"
  BY Zenon DEF Shape, Open
<1>2. \A v \in tr : v.type # "allocate" => v.id \in 1 .. MaxTransactions
  BY Zenon DEF Attending
<1>3. t.id \in 1 .. MaxTransactions
  BY <1>2
<1>4. \A n \in 1 .. MaxTransactions : n # NextId(t.id)
  BY <1>3, TurnAssumption DEF NextId
<1>5. \A v \in tr \ {t} : v.id # u.id
  BY <1>1, <1>2, <1>4, Zenon
<1>6. \A v, w \in tr : v.id = w.id => v = w
  BY Zenon DEF Attending
<1> QED BY <1>5, <1>6, Zenon

\* An answer.
LEMMA AttendingAnswered ==
    ASSUME TurnTypeOK, Shape, Attending, NEW t \in tr, HandleStunMessage(t, Answer(t))
    PROVE  Attending'
<1>1. /\ closing' = closing /\ refused \subseteq refused' /\ waiting' \subseteq waiting
      /\ t \in Requests
  BY CountsAnswered, BindingsAnswered, Zenon DEF TurnTypeOK
<1>2. tr \ {t} \subseteq tr' /\ misnamed' = misnamed
  BY OthersStay, Zenon DEF HandleStunMessage
<1>3. \A u, v \in tr' : u.id = v.id => u = v
  <2>1. CASE t.type # "attempt"
    BY <2>1, Answered, Zenon DEF Attending
  <2>2. CASE t.type = "attempt"
    <3>1. PICK u \in Requests : tr' = (tr \ {t}) \cup {u} /\ u.id = NextId(t.id)
      BY <2>2, Answered, Zenon
    <3> QED BY <2>2, <3>1, SecondId, Zenon
  <2> QED BY <2>1, <2>2, Zenon
<1>4. ASSUME ~closing', NEW w \in waiting'
      PROVE  AttendedTo(w)'
  <2>1. AttendedTo(w)
    BY <1>1, <1>4, Zenon DEF Attending
  <2>2. CASE w.peer \in refused \/ w.id \in misnamed
    BY <1>1, <1>2, <2>2, Zenon DEF AttendedTo
  <2>3. ASSUME NEW u \in tr, Serves(u, w), u # t PROVE AttendedTo(w)'
    BY <1>2, <2>3, Zenon DEF AttendedTo
  <2>4. CASE t.type = "attempt" /\ w.id = NextId(t.id)
    <3>1. PICK u \in Requests : tr' = (tr \ {t}) \cup {u} /\ u.type = "allocate" /\ u.id = NextId(t.id)
      BY <2>4, Answered, Zenon
    <3> QED BY <2>4, <3>1, Zenon DEF AttendedTo, Serves
  <2>5. CASE /\ w.id = t.id
             /\ t.type \in {"binding", "allocate"} \/ (t.type = "permit" /\ t.peers = {w.peer})
    <3>1. Counted \/ relay = NoRelay
      BY <1>1, <1>4, Zenon DEF Counted
    <3>2. w.peer \in refused'
      BY <1>1, <1>4, <2>5, <3>1, CallsTold, Zenon
    <3> QED BY <3>2, Zenon DEF AttendedTo
  <2> QED BY <2>1, <2>2, <2>3, <2>4, <2>5, Zenon DEF AttendedTo, Serves
<1>5. ASSUME Counted', NEW u \in Open("permit")', NEW p \in u.peers, relay'.perms[p] = "None"
      PROVE  p \in refused'
  <2>1. u \in Open("permit") /\ u \in Requests /\ p \in Peers
    BY <1>5, Answered DEF Open, TurnTypeOK, Requests
  <2>2. relay # NoRelay /\ Counted
    BY <1>1, <1>5, <2>1, Zenon DEF Shape, Open, Counted
  <2>3. CASE relay.perms[p] = "None"
    BY <1>1, <2>1, <2>2, <2>3, Zenon DEF Attending
  <2>4. CASE relay.perms[p] # "None"
    <3>1. t.type = "permit"
      BY <1>5, <2>2, <2>4, RelayAnswered, Zenon
    <3>2. PICK q \in Peers : t.peers = {q} /\ relay'.perms =
             [relay.perms EXCEPT ![q] = IF Class(t) = "success" THEN PermissionGranted(q) ELSE "None"]
      BY <2>2, <3>1, RelayAnswered, Zenon
    <3>3. relay.perms \in [Peers -> {"None", "Idle", "Permitted"}]
      BY <2>2, Relayed, Zenon DEF Relays
    <3>4. q = p /\ Class(t) # "success"
      BY <1>5, <2>1, <2>4, <3>2, <3>3, Zenon DEF PermissionGranted
    <3>5. PermitAnswered(t, Answer(t)) /\ Answer(t).class = Class(t)
      BY <3>1, Zenon DEF HandleStunMessage, AllocateAnswered, Answer
    <3> QED BY <3>2, <3>4, <3>5, Zenon DEF PermitAnswered
  <2> QED BY <2>3, <2>4, Zenon
<1>6. \A u \in tr' : u.type # "allocate" => u.id \in 1 .. MaxTransactions
  BY OthersStay, Zenon DEF Attending
<1> QED BY <1>3, <1>4, <1>5, <1>6, Zenon DEF Attending

LEMMA AttendingStep ==
    ASSUME TurnTypeOK, Shape, Attending, limit \in Limits, TurnNext
    PROVE  Attending'
<1>1. TurnTypeOK' /\ Shape' /\ TurnStep /\ limit.peers \subseteq Peers
  BY TypeStep, TurnAssumption, Zenon DEF TurnNext
<1>3. CASE SendBindingRequest
  <2> DEFINE r == Req("binding", 0, {}, 0, 0)
  <2>1. r \in Requests /\ r.type = "binding" /\ Perform(r, {})
    BY <1>3, Zenon DEF SendBindingRequest, Req, Requests
  <2> HIDE DEF r
  <2>2. /\ waiting' = waiting \cup {[id |-> FreeId, peer |-> NoPeer]}
        /\ UNCHANGED <<relay, refused, misnamed, closing>>
    BY <1>3, Zenon DEF SendBindingRequest, KeepHistory, history
  <2> QED BY <2>1, <2>2, AttendingAsked DEF Counted
<1>4. CASE Allocate
  <2>1. PICK t \in Requests :
           /\ tr' = (tr \ {}) \cup {t} /\ t.type = "attempt"
           /\ t.id \in 1 .. MaxTransactions /\ t.id \notin UsedIds
           /\ waiting' = waiting \cup {[id |-> NextId(t.id), peer |-> NoPeer]}
    BY <1>4, Allocated, Zenon
  <2>2. UNCHANGED <<relay, refused, misnamed, closing>>
    BY <1>4, Zenon DEF Allocate, KeepHistory, history
  <2>3. \A w \in waiting' : w \in waiting \/ Serves(t, w)
    BY <2>1 DEF Serves
  <2>4. t.type # "permit"
    BY <2>1
  <2> QED BY <2>1, <2>2, <2>3, <2>4, AttendingAdded, Zenon DEF Counted
<1>5. CASE CloseRelay
  <2> DEFINE r == Req("refresh", relay.nonce, {}, 0, 0)
  <2>1. relay \in Relays
    BY <1>5, Relayed, Zenon DEF CloseRelay
  <2>2. r \in Requests /\ r.type = "refresh" /\ Perform(r, {})
    BY <1>5, <2>1, Zenon DEF CloseRelay, Req, Requests, Relays
  <2> HIDE DEF r
  <2>3. UNCHANGED <<relay, refused, misnamed, waiting>> /\ closing'
    BY <1>5, Zenon DEF CloseRelay
  <2> QED BY <2>2, <2>3, AttendingAsked, Zenon DEF Counted
<1>6. CASE Close
  BY <1>6, Zenon DEF Close, Attending, Counted
<1>7. CASE RenewNonce
  BY <1>7, Zenon DEF RenewNonce, Attending, AttendedTo, Open, Counted, client, history
<1>8. CASE Tick
  <2>1. UNCHANGED <<tr, waiting, refused, misnamed, closing>> /\ relay'.perms = relay.perms /\ relay # NoRelay
    BY <1>8, Ticked, Zenon DEF Tick, history
  <2> QED BY <2>1, Zenon DEF Attending, AttendedTo, Open, Counted
<1>9. ASSUME NEW p \in Peers, CreatePermission(p)
      PROVE  Attending'
  <2> DEFINE r == Req("permit", relay.nonce, {p}, 0, 0)
  <2>1. relay \in Relays /\ relay # NoRelay
    BY <1>9, Relayed, Zenon DEF CreatePermission
  <2>2. r \in Requests /\ r.type = "permit" /\ r.peers = {p} /\ Perform(r, {})
    BY <1>9, <2>1, Zenon DEF CreatePermission, Req, Requests, Relays
  <2> HIDE DEF r
  <2>3. /\ waiting' = waiting \cup {[id |-> FreeId, peer |-> p]}
        /\ UNCHANGED <<refused, misnamed, closing>>
    BY <1>9, Zenon DEF CreatePermission, KeepHistory, history
  <2>4. \A q \in Peers : relay'.perms[q] = IF q = p THEN "Idle" ELSE relay.perms[q]
    BY <1>9, <2>1, Zenon DEF CreatePermission, Relays
  <2> QED BY <2>1, <2>2, <2>3, <2>4, AttendingAsked DEF Counted
<1>10. ASSUME NEW p \in Peers, SendTo(p)
       PROVE  Attending'
  <2>1. PICK n \in Channels : Perform(Req("bind", relay.nonce, {p}, n, 0), {})
    <3>1. binding[p] # NoBinding => binding[p].number \in Channels
      BY Zenon DEF TurnTypeOK, Bindings
    <3> QED BY <1>10, <3>1, Zenon DEF SendTo, TurnTypeOK
  <2> DEFINE r == Req("bind", relay.nonce, {p}, n, 0)
  <2>2. relay \in Relays
    BY <1>10, Relayed, Zenon DEF SendTo
  <2>3. r \in Requests /\ r.type = "bind"
    BY <2>2, NumbersTyped, Zenon DEF Relays, Req, Requests
  <2>4. Perform(r, {})
    BY <2>1, Zenon
  <2> HIDE DEF r
  <2>5. UNCHANGED <<relay, refused, misnamed, closing, waiting>>
    BY <1>10, Zenon DEF SendTo
  <2> QED BY <2>3, <2>4, <2>5, AttendingAsked, Zenon DEF Counted
<1>11. ASSUME NEW gone \in SUBSET tr, TurnTimeout(gone)
       PROVE  Attending'
  <2>1. /\ UNCHANGED <<refused, closing>> /\ (relay = NoRelay <=> relay' = NoRelay)
        /\ relay # NoRelay => relay'.perms = relay.perms
        /\ waiting' = {w \in waiting : w.id \notin {t.id : t \in gone}}
        /\ misnamed' = misnamed \cup {NextId(t.id) : t \in {u \in gone : u.type = "attempt"}}
    BY <1>11, TimeoutAsks, Relayed, Zenon DEF TurnTimeout, Told
  <2>2. tr \ gone \subseteq tr' /\ \A t \in Open("permit")' : t \in Open("permit")
    BY <1>11, TimeoutAsks, Zenon DEF Open
  <2>3. PerformAll(TimerRequests, gone) /\ TimerRequests \subseteq Requests
    BY <1>11, TimersAsk, Zenon DEF TurnTimeout
  <2>4. /\ \A t, u \in tr' \ tr : t.id = u.id => t = u
        /\ \A t \in tr' : t \notin tr => t.id \notin UsedIds /\ t.id \in 1 .. MaxTransactions
    BY <2>3, PerformedAll, Zenon
  <2>5. \A t, u \in tr' : t.id = u.id => t = u
    BY <2>4 DEF Attending, UsedIds
  <2>6. ASSUME ~closing', NEW w \in waiting' PROVE AttendedTo(w)'
    <3>1. CASE w.peer \in refused \/ w.id \in misnamed
      BY <2>1, <3>1, Zenon DEF AttendedTo
    <3>2. ASSUME NEW t \in tr, Serves(t, w) PROVE AttendedTo(w)'
      <4>1. CASE t \notin gone
        BY <2>2, <3>2, <4>1, Zenon DEF AttendedTo
      <4>2. CASE t \in gone
        <5>1. t.id # w.id
          BY <2>1, <2>6, <4>2, Zenon
        <5>2. w.id \in misnamed'
          BY <2>1, <3>2, <4>2, <5>1, Zenon DEF Serves
        <5> QED BY <5>2, Zenon DEF AttendedTo
      <4> QED BY <4>1, <4>2, Zenon
    <3> QED BY <2>1, <2>6, <3>1, <3>2, Zenon DEF Attending, AttendedTo
  <2>7. \A t \in tr' : t.type # "allocate" => t.id \in 1 .. MaxTransactions
    BY <2>4, Zenon DEF Attending
  <2> QED BY <2>1, <2>2, <2>5, <2>6, <2>7, Zenon DEF Attending, Counted
<1>12. ASSUME NEW t \in tr, NEW arrives \in BOOLEAN, Exchange(t, arrives)
       PROVE  Attending'
  <2>1. CASE arrives
    <3>1. HandleStunMessage(t, Answer(t))
      BY <1>12, <2>1, Zenon DEF Exchange
    <3> QED BY <3>1, AttendingAnswered, Zenon
  <2>2. CASE ~arrives
    BY <1>12, <2>2, Zenon DEF Exchange, Attending, AttendedTo, Open, Counted, client, history
  <2> QED BY <2>1, <2>2, Zenon
<1> QED BY <1>1, <1>3, <1>4, <1>5, <1>6, <1>7, <1>8, <1>9, <1>10, <1>11, <1>12, Zenon DEF TurnStep

-----------------------------------------------------------------------------
(***************************************************************************)
(* The theorems.                                                           *)
(***************************************************************************)

LEMMA TurnInvInit == TurnInit => TurnInv
<1> SUFFICES ASSUME TurnInit PROVE TurnInv
  OBVIOUS
<1>1. TurnTypeOK
  BY TypeInit, Zenon
<1>2. Shape /\ Attending
  BY Zenon DEF TurnInit, Shape, Open, Attending, Counted
<1>3. Leased /\ Permitted
  BY Zenon DEF TurnInit, Leased, Permitted, Counted, EmptyServer
<1>4. \A n \in Channels, p \in Peers : ~Means(n, p)
  BY TurnAssumption, Zenon DEF TurnInit, Means, Open, EmptyServer
<1> QED BY <1>1, <1>2, <1>3, <1>4, Zenon DEF TurnInit, TurnInv, Assigned

LEMMA TurnInvStep == TurnInv /\ [TurnNext]_turnVars => TurnInv'
<1> SUFFICES ASSUME TurnInv, [TurnNext]_turnVars PROVE TurnInv'
  OBVIOUS
<1>1. CASE TurnNext
  <2>1. limit' = limit
    BY <1>1, Zenon DEF TurnNext
  <2> QED BY <1>1, <2>1, TypeStep, LeasedStep, PermittedStep, AssignedStep, AttendingStep, Zenon DEF TurnInv
<1>2. CASE UNCHANGED turnVars
  <2>1. TurnTypeOK' /\ Shape'
    BY <1>2, TypeStep, Zenon DEF TurnInv
  <2>2. Leased' /\ Permitted' /\ Attending' /\ limit' = limit
    BY <1>2, Zenon DEF TurnInv, turnVars, client, history, Leased, Permitted, Attending, AttendedTo, Open, Counted, Margin
  <2>3. Assigned'
    BY <1>2 DEF TurnInv, turnVars, client, history, Assigned, Means, Open
  <2> QED BY <2>1, <2>2, <2>3, Zenon DEF TurnInv
<1> QED BY <1>1, <1>2, Zenon

\* What the client counts on is there at the server: the invariant says so.
LEMMA TurnInvTables == TurnInv => TablesAgree
<1> SUFFICES ASSUME TurnInv PROVE TablesAgree
  OBVIOUS
<1>1. AllocationHeld
  BY Halves DEF TurnInv, Leased, Counted, AllocationHeld, TurnTypeOK, Servers
<1>2. PermissionHeld
  <2>1. Margin \in {1, 3} /\ \A p \in Peers : server.perm[p] \in Nat
    BY PermsTyped DEF TurnInv, Margin, PermLifetime, PermRefresh
  <2> QED BY <2>1 DEF TurnInv, Permitted, Counted, PermissionHeld
<1>3. ASSUME ~wrapped, NEW n \in Channels, server.chan[n].peer # NoPeer
      PROVE  /\ FindByNumber(n) \in {server.chan[n].peer, NoPeer}
             /\ \A p \in Peers : binding[p] # NoBinding /\ binding[p].number = n
                                    => server.chan[n].peer = p
             /\ server.chan[n].peer \notin refused => FindByNumber(n) = server.chan[n].peer
  <2> DEFINE p == server.chan[n].peer
  <2>1. p \in Peers /\ Means(n, p)
    BY <1>3, Zenon DEF TurnInv, TurnTypeOK, Servers, Means
  <2>2. \A q \in Peers : Means(n, q) => q = p
    BY <1>3, <2>1, Zenon DEF TurnInv, Assigned
  <2>3. p \notin refused => chan[n] = p /\ binding[p] # NoBinding
    BY <1>3, <2>1 DEF TurnInv, Assigned
  <2>4. chan[n] # NoPeer => chan[n] \in Peers /\ Means(n, chan[n])
    BY Zenon DEF TurnInv, TurnTypeOK, Means
  <2>5. FindByNumber(n) \in {p, NoPeer}
    BY <2>2, <2>4, Zenon DEF FindByNumber
  <2>6. \A q \in Peers : binding[q] # NoBinding /\ binding[q].number = n => p = q
    BY <2>2, Zenon DEF Means
  <2>7. p \notin refused => FindByNumber(n) = p
    BY <1>3, <2>3, Zenon DEF FindByNumber
  <2> QED BY <2>5, <2>6, <2>7, Zenon
<1>4. ChannelsAgree /\ InboundFound
  BY <1>3, Zenon DEF ChannelsAgree, InboundFound
<1> QED BY <1>1, <1>2, <1>4, Zenon DEF TablesAgree

LEMMA TurnInvCalls == TurnInv => CallsAnswered
BY Zenon DEF TurnInv, Attending, AttendedTo, Serves, Answers, CallsAnswered

\* The allocation, the permissions and the channels the client counts on are the
\* server's, for any peers, any channel numbers and any lifetime, whatever is lost,
\* refused or out of date (TablesAgree).
THEOREM TablesAgreeTheorem == TurnSpec => []TablesAgree
BY TurnInvInit, TurnInvStep, TurnInvTables, PTL DEF TurnSpec

\* Every call of the application, those of allocate included, is attended to until an
\* event with the id it was given answers it, with the exceptions CallsAnswered makes.
THEOREM CallsAnsweredTheorem == TurnSpec => []CallsAnswered
BY TurnInvInit, TurnInvStep, TurnInvCalls, PTL DEF TurnSpec

-----------------------------------------------------------------------------
(***************************************************************************)
(* The STUN client.                                                        *)
(***************************************************************************)
Event == [id : Ids, result : {"ok", "timeout", "closed"}]

StunTypeOK ==
    /\ closed \in BOOLEAN /\ registered \subseteq Ids /\ events \in Seq(Event)
    /\ attempt \in [Ids -> 0 .. MaxAttempts + 1]
    /\ started \subseteq Ids /\ ended \in [Ids -> {0, 1}]

\* The client keeps an entry exactly for the transactions that run, and only those
\* that were started have ended.
KnownRuns ==
    \A id \in Ids : /\ Known(id) <=> id \in started /\ ended[id] = 0
                    /\ ended[id] = 1 => id \in started

StunInv == StunTypeOK /\ KnownRuns /\ Attended

\* What the agent queues for a set of ids is a sequence of events that has one for
\* each of them (Agent::collect, Agent::close).
LEMMA Queued ==
    ASSUME NEW ids \in SUBSET Ids, NEW result \in {"ok", "timeout", "closed"},
           NEW es \in AllEvents(ids, result)
    PROVE  es \in Seq(Event) /\ \A id \in ids : \E i \in DOMAIN es : es[i].id = id
<1>1. PICK s \in Orders(ids) : es = [i \in DOMAIN s |-> [id |-> s[i], result |-> result]]
  BY Zenon DEF AllEvents
<1>2. PICK n \in 0 .. Cardinality(ids) : s \in [1 .. n -> ids]
  BY <1>1, Zenon DEF Orders
<1>3. \A id \in ids : \E i \in DOMAIN s : s[i] = id
  BY <1>1, Zenon DEF Orders
<1>4. es \in [1 .. n -> Event]
  BY <1>1, <1>2, Zenon DEF Event
<1>5. es \in Seq(Event)
  <2>1. n \in Nat
    OBVIOUS
  <2>. QED BY <1>4, <2>1
<1>6. \A id \in ids : \E i \in DOMAIN es : es[i].id = id
  BY <1>1, <1>3, Zenon
<1> QED BY <1>5, <1>6, Zenon

\* Where events are only added to the queue, none is lost from it.
LEMMA Kept ==
    ASSUME NEW s \in Seq(Event), NEW t \in Seq(Event), NEW id
    PROVE  /\ (\E i \in DOMAIN s : s[i].id = id) => \E i \in DOMAIN (s \o t) : (s \o t)[i].id = id
           /\ (\E i \in DOMAIN t : t[i].id = id) => \E i \in DOMAIN (s \o t) : (s \o t)[i].id = id
           /\ s \o t \in Seq(Event)
<1>1. ASSUME NEW i \in DOMAIN s, s[i].id = id
      PROVE  \E j \in DOMAIN (s \o t) : (s \o t)[j].id = id
  <2>1. i \in DOMAIN (s \o t) /\ (s \o t)[i] = s[i]
    OBVIOUS
  <2> QED BY <1>1, <2>1, Zenon
<1>2. ASSUME NEW i \in DOMAIN t, t[i].id = id
      PROVE  \E j \in DOMAIN (s \o t) : (s \o t)[j].id = id
  <2>1. Len(s) + i \in DOMAIN (s \o t) /\ (s \o t)[Len(s) + i] = t[i]
    OBVIOUS
  <2> QED BY <1>2, <2>1, Zenon
<1>3. s \o t \in Seq(Event)
  OBVIOUS
<1> QED BY <1>1, <1>2, <1>3, Zenon

\* The loop of poll_event up to the n-th event: a transaction that goes on is one
\* more attempt, and is with the agent again if its event was among those passed.
LEMMA PolledKeeps ==
    ASSUME StunInv, NEW n \in 1 .. Len(events) + 1, NEW gone \in SUBSET Ids,
           \A i \in 1 .. n - 1 : ~Returned(i),
           \A id \in gone : Known(id),
           n <= Len(events) => gone = {events[n].id},
           Polled(n, gone), UNCHANGED <<closed, started, answers>>
    PROVE  /\ StunInv'
           /\ \A id \in Ids : id \notin gone => ended'[id] = ended[id]
           /\ \A id \in gone : ended'[id] = 1
<1> USE DEF StunInv
<1>1. \A i \in DOMAIN events : events[i] \in Event /\ events[i].id \in Ids
  <2>1. \A i \in DOMAIN events : events[i] \in Event
    BY DEF StunTypeOK
  <2> QED BY <2>1, Zenon DEF Event
<1>2. Restarted(n) \subseteq Ids
  BY <1>1 DEF Restarted
<1>3. \A id \in Restarted(n) : Known(id) /\ attempt[id] < MaxAttempts
  <2> SUFFICES ASSUME NEW i \in 1 .. n - 1, Known(events[i].id)
               PROVE  attempt[events[i].id] < MaxAttempts
    BY Zenon DEF Restarted
  <2>1. ~Returned(i) /\ i \in DOMAIN events
    BY DEF StunTypeOK
  <2> QED BY <1>1, <2>1, StunAssumption DEF Returned, StunTypeOK
<1>4. StunTypeOK'
  <2>1. events' \in Seq(Event)
    BY DEF Polled, StunTypeOK
  <2>2. \A id \in Ids : attempt'[id] \in 0 .. MaxAttempts + 1
    BY <1>2, <1>3, StunAssumption DEF Polled, StunTypeOK, NoTransaction
  <2>3. attempt' \in [Ids -> 0 .. MaxAttempts + 1]
    BY <2>2, Zenon DEF Polled
  <2>4. \A id \in gone : ended[id] = 0
    BY Zenon DEF KnownRuns
  <2>5. ended' \in [Ids -> {0, 1}]
    BY <2>4 DEF Polled, StunTypeOK
  <2>6. registered' \subseteq Ids
    BY <1>2, Zenon DEF Polled, StunTypeOK
  <2> QED BY <2>1, <2>3, <2>5, <2>6, Zenon DEF StunTypeOK
<1>5. \A id \in Ids : id \notin gone => ended'[id] = ended[id]
  BY Zenon DEF Polled
<1>6. \A id \in gone : ended'[id] = 1
  BY DEF Polled, KnownRuns
<1>7. \A id \in Ids : Known(id)' <=> Known(id) /\ id \notin gone
  BY <1>3, StunAssumption DEF Polled, Known, NoTransaction, StunTypeOK
<1>8. KnownRuns'
  BY <1>5, <1>6, <1>7 DEF KnownRuns
<1>9. Attended'
  <2> SUFFICES ASSUME NEW id \in started, ended'[id] = 0, id \notin registered'
               PROVE  \E i \in DOMAIN events' : events'[i].id = id
    BY <1>4, <1>8, Zenon DEF Attended, KnownRuns, StunTypeOK
  <2>1. id \in Ids /\ id \notin gone /\ ended[id] = 0
    BY <1>5, <1>6 DEF StunTypeOK
  <2>2. id \notin registered /\ id \notin Restarted(n)
    BY Zenon DEF Polled
  <2>3. PICK i \in DOMAIN events : events[i].id = id
    BY <2>1, <2>2, Zenon DEF Attended
  <2>4. Known(id)
    BY <2>1, Zenon DEF KnownRuns
  <2>5. i \notin 1 .. n - 1
    BY <2>2, <2>3, <2>4, Zenon DEF Restarted
  <2>6. i # n
    BY <2>1, <2>3 DEF StunTypeOK
  <2>7. i - n \in DOMAIN events' /\ events'[i - n] = events[i]
    BY <2>5, <2>6 DEF Polled, StunTypeOK
  <2> QED BY <2>3, <2>7, Zenon
<1> QED BY <1>4, <1>5, <1>6, <1>8, <1>9, Zenon

\* Every step of the client keeps the invariant and is a step of the service, or
\* none.
LEMMA StunStep ==
    ASSUME StunInv, [StunNext]_stunVars
    PROVE  StunInv' /\ [Service!Next]_<<started, ended>>
<1> USE DEF StunInv
<1>1. ASSUME NEW id \in Ids, HandleWrite(id)
      PROVE  StunInv' /\ Service!Start(id)
  <2>1. StunTypeOK'
    BY <1>1, StunAssumption DEF HandleWrite, StunTypeOK
  <2>2. KnownRuns'
    BY <1>1, StunAssumption DEF HandleWrite, StunTypeOK, KnownRuns, Known, NoTransaction
  <2>3. Attended'
    BY <1>1, <2>1, <2>2, Zenon DEF HandleWrite, StunTypeOK, KnownRuns, Attended
  <2> QED BY <1>1, <2>1, <2>2, <2>3, Zenon DEF HandleWrite, Service!Start
<1>2. ASSUME NEW ids \in SUBSET Ids, NEW es \in Seq(Event),
             \A id \in ids : \E i \in DOMAIN es : es[i].id = id,
             closed' \in BOOLEAN, registered' = registered \ ids, events' = events \o es,
             UNCHANGED <<attempt, started, ended>>
      PROVE  StunInv'
  <2>1. StunTypeOK'
    BY <1>2, Kept, Zenon DEF StunTypeOK
  <2>2. KnownRuns'
    BY <1>2, Zenon DEF KnownRuns, Known
  <2>3. ASSUME NEW id \in started, ended[id] = 0
        PROVE  Known(id)' /\ (id \in registered' \/ \E i \in DOMAIN events' : events'[i].id = id)
    <3>1. Known(id) /\ (id \in registered \/ \E i \in DOMAIN events : events[i].id = id)
      BY <2>3, Zenon DEF Attended
    <3>2. Known(id)'
      BY <1>2, <3>1, Zenon DEF Known
    <3>3. CASE id \in registered /\ id \notin ids
      BY <1>2, <3>2, <3>3, Zenon
    <3>4. CASE id \in ids
      <4>1. \E i \in DOMAIN es : es[i].id = id
        BY <1>2, <3>4, Zenon
      <4>2. events \in Seq(Event)
        BY Zenon DEF StunTypeOK
      <4>3. PICK i \in DOMAIN es : es[i].id = id
        BY <4>1, Zenon
      <4>4. Len(events) + i \in DOMAIN (events \o es) /\ (events \o es)[Len(events) + i] = es[i]
        BY <4>2, <4>3
      <4>5. \E j \in DOMAIN (events \o es) : (events \o es)[j].id = id
        BY <4>3, <4>4, Zenon
      <4> QED BY <1>2, <3>2, <4>5, Zenon
    <3>5. CASE \E i \in DOMAIN events : events[i].id = id
      <4>1. events \in Seq(Event)
        BY Zenon DEF StunTypeOK
      <4>2. PICK i \in DOMAIN events : events[i].id = id
        BY <3>5, Zenon
      <4>3. i \in DOMAIN (events \o es) /\ (events \o es)[i] = events[i]
        BY <4>1, <4>2, Kept
      <4>4. i \in DOMAIN events' /\ events'[i].id = id
        BY <1>2, <4>2, <4>3, Zenon
      <4> QED BY <3>2, <4>4, Zenon
    <3> QED BY <3>1, <3>3, <3>4, <3>5, Zenon
  <2>4. Attended'
    BY <1>2, <2>3, Zenon DEF Attended
  <2> QED BY <2>1, <2>2, <2>4, Zenon
<1>3. ASSUME NEW id \in Ids, HandleRead(id)
      PROVE  StunInv' /\ UNCHANGED <<started, ended>>
  <2> DEFINE es == <<[id |-> id, result |-> "ok"]>>
  <2>1. es \in Seq(Event) /\ \A x \in {id} : \E i \in DOMAIN es : es[i].id = x
    <3>1. es \in Seq(Event)
      BY DEF Event
    <3>2. 1 \in DOMAIN es /\ es[1].id = id
      OBVIOUS
    <3> QED BY <3>1, <3>2, Zenon
  <2>2. events' = events \o es
    BY <1>3 DEF HandleRead, StunTypeOK
  <2> HIDE DEF es
  <2>3. closed' \in BOOLEAN /\ registered' = registered \ {id} /\ UNCHANGED <<attempt, started, ended>>
    BY <1>3, Zenon DEF HandleRead, StunTypeOK
  <2>4. {id} \in SUBSET Ids
    OBVIOUS
  <2> QED BY <1>2, <2>1, <2>2, <2>3, <2>4, Zenon
<1>4. ASSUME NEW ids \in SUBSET registered, HandleTimeout(ids)
      PROVE  StunInv' /\ UNCHANGED <<started, ended>>
  <2>1. PICK es \in AllEvents(ids, "timeout") : events' = events \o es
    BY <1>4, Zenon DEF HandleTimeout
  <2>2. ids \in SUBSET Ids
    BY Zenon DEF StunTypeOK
  <2>3. es \in Seq(Event) /\ \A id \in ids : \E i \in DOMAIN es : es[i].id = id
    BY <2>2, Queued, Zenon
  <2> QED BY <1>2, <1>4, <2>1, <2>2, <2>3, Zenon DEF HandleTimeout, StunTypeOK
<1>5. ASSUME HandleClose
      PROVE  StunInv' /\ UNCHANGED <<started, ended>>
  <2>1. PICK es \in AllEvents(registered, "closed") : events' = events \o es
    BY <1>5, Zenon DEF HandleClose
  <2>2. registered \in SUBSET Ids /\ registered' = registered \ registered
    BY <1>5, Zenon DEF StunTypeOK, HandleClose
  <2>3. es \in Seq(Event) /\ \A id \in registered : \E i \in DOMAIN es : es[i].id = id
    BY <2>2, Queued, Zenon
  <2> QED BY <1>2, <1>5, <2>1, <2>2, <2>3, Zenon DEF HandleClose, StunTypeOK
<1>6. ASSUME PollEvent
      PROVE  StunInv' /\ ((\E id \in Ids : Service!End(id)) \/ UNCHANGED <<started, ended>>)
  <2>0. UNCHANGED <<closed, started, answers>>
    BY <1>6, Zenon DEF PollEvent
  <2>1. ASSUME NEW n \in 1 .. Len(events), Returned(n), \A i \in 1 .. n - 1 : ~Returned(i),
               Polled(n, {events[n].id})
        PROVE  StunInv' /\ \E id \in Ids : Service!End(id)
    <3>0. n \in 1 .. Len(events) + 1 /\ n \in DOMAIN events /\ events[n] \in Event
      BY DEF StunTypeOK
    <3>1. n \in 1 .. Len(events) + 1 /\ events[n].id \in Ids
      BY <3>0, Zenon DEF Event
    <3>2. Known(events[n].id)
      BY <2>1, Zenon DEF Returned
    <3>3. /\ StunInv'
          /\ \A id \in Ids : id # events[n].id => ended'[id] = ended[id]
          /\ ended'[events[n].id] = 1
      BY <2>0, <2>1, <3>1, <3>2, PolledKeeps
    <3>4. ended' = [ended EXCEPT ![events[n].id] = 1]
      BY <3>1, <3>3, Zenon DEF StunTypeOK
    <3>5. Service!End(events[n].id)
      BY <2>0, <3>1, <3>2, <3>4, Zenon DEF Service!End, KnownRuns
    <3> QED BY <3>1, <3>3, <3>5, Zenon
  <2>2. ASSUME \A i \in 1 .. Len(events) : ~Returned(i), Polled(Len(events) + 1, {})
        PROVE  StunInv' /\ UNCHANGED <<started, ended>>
    <3>1. Len(events) \in Nat
      BY DEF StunTypeOK
    <3>2. StunInv' /\ \A id \in Ids : ended'[id] = ended[id]
      BY <2>0, <2>2, <3>1, PolledKeeps
    <3>3. ended' = ended
      BY <3>2 DEF StunTypeOK
    <3> QED BY <2>0, <3>2, <3>3, Zenon
  <2> QED BY <1>6, <2>1, <2>2, Zenon DEF PollEvent
<1>7. CASE UNCHANGED stunVars
  BY <1>7, Zenon DEF stunVars, StunTypeOK, KnownRuns, Known, Attended
<1> QED BY <1>1, <1>3, <1>4, <1>5, <1>6, <1>7, Zenon DEF StunNext, Service!Next

\* The invariant holds of a new client.
LEMMA StunStarts == StunInit => StunInv
<1> SUFFICES ASSUME StunInit PROVE StunInv
  OBVIOUS
<1>1. StunTypeOK
  <2>0. closed \in BOOLEAN
    BY Zenon DEF StunInit
  <2>1. events \in Seq(Event)
    BY DEF StunInit
  <2>2. attempt \in [Ids -> 0 .. MaxAttempts + 1] /\ ended \in [Ids -> {0, 1}]
    BY StunAssumption DEF StunInit, NoTransaction
  <2> QED BY <2>0, <2>1, <2>2, Zenon DEF StunInit, StunTypeOK
<1>2. KnownRuns
  BY DEF StunInit, KnownRuns, Known
<1>3. Attended
  BY Zenon DEF StunInit, Attended
<1> QED BY <1>1, <1>2, <1>3, Zenon DEF StunInv

\* The client implements the service: whatever timeouts, late answers and copies of
\* answers its queue holds together, and however it is closed, poll_event ends a
\* transaction at most once, and only one that handle_write started.
THEOREM StunRefines == StunSpec => TransactionSpec
<1>1. StunInit => StunInv /\ Service!Init
  BY StunStarts, Zenon DEF StunInit, Service!Init
<1>2. StunInv /\ [StunNext]_stunVars => StunInv' /\ [Service!Next]_<<started, ended>>
  BY StunStep, Zenon
<1> QED BY <1>1, <1>2, PTL DEF StunSpec, TransactionSpec, Service!Spec, Service!tvars

\* No transaction that has not ended is forgotten between the client, the agent's
\* table of deadlines and the queue of events.
THEOREM StunAttended == StunSpec => []Attended
<1>1. StunInv /\ [StunNext]_stunVars => StunInv'
  BY StunStep, Zenon
<1>2. StunInv => Attended
  BY Zenon DEF StunInv
<1> QED BY StunStarts, <1>1, <1>2, PTL DEF StunSpec

\* Neither client forgets what a user waits for (NothingForgotten).
THEOREM NothingForgottenTheorem == FairSpec => []NothingForgotten
<1> DEFINE Both == StunInv /\ TurnInv
<1>1. Init => Both
  BY StunStarts, TurnInvInit, Zenon DEF Init
<1>2. Both /\ [Next]_vars => Both'
  <2> SUFFICES ASSUME Both, [Next]_vars PROVE Both'
    OBVIOUS
  <2>1. [StunNext]_stunVars /\ [TurnNext]_turnVars
    BY Zenon DEF Next, vars
  <2> QED BY <2>1, StunStep, TurnInvStep, Zenon
<1>3. Both => NothingForgotten
  BY TurnInvCalls, Zenon DEF StunInv, NothingForgotten
<1> QED BY <1>1, <1>2, <1>3, PTL DEF FairSpec
=============================================================================
