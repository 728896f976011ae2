------------------------------ MODULE TurnClient ------------------------------
(***************************************************************************)
(* The TURN client (rtc-turn/src/client): transactions, the allocation     *)
(* with its refreshes, permissions, channel bindings, and data sent over   *)
(* them.  The server is external: it grants lifetimes, lets them expire    *)
(* and renews its nonce.                                                   *)
(*                                                                         *)
(* Time advances in units of PERM_REFRESH_INTERVAL / 2.  A transaction is  *)
(* over in a fraction of one (seven requests within eight seconds), timers *)
(* are served in the unit they expire in, and a request reaches the server *)
(* while its transaction is open, being retransmitted.  An answer that is  *)
(* late is a lost answer and the answer to a retransmission.               *)
(***************************************************************************)
EXTENDS Integers, FiniteSets

CONSTANTS Peers,
          MinChannel,      \* MIN_CHANNEL_NUMBER
          MaxChannel,      \* MAX_CHANNEL_NUMBER
          NoPeer,          \* no entry of a map
          Lifetime,        \* what the server grants an allocation
          MaxTransactions, \* bound on the transactions open at a time
          Limits           \* bounds of one exploration: [peers, time, nonce, lost]

ASSUME TurnAssumption ==
    /\ MinChannel \in Nat /\ MaxChannel \in Nat /\ MinChannel <= MaxChannel
    /\ NoPeer \notin Peers
    /\ Lifetime \in Nat \ {0} /\ Lifetime % 2 = 0
    /\ MaxTransactions \in Nat
    /\ \A l \in Limits : l.peers \subseteq Peers /\ {l.time, l.nonce, l.lost} \subseteq Nat

VARIABLES
    limit,          \* the bounds that hold, chosen at the start
    tr,             \* TransactionMap
    relay,          \* RelayState, or NoRelay
    binding,        \* BindingManager::addr_map
    chan,           \* BindingManager::chan_map
    next,           \* BindingManager::next
    served,         \* handle_timeout has served the relay's timers in this unit
    waiting,        \* calls of the application that no event has answered: [id, peer]
    \* the network and the server
    server,
    now, lost,      \* units of time passed, transactions timed out
    \* what happened
    missed,         \* allocation refreshes that failed
    missedPerms,    \* permission refreshes that failed since one succeeded
    refused,        \* peers a channel bind or a permission was refused for
    misnamed,       \* calls of allocate told of a timeout under another id
    wrapped,        \* channel numbers have started again
    closing         \* the relay or the client was closed

client == <<tr, relay, binding, chan, next, served, waiting>>
history == <<missed, missedPerms, refused, misnamed, wrapped, closing>>
turnVars == <<limit, client, server, now, lost, history>>

PermRefresh == 2       \* PERM_REFRESH_INTERVAL, 120 seconds
PermLifetime == 5      \* PERM_LIFETIME, 300 seconds
ChannelLifetime == 10  \* the server's, 600 seconds

Channels == MinChannel .. MaxChannel

NoRelay == [lifetime |-> -1]
NoBinding == [number |-> -1]

\* A server without an allocation: what is left of the allocation, of each
\* permission and of each channel.
EmptyServer(nonce) == [nonce |-> nonce, left |-> 0, perm |-> [p \in Peers |-> 0],
                       chan |-> [n \in Channels |-> [peer |-> NoPeer, left |-> 0]]]

TurnInit ==
    /\ limit \in Limits
    /\ tr = {} /\ relay = NoRelay /\ served = FALSE /\ waiting = {}
    /\ binding = [p \in Peers |-> NoBinding]
    /\ chan = [n \in Channels |-> NoPeer]
    /\ next = MinChannel
    /\ server = EmptyServer(1)
    /\ now = 0 /\ lost = 0
    /\ missed = 0 /\ missedPerms = 0 /\ refused = {} /\ misnamed = {}
    /\ wrapped = FALSE /\ closing = FALSE

-----------------------------------------------------------------------------
(***************************************************************************)
(* Transactions.  A request is [id, type, nonce, peers, number, life].     *)
(***************************************************************************)
Req(type, nonce, peers, number, life) ==
    [type |-> type, nonce |-> nonce, peers |-> peers, number |-> number, life |-> life, id |-> 0]

UsedIds == {t.id : t \in tr \cup waiting}
FreeIds == (1 .. MaxTransactions) \ UsedIds
FreeId == CHOOSE id \in FreeIds : TRUE

\* perform_transaction: the request r is written under the id and its transaction
\* kept; the transactions gone have ended.
PerformAs(id, r, gone) == tr' = (tr \ gone) \cup {[r EXCEPT !.id = id]}

Perform(r, gone) == FreeIds # {} /\ PerformAs(FreeId, r, gone)

\* tid.0[TRANSACTION_ID_SIZE - 1].wrapping_add(1): the id after a random one is
\* neither another's nor the one after another.
NextId(id) == MaxTransactions + id

FreePairs == {id \in FreeIds : NextId(id) \notin UsedIds}
FreePair == CHOOSE id \in FreePairs : TRUE

\* Events with these ids answer the calls that were given them.
Told(ids) == waiting' = {w \in waiting : w.id \notin ids}

KeepServer == UNCHANGED <<server, now, lost>>
KeepHistory == UNCHANGED history
KeepBindings == UNCHANGED <<binding, chan, next>>

-----------------------------------------------------------------------------
(***************************************************************************)
(* What the application calls, until it closes the relay or the client     *)
(***************************************************************************)
SendBindingRequest ==
    /\ relay = NoRelay /\ ~closing
    /\ Perform(Req("binding", 0, {}, 0, 0), {})
    /\ waiting' = waiting \cup {[id |-> FreeId, peer |-> NoPeer]}
    /\ KeepBindings /\ KeepServer /\ KeepHistory /\ UNCHANGED <<relay, served>>

\* The caller is given the id that the second, authorized request will have; a
\* timeout of the first request has the id of the first.
Allocate ==
    /\ relay = NoRelay /\ ~closing /\ \A t \in tr : t.type \notin {"attempt", "allocate"}
    /\ FreePairs # {}
    /\ PerformAs(FreePair, Req("attempt", 0, {}, 0, 0), {})
    /\ waiting' = waiting \cup {[id |-> NextId(FreePair), peer |-> NoPeer]}
    /\ KeepBindings /\ KeepServer /\ KeepHistory /\ UNCHANGED <<relay, served>>

\* Relay::create_permission
CreatePermission(p) ==
    /\ relay # NoRelay /\ ~closing
    /\ relay.perms[p] # "Permitted"
    /\ relay' = [relay EXCEPT !.perms[p] = "Idle"]
    /\ Perform(Req("permit", relay.nonce, {p}, 0, 0), {})
    /\ waiting' = waiting \cup {[id |-> FreeId, peer |-> p]}
    /\ KeepBindings /\ KeepServer /\ KeepHistory /\ UNCHANGED served

\* BindingManager::assign_channel_number and create
After(n) == IF n = MaxChannel THEN MinChannel ELSE n + 1

Create(p) ==
    /\ binding' = [binding EXCEPT ![p] = [number |-> next, st |-> "Request", age |-> 0]]
    /\ chan' = [chan EXCEPT ![next] = p]
    /\ next' = After(next)
    /\ wrapped' = (wrapped \/ next = MaxChannel)

\* Relay::send_to: data goes in an indication until the channel is bound, and
\* over the channel from then on.  A send that changes nothing else (the
\* channel is bound and young, or its request is under way) is not a step.
SendTo(p) ==
    /\ relay # NoRelay /\ ~closing
    /\ relay.perms[p] = "Permitted"
    /\ \/ /\ binding[p] = NoBinding
          /\ Create(p)
          /\ Perform(Req("bind", relay.nonce, {p}, next, 0), {})
       \/ /\ binding[p] # NoBinding
          /\ binding[p].st = "Ready" /\ binding[p].age > PermLifetime
          /\ binding' = [binding EXCEPT ![p].st = "Refresh"]
          /\ Perform(Req("bind", relay.nonce, {p}, binding[p].number, 0), {})
          /\ UNCHANGED <<chan, next, wrapped>>
    /\ KeepServer
    /\ UNCHANGED <<relay, served, waiting, missed, missedPerms, refused, misnamed, closing>>

\* Relay::close
CloseRelay ==
    /\ relay # NoRelay /\ ~closing
    /\ Perform(Req("refresh", relay.nonce, {}, 0, 0), {})
    /\ closing' = TRUE
    /\ KeepBindings /\ KeepServer
    /\ UNCHANGED <<relay, served, waiting, missed, missedPerms, refused, misnamed, wrapped>>

\* Client::close
Close ==
    /\ tr # {} /\ tr' = {} /\ closing' = TRUE
    /\ KeepBindings
    /\ UNCHANGED <<relay, served, waiting, server, now, lost,
                   missed, missedPerms, refused, misnamed, wrapped>>

-----------------------------------------------------------------------------
(***************************************************************************)
(* Client::handle_timeout: retransmissions go on without a change of       *)
(* state, the transactions of gone have used theirs up, and the relay's    *)
(* timers are served.                                                      *)
(***************************************************************************)
AllocDue == relay # NoRelay /\ relay.allocTimer <= 0
PermsDue == relay # NoRelay /\ relay.permsTimer <= 0

RefreshAfter(lifetime) == lifetime \div 2

PermAfterFault(t) == t + PermLifetime
PermAfter(t) == t + PermRefresh

KnownPeers == {p \in Peers : relay.perms[p] # "None"}

TimerRequests ==
    (IF AllocDue THEN {Req("refresh", relay.nonce, {}, 0, relay.lifetime)} ELSE {}) \cup
    (IF PermsDue /\ KnownPeers # {} THEN {Req("permits", relay.nonce, KnownPeers, 0, 0)} ELSE {})

\* perform_transaction for each of the requests rs, under different ids
Numberings(rs) == {f \in [rs -> FreeIds] : \A q, r \in rs : f[q] = f[r] => q = r}

PerformAll(rs, gone) ==
    /\ Numberings(rs) # {}
    /\ LET f == CHOOSE f \in Numberings(rs) : TRUE
       IN  tr' = (tr \ gone) \cup {[r EXCEPT !.id = f[r]] : r \in rs}

\* Failures are counted up to two.
CountIf(n, b) == IF b /\ n < 2 THEN n + 1 ELSE n

TurnTimeout(gone) ==
    /\ gone # {} \/ ((AllocDue \/ PermsDue) /\ ~served)
    /\ lost + Cardinality(gone) <= limit.lost
    /\ lost' = lost + Cardinality(gone)
    /\ Told({t.id : t \in gone})
    /\ relay' = IF relay = NoRelay THEN relay
                ELSE [relay EXCEPT
                        !.allocTimer = IF AllocDue THEN @ + RefreshAfter(relay.lifetime) ELSE @,
                        !.permsTimer = IF PermsDue THEN PermAfter(@) ELSE @]
    /\ PerformAll(TimerRequests, gone)
    /\ served' = TRUE
    /\ missed' = CountIf(missed, \E t \in gone : t.type = "refresh")
    /\ missedPerms' = CountIf(missedPerms, \E t \in gone : t.type = "permits")
    /\ misnamed' = misnamed \cup {NextId(t.id) : t \in {u \in gone : u.type = "attempt"}}
    /\ KeepBindings
    /\ UNCHANGED <<server, now, refused, wrapped, closing>>

-----------------------------------------------------------------------------
(***************************************************************************)
(* Client::handle_stun_message with the answer a to the transaction t      *)
(***************************************************************************)
AllocateAnswered(t, a) ==
    /\ \/ /\ t.type = "attempt"      \* trying to authorize
          /\ PerformAs(NextId(t.id), Req("allocate", a.nonce, {}, 0, 0), {t})
          /\ UNCHANGED <<relay, waiting>>
       \/ /\ t.type = "allocate" /\ a.class # "success"
          /\ tr' = tr \ {t} /\ Told({t.id}) /\ UNCHANGED relay
       \/ /\ t.type = "allocate" /\ a.class = "success"
          /\ tr' = tr \ {t} /\ Told({t.id})
          /\ relay' = [lifetime |-> a.life, nonce |-> t.nonce,
                       perms |-> [p \in Peers |-> "None"],
                       allocTimer |-> RefreshAfter(a.life), permsTimer |-> PermRefresh]
    /\ KeepBindings /\ UNCHANGED <<missed, missedPerms, refused>>

\* set_nonce_from_msg
WithNonce(a) == [relay EXCEPT !.nonce = IF a.class = "stale" THEN a.nonce ELSE @]

PermissionGranted(p) == IF relay.perms[p] = "None" THEN "None" ELSE "Permitted"

\* handle_create_permission_response of a request for one peer: an event
\* answers the call, unless the peer's entry has gone meanwhile.
PermitAnsweredFault(t, a) ==
    \E p \in t.peers :
        /\ relay' = IF a.class = "success"
                    THEN [relay EXCEPT !.perms[p] = PermissionGranted(p)]
                    ELSE WithNonce(a)
        /\ IF a.class = "success" THEN Told({t.id}) ELSE UNCHANGED waiting
        /\ UNCHANGED <<missedPerms, refused>> /\ tr' = tr \ {t}
        /\ KeepBindings /\ UNCHANGED missed

PermitAnswered(t, a) ==
    \E p \in t.peers :
        /\ relay' = IF a.class = "success"
                    THEN [relay EXCEPT !.perms[p] = PermissionGranted(p)]
                    ELSE [WithNonce(a) EXCEPT !.perms[p] = "None"]
        /\ IF a.class = "success" /\ relay.perms[p] = "None" THEN UNCHANGED waiting ELSE Told({t.id})
        /\ refused' = IF a.class = "success" THEN refused ELSE refused \cup {p}
        /\ tr' = tr \ {t} /\ UNCHANGED <<missed, missedPerms>>
        /\ KeepBindings

\* handle_create_permission_response of a refresh of all permissions
PermitsAnswered(t, a) ==
    /\ relay' = IF a.class = "success" THEN relay ELSE WithNonce(a)
    /\ missedPerms' = IF a.class = "success" THEN 0 ELSE CountIf(missedPerms, TRUE)
    /\ tr' = tr \ {t} /\ UNCHANGED <<waiting, missed, refused>>
    /\ KeepBindings

\* handle_refresh_allocation_response
RefreshAnswered(t, a) ==
    /\ relay' = IF a.class = "success" THEN [relay EXCEPT !.lifetime = a.life] ELSE WithNonce(a)
    /\ missed' = CountIf(missed, a.class # "success")
    /\ tr' = tr \ {t} /\ UNCHANGED <<waiting, missedPerms, refused>>
    /\ KeepBindings

\* BindingManager::delete_by_addr
DeleteByAddr(p) ==
    /\ binding' = [binding EXCEPT ![p] = NoBinding]
    /\ chan' = [n \in Channels |-> IF n = binding[p].number THEN NoPeer ELSE chan[n]]

\* handle_channel_bind_response
BindAnswered(t, a) ==
    \E p \in t.peers :
        /\ relay' = IF a.class = "success" THEN relay ELSE WithNonce(a)
        /\ \/ /\ a.class = "success"
              /\ binding' = [binding EXCEPT ![p] =
                               IF @ = NoBinding THEN @ ELSE [@ EXCEPT !.st = "Ready", !.age = 0]]
              /\ UNCHANGED <<chan, refused>>
           \/ /\ a.class # "success"
              /\ DeleteByAddr(p)
              /\ refused' = refused \cup {p}
        /\ tr' = tr \ {t} /\ UNCHANGED <<waiting, missed, missedPerms, next>>

BindingAnswered(t) ==
    /\ tr' = tr \ {t} /\ Told({t.id})
    /\ KeepBindings /\ UNCHANGED <<relay, missed, missedPerms, refused>>

HandleStunMessage(t, a) ==
    /\ \/ t.type = "binding" /\ BindingAnswered(t)
       \/ AllocateAnswered(t, a)
       \/ t.type = "permit" /\ PermitAnswered(t, a)
       \/ t.type = "permits" /\ PermitsAnswered(t, a)
       \/ t.type = "refresh" /\ RefreshAnswered(t, a)
       \/ t.type = "bind" /\ BindAnswered(t, a)
    /\ UNCHANGED <<served, now, lost, misnamed, wrapped, closing>>

-----------------------------------------------------------------------------
(***************************************************************************)
(* The server and time (external)                                          *)
(***************************************************************************)
Refusal(r) ==
    CASE r.type = "binding" -> "none"
      [] r.type = "attempt" -> "error"
      [] r.type \notin {"attempt", "binding"} /\ r.nonce # server.nonce -> "stale"
      [] r.type = "allocate" /\ r.nonce = server.nonce -> "none"
      [] OTHER -> IF server.left = 0 \/ (r.type = "bind" /\
                       \E n \in Channels : /\ server.chan[n].peer # NoPeer
                                           /\ (n = r.number) # (server.chan[n].peer \in r.peers))
                  THEN "error" ELSE "none"

Granted(r) ==
    CASE r.type = "allocate" -> [server EXCEPT !.left = IF @ = 0 THEN Lifetime ELSE @]
      [] r.type = "refresh" -> IF r.life = 0 THEN EmptyServer(server.nonce)
                               ELSE [server EXCEPT !.left = Lifetime]
      [] r.type \in {"permit", "permits"} ->
            [server EXCEPT !.perm = [p \in Peers |-> IF p \in r.peers THEN PermLifetime ELSE @[p]]]
      [] r.type = "bind" ->
            [server EXCEPT !.perm = [p \in Peers |-> IF p \in r.peers THEN PermLifetime ELSE @[p]],
                           !.chan[r.number] = [peer |-> CHOOSE p \in r.peers : TRUE,
                                               left |-> ChannelLifetime]]
      [] OTHER -> server

Class(r) == IF Refusal(r) = "none" THEN "success" ELSE Refusal(r)

Answer(r) == [class |-> Class(r), nonce |-> server.nonce,
              life |-> IF r.type = "refresh" /\ r.life = 0 THEN 0 ELSE Lifetime]

\* The request of t, or a retransmission, reaches the server; its answer
\* arrives or is lost.
Exchange(t, arrives) ==
    /\ server' = IF Class(t) = "success" THEN Granted(t) ELSE server
    /\ IF arrives THEN HandleStunMessage(t, Answer(t))
       ELSE UNCHANGED <<client, now, lost, history>>

RenewNonce ==
    /\ server.nonce < limit.nonce
    /\ server' = [server EXCEPT !.nonce = @ + 1]
    /\ UNCHANGED <<client, now, lost, history>>

Less(n) == IF n = 0 THEN 0 ELSE n - 1

Aged ==
    IF server.left <= 1 THEN EmptyServer(server.nonce)
    ELSE [nonce |-> server.nonce, left |-> server.left - 1,
          perm |-> [p \in Peers |-> Less(server.perm[p])],
          chan |-> [n \in Channels |->
                      IF server.chan[n].left <= 1 THEN [peer |-> NoPeer, left |-> 0]
                      ELSE [server.chan[n] EXCEPT !.left = @ - 1]]]

\* A unit of time passes, during which every transaction ends and every
\* timer is served.
Tick ==
    /\ now < limit.time /\ now' = now + 1
    /\ relay # NoRelay /\ ~closing /\ tr = {} /\ (AllocDue \/ PermsDue => served)
    /\ served' = FALSE
    /\ server' = Aged
    /\ relay' = [relay EXCEPT !.allocTimer = @ - 1, !.permsTimer = @ - 1]
    /\ binding' = [p \in Peers |-> IF binding[p] = NoBinding THEN NoBinding
                                   ELSE [binding[p] EXCEPT !.age = IF @ > PermLifetime THEN @ ELSE @ + 1]]
    /\ UNCHANGED <<tr, chan, next, waiting, lost, history>>

TurnStep ==
    \/ SendBindingRequest \/ Allocate \/ CloseRelay \/ Close \/ RenewNonce \/ Tick
    \/ \E p \in limit.peers : CreatePermission(p) \/ SendTo(p)
    \/ \E gone \in SUBSET tr : TurnTimeout(gone)
    \/ \E t \in tr, arrives \in BOOLEAN : Exchange(t, arrives)

TurnNext == TurnStep /\ UNCHANGED limit

TurnSpec == TurnInit /\ [][TurnNext]_turnVars

-----------------------------------------------------------------------------
FindByNumber(n) == IF chan[n] # NoPeer /\ binding[chan[n]] # NoBinding THEN chan[n] ELSE NoPeer

\* The allocation the client counts on is alive at the server unless one of
\* its refreshes failed: a refresh every half lifetime leaves no room for a
\* lost one, and Relay::handle_timeout has no earlier retry.
AllocationHeld ==
    relay # NoRelay /\ ~closing /\ missed = 0 => server.left > 0

\* A permission the client counts on is alive at the server as long as the
\* allocation is, unless two refreshes in a row failed: refreshing every 120
\* seconds what lasts 300 survives one lost or stale refresh.
PermissionHeld ==
    relay # NoRelay /\ ~closing /\ server.left > 0 /\ missedPerms < 2 =>
        \A p \in Peers : relay.perms[p] = "Permitted" => server.perm[p] > 0

\* The two ends never disagree on what a channel number means, however
\* requests, refusals and expiries interleave, until the numbers run out: data
\* that arrives on a channel is never taken for another peer's, and data sent
\* over one never goes to another peer.
ChannelsAgree ==
    ~wrapped => \A n \in Channels : server.chan[n].peer # NoPeer =>
        /\ FindByNumber(n) \in {server.chan[n].peer, NoPeer}
        /\ \A p \in Peers : binding[p] # NoBinding /\ binding[p].number = n => server.chan[n].peer = p

\* A channel the server delivers on is known to the client (handle_channel_data
\* would drop the data otherwise), unless a request for its peer was refused:
\* the refusal of a mere refresh deletes the binding.
InboundFound ==
    ~wrapped => \A n \in Channels : server.chan[n].peer \notin {NoPeer} \cup refused =>
        FindByNumber(n) = server.chan[n].peer

\* What the client counts on the server has: the allocation, its permissions and
\* its channels, under the same numbers on both sides.
TablesAgree == AllocationHeld /\ PermissionHeld /\ ChannelsAgree /\ InboundFound

\* The transaction t, or the one that follows it, will answer the call w.
Answers(t, w) == t.id = w.id \/ (t.type = "attempt" /\ NextId(t.id) = w.id)

\* Every call the application waits on (send_binding_request, allocate,
\* create_permission) is still being worked on, so that an event with the id it was
\* given will answer it; unless the client was closed, the permission was asked for
\* twice and the other request refused, or the first request of allocate timed out,
\* of which TransactionTimeout tells with an id that the caller was not given.
CallsAnswered ==
    ~closing => \A w \in waiting :
        w.peer \in refused \/ w.id \in misnamed \/ \E t \in tr : Answers(t, w)
=============================================================================
