-------------------------- MODULE SctpAssociation --------------------------
(***************************************************************************)
(* The life of an SCTP association of rtc-sctp: an endpoint that connects, *)
(* an endpoint that accepts, the four-way handshake with its T1 timers,    *)
(* and the shutdown sequence with its T2 timer                             *)
(* (rtc-sctp/src/endpoint/mod.rs, rtc-sctp/src/association/mod.rs).        *)
(*                                                                         *)
(* Both endpoints are sans-I/O: an association changes state in handle_*   *)
(* and in the calls of the application, and what it has to say leaves it   *)
(* when poll_transmit is called.  An association is named by its local     *)
(* association id, which is also its verification tag and the name of the  *)
(* cookie it hands out.  The payload is one DATA chunk per association:    *)
(* SctpTransfer models the transfer itself.                                *)
(*                                                                         *)
(* The network is the set of packets ever sent.  A packet of it may be     *)
(* delivered late, again, out of order or never.                           *)
(***************************************************************************)
EXTENDS Integers, FiniteSets

CONSTANTS Servers,           \* association ids the accepting endpoint generates
          Concurrent,        \* ServerConfig::concurrent_associations
          MaxT1Init,         \* TimerConfig::max_t1_init_retrans
          MaxT1Cookie,       \* TimerConfig::max_t1_cookie_retrans
          AppCalls,          \* the calls the applications make: <<association id, call>>
          MaxClose           \* bound: calls of close() per association

NoTag == 0
Client == 1
Aids == {Client} \cup Servers

ASSUME AssociationAssumption ==
    /\ Servers \subseteq Int /\ IsFiniteSet(Servers)
    /\ {NoTag, Client} \cap Servers = {}
    /\ AppCalls \subseteq Aids \X {"write", "shutdown", "close"}
    /\ {Concurrent, MaxT1Init, MaxT1Cookie, MaxClose} \subseteq Nat

VARIABLES
    known,      \* ids of the associations the two endpoints still route to
    assoc,      \* Association, by id
    retrans,    \* TimerTable::retrans of the connecting association's T1 timers
    net,        \* every packet sent
    closes      \* number of close() calls, by id

vars == <<known, assoc, retrans, net, closes>>

States == {"Closed", "CookieWait", "CookieEchoed", "Established",
           "ShutdownAckSent", "ShutdownPending", "ShutdownReceived", "ShutdownSent"}
Timers == {"T1Init", "T1Cookie", "T2Shutdown"}
Signals == {"shutdown", "shutdown_ack", "shutdown_complete"}   \* the will_send_* flags
Types == {"INIT", "INIT-ACK", "COOKIE-ECHO", "COOKIE-ACK", "DATA", "SACK",
          "SHUTDOWN", "SHUTDOWN-ACK", "SHUTDOWN-COMPLETE"}

Packets == [type : Types, tag : Aids \cup {NoTag},
            initiate_tag : Aids \cup {NoTag}, cookie : Aids \cup {NoTag}]

\* The chunk ty alone in a packet to verification tag t.
Packet(ty, t) == [type |-> ty, tag |-> t, initiate_tag |-> NoTag, cookie |-> NoTag]

TheInit == [Packet("INIT", NoTag) EXCEPT !.initiate_tag = Client]
InitAck(s, t) == [Packet("INIT-ACK", t) EXCEPT !.initiate_tag = s, !.cookie = s]
CookieEcho(c, t) == [Packet("COOKIE-ECHO", t) EXCEPT !.cookie = c]

Association == [state : States,
                peer_tag : Aids \cup {NoTag},          \* peer_verification_tag
                my_cookie : BOOLEAN,
                stored_init : BOOLEAN,
                stored_cookie_echo : Aids \cup {NoTag},
                timers : SUBSET Timers,
                will : SUBSET Signals,
                control : SUBSET Packets,              \* control_queue
                completed : BOOLEAN,                   \* handshake_completed
                data : {"none", "pending", "inflight", "acked"},
                ack : BOOLEAN,                         \* ack_state is Immediate
                drained : BOOLEAN,                     \* endpoint_events holds Drained
                events : SUBSET {"Connected", "Lost"}]  \* kinds emitted so far

\* Association::new of an accepting endpoint.
NewServer == [state |-> "Closed", peer_tag |-> NoTag, my_cookie |-> FALSE,
              stored_init |-> FALSE, stored_cookie_echo |-> NoTag,
              timers |-> {}, will |-> {}, control |-> {}, completed |-> FALSE,
              data |-> "none", ack |-> FALSE, drained |-> FALSE, events |-> {}]

\* Association::new of a connecting endpoint: send_init and T1-init.
NewClient == [NewServer EXCEPT !.state = "CookieWait", !.stored_init = TRUE,
                               !.control = {TheInit}, !.timers = {"T1Init"}]

Init ==
    /\ known = {Client}
    /\ assoc = [a \in Aids |-> IF a = Client THEN NewClient ELSE NewServer]
    /\ retrans = [t \in {"T1Init", "T1Cookie"} |-> 0]
    /\ net = {}
    /\ closes = [a \in Aids |-> 0]

-----------------------------------------------------------------------------
(***************************************************************************)
(* Endpoint::handle.                                                       *)
(***************************************************************************)

\* Ids new_aid has already returned.
Issued == {s \in Servers : assoc[s] # NewServer}

\* An INIT carries verification tag 0 and is looked up by its initiate tag
\* among the LOCAL ids, where it is not: every INIT is a first packet.  The
\* new association handles it at once (handle_init in state Closed).
HandleFirstPacket(m) ==
    /\ m.type = "INIT"
    /\ Cardinality(known \cap Servers) < Concurrent
    /\ \E s \in Servers \ Issued :
         /\ \A t \in Servers \ Issued : s <= t
         /\ known' = known \cup {s}
         /\ assoc' = [assoc EXCEPT ![s].peer_tag = m.initiate_tag,
                                   ![s].my_cookie = TRUE,
                                   ![s].control = {InitAck(s, m.initiate_tag)}]
    /\ UNCHANGED <<retrans, net, closes>>

-----------------------------------------------------------------------------
(***************************************************************************)
(* Association::handle_chunk, one action per chunk type.                   *)
(***************************************************************************)

ExpectsInitAckFault(a) == TRUE
\* handle_init_ack and handle_cookie_ack discard what they do not expect.
ExpectsInitAck(a) == assoc[a].state = "CookieWait"

T1SwitchFault(timers) == timers \cup {"T1Cookie"}
\* T1-init stops and T1-cookie starts.
T1Switch(timers) == (timers \ {"T1Init"}) \cup {"T1Cookie"}

HandleInitAck(a, m) ==
    /\ m.type = "INIT-ACK"
    /\ ExpectsInitAck(a)
    /\ assoc' = [assoc EXCEPT ![a].peer_tag = m.initiate_tag,
                              ![a].stored_init = FALSE,
                              ![a].stored_cookie_echo = m.cookie,
                              ![a].control = @ \cup {CookieEcho(m.cookie, m.initiate_tag)},
                              ![a].timers = T1Switch(@),
                              ![a].state = "CookieEchoed"]
    /\ retrans' = [retrans EXCEPT !["T1Init"] = 0]
    /\ UNCHANGED <<known, net, closes>>

\* The handshake is over: both T1 timers stop and the application is told.
Establish(a) ==
    /\ assoc' = [assoc EXCEPT ![a].stored_init = FALSE,
                              ![a].stored_cookie_echo = NoTag,
                              ![a].timers = @ \ {"T1Init", "T1Cookie"},
                              ![a].events = @ \cup {"Connected"},
                              ![a].state = "Established",
                              ![a].completed = TRUE,
                              ![a].control =
                                  IF a = Client THEN @
                                  ELSE @ \cup {Packet("COOKIE-ACK", assoc[a].peer_tag)}]
    /\ retrans' = IF a = Client THEN [t \in DOMAIN retrans |-> 0] ELSE retrans
    /\ UNCHANGED <<known, net, closes>>

HandleCookieEcho(a, m) ==
    /\ m.type = "COOKIE-ECHO"
    /\ assoc[a].my_cookie /\ m.cookie = a
    /\ \/ /\ assoc[a].state = "Established"          \* a duplicate: answer again
          /\ assoc' = [assoc EXCEPT ![a].control =
                           @ \cup {Packet("COOKIE-ACK", assoc[a].peer_tag)}]
          /\ UNCHANGED <<known, retrans, net, closes>>
       \/ /\ assoc[a].state \in {"Closed", "CookieWait", "CookieEchoed"}
          /\ Establish(a)

HandleCookieAck(a, m) ==
    /\ m.type = "COOKIE-ACK"
    /\ assoc[a].state = "CookieEchoed"
    /\ Establish(a)

\* handle_data: whatever the state, the chunk is to be acknowledged.
HandleData(a, m) ==
    /\ m.type = "DATA"
    /\ assoc' = [assoc EXCEPT ![a].ack = TRUE]
    /\ UNCHANGED <<known, retrans, net, closes>>

\* handle_sack and postprocess_sack.
HandleSack(a, m) ==
    /\ m.type = "SACK"
    /\ assoc[a].state \in {"Established", "ShutdownPending", "ShutdownReceived"}
    /\ assoc' =
         [assoc EXCEPT
            ![a].data = "acked",
            ![a].will = @ \cup CASE assoc[a].state = "ShutdownPending" -> {"shutdown"}
                                 [] assoc[a].state = "ShutdownReceived" -> {"shutdown_ack"}
                                 [] OTHER -> {},
            ![a].state = CASE @ = "ShutdownPending" -> "ShutdownSent"
                           [] @ = "ShutdownReceived" -> "ShutdownAckSent"
                           [] OTHER -> @]
    /\ UNCHANGED <<known, retrans, net, closes>>

\* inflight_queue is not empty.
Outstanding(a) == assoc[a].data = "inflight"

HandleShutdown(a, m) ==
    /\ m.type = "SHUTDOWN"
    /\ \/ /\ assoc[a].state = "Established" /\ Outstanding(a)
          /\ assoc' = [assoc EXCEPT ![a].state = "ShutdownReceived"]
       \/ /\ \/ assoc[a].state = "Established" /\ ~Outstanding(a)
             \/ assoc[a].state = "ShutdownSent"
          /\ assoc' = [assoc EXCEPT ![a].will = @ \cup {"shutdown_ack"},
                                    ![a].state = "ShutdownAckSent"]
    /\ UNCHANGED <<known, retrans, net, closes>>

HandleShutdownAck(a, m) ==
    /\ m.type = "SHUTDOWN-ACK"
    /\ assoc[a].state \in {"ShutdownSent", "ShutdownAckSent"}
    /\ assoc' = [assoc EXCEPT ![a].timers = @ \ {"T2Shutdown"},
                              ![a].will = @ \cup {"shutdown_complete"}]
    /\ UNCHANGED <<known, retrans, net, closes>>

\* The state part of close(): Closed, every timer stopped.
CloseState(a) ==
    /\ assoc' = [assoc EXCEPT ![a].state = "Closed", ![a].timers = {}]
    /\ retrans' = IF a = Client THEN [t \in DOMAIN retrans |-> 0] ELSE retrans

HandleShutdownComplete(a, m) ==
    /\ m.type = "SHUTDOWN-COMPLETE"
    /\ assoc[a].state = "ShutdownAckSent"
    /\ CloseState(a)
    /\ UNCHANGED <<known, net, closes>>

-----------------------------------------------------------------------------
(***************************************************************************)
(* poll_transmit: gather_outbound in the association's state.              *)
(***************************************************************************)

SendsAck(s) == s \in {"Established", "ShutdownPending", "ShutdownSent", "ShutdownReceived"}
Ending(s) == s \in {"ShutdownPending", "ShutdownSent", "ShutdownReceived", "ShutdownAckSent"}

\* The one shutdown signal gather_outbound_shutdown_packets acts on.
Signal(a) ==
    LET will == IF Ending(assoc[a].state) THEN assoc[a].will ELSE {}
    IN  CASE "shutdown" \in will -> {"shutdown"}
          [] "shutdown" \notin will /\ "shutdown_ack" \in will -> {"shutdown_ack"}
          [] OTHER -> will

SignalType(w) == CASE w = "shutdown" -> "SHUTDOWN"
                   [] w = "shutdown_ack" -> "SHUTDOWN-ACK"
                   [] w = "shutdown_complete" -> "SHUTDOWN-COMPLETE"

Outbound(a) ==
    LET r == assoc[a]
    IN  r.control
        \cup {Packet("DATA", t) : t \in IF r.state = "Established" /\ r.data = "pending"
                                        THEN {r.peer_tag} ELSE {}}
        \cup {Packet("SACK", t) : t \in IF r.ack /\ SendsAck(r.state)
                                        THEN {r.peer_tag} ELSE {}}
        \cup {Packet(SignalType(w), r.peer_tag) : w \in Signal(a)}

StartsT2Fault(a) == "shutdown" \in Signal(a)
\* SHUTDOWN and SHUTDOWN-ACK leave with T2-shutdown running.
StartsT2(a) == Signal(a) \cap {"shutdown", "shutdown_ack"} # {}

PollTransmit(a) ==
    /\ Outbound(a) # {}
    /\ net' = net \cup Outbound(a)
    /\ assoc' = [assoc EXCEPT
                   ![a].control = {},
                   ![a].data = IF @ = "pending" /\ assoc[a].state = "Established"
                               THEN "inflight" ELSE @,
                   ![a].ack = @ /\ ~SendsAck(assoc[a].state),
                   ![a].will = @ \ Signal(a),
                   ![a].timers = IF StartsT2(a) THEN @ \cup {"T2Shutdown"} ELSE @]
    /\ UNCHANGED <<known, retrans, closes>>

-----------------------------------------------------------------------------
(***************************************************************************)
(* handle_timeout: on_retransmission_timeout and on_retransmission_failure.*)
(***************************************************************************)

MaxRetrans(t) == IF t = "T1Init" THEN MaxT1Init ELSE MaxT1Cookie

GiveUpFault(r, t) == [r EXCEPT !.timers = @ \ {t}]
\* is_expired clears the timer; the failure is polled as AssociationLost.
GiveUp(r, t) == [r EXCEPT !.timers = @ \ {t}, !.events = @ \cup {"Lost"}]

T1Timeout(a, t) ==
    /\ t \in assoc[a].timers \cap {"T1Init", "T1Cookie"}
    /\ IF retrans[t] + 1 > MaxRetrans(t)
       THEN assoc' = [assoc EXCEPT ![a] = GiveUp(@, t)]
       ELSE assoc' = [assoc EXCEPT ![a].control = @ \cup
                          CASE t = "T1Init" /\ assoc[a].stored_init -> {TheInit}
                            [] t = "T1Cookie" /\ assoc[a].stored_cookie_echo # NoTag ->
                                 {CookieEcho(assoc[a].stored_cookie_echo, assoc[a].peer_tag)}
                            [] OTHER -> {}]
    /\ retrans' = [retrans EXCEPT ![t] = @ + 1]
    /\ UNCHANGED <<known, net, closes>>

\* max_t2_shutdown_retrans is NO_MAX_RETRANS: T2-shutdown never gives up.
T2Timeout(a) ==
    /\ "T2Shutdown" \in assoc[a].timers
    /\ assoc' = [assoc EXCEPT ![a].will = @ \cup
                     CASE assoc[a].state = "ShutdownSent" -> {"shutdown"}
                       [] assoc[a].state = "ShutdownAckSent" -> {"shutdown_ack"}
                       [] OTHER -> {}]
    /\ UNCHANGED <<known, retrans, net, closes>>

-----------------------------------------------------------------------------
(***************************************************************************)
(* The application's calls.                                                *)
(***************************************************************************)

\* send_payload_data: one chunk per association.
Write(a) ==
    /\ <<a, "write">> \in AppCalls
    /\ assoc[a].state = "Established" /\ assoc[a].data = "none"
    /\ assoc' = [assoc EXCEPT ![a].data = "pending"]
    /\ UNCHANGED <<known, retrans, net, closes>>

\* shutdown: inflight_queue_length, which the test reads, is never written, so
\* the association goes through ShutdownPending to ShutdownSent in one call.
Shutdown(a) ==
    /\ <<a, "shutdown">> \in AppCalls
    /\ assoc[a].state = "Established"
    /\ assoc' = [assoc EXCEPT ![a].will = @ \cup {"shutdown"},
                              ![a].state = "ShutdownSent",
                              ![a].drained = TRUE]
    /\ UNCHANGED <<known, retrans, net, closes>>

\* close: no chunk is sent and no endpoint event is queued.
Close(a) ==
    /\ <<a, "close">> \in AppCalls
    /\ assoc[a].state # "Closed"
    /\ closes[a] < MaxClose
    /\ CloseState(a)
    /\ closes' = [closes EXCEPT ![a] = @ + 1]
    /\ UNCHANGED <<known, net>>

\* poll_endpoint_event and Endpoint::handle_event(Drained).  The driver drains
\* poll_transmit first (rtc/src/handler/sctp.rs); afterwards no packet is routed
\* to the association and no timer of it is served.
PollEndpointEvent(a) ==
    /\ assoc[a].drained /\ Outbound(a) = {}
    /\ known' = known \ {a}
    /\ UNCHANGED <<assoc, retrans, net, closes>>

-----------------------------------------------------------------------------
Deliver(a, m) ==
    /\ m.tag = a
    /\ \/ HandleInitAck(a, m) \/ HandleCookieEcho(a, m) \/ HandleCookieAck(a, m)
       \/ HandleData(a, m) \/ HandleSack(a, m)
       \/ HandleShutdown(a, m) \/ HandleShutdownAck(a, m) \/ HandleShutdownComplete(a, m)

Timeout(a) == T2Timeout(a) \/ \E t \in {"T1Init", "T1Cookie"} : T1Timeout(a, t)

Next ==
    \/ \E m \in net : HandleFirstPacket(m)
    \/ \E a \in known :
         \/ \E m \in net : Deliver(a, m)
         \/ PollTransmit(a) \/ Timeout(a)
         \/ Write(a) \/ Shutdown(a) \/ Close(a) \/ PollEndpointEvent(a)

Spec == Init /\ [][Next]_vars

\* The driver calls poll_transmit after every input and handle_timeout when
\* poll_timeout says so; nothing is assumed of the network.
FairSpec ==
    /\ Spec
    /\ \A a \in Aids : /\ WF_vars(a \in known /\ PollTransmit(a))
                       /\ WF_vars(a \in known /\ Timeout(a))

-----------------------------------------------------------------------------
TypeOK ==
    /\ known \subseteq Aids
    /\ assoc \in [Aids -> Association]
    /\ retrans \in [{"T1Init", "T1Cookie"} -> Nat]
    /\ \A t \in DOMAIN retrans : retrans[t] <= MaxRetrans(t) + 1
    /\ net \subseteq Packets
    /\ closes \in [Aids -> Nat]

\* Agreement.  A connecting association that has completed the handshake has
\* as its peer an accepting association that completed it too and that has
\* the connecting one as its peer, and of the accepting associations that copies
\* of one INIT created only that one is ever established, however INIT, INIT-ACK,
\* COOKIE-ECHO and COOKIE-ACK were lost, repeated and reordered (handle_init_ack
\* discards in every state but CookieWait, handle_cookie_ack in every one but
\* CookieEchoed).
Agreement ==
    LET peer == assoc[Client].peer_tag
    IN  /\ assoc[Client].completed =>
             peer \in Servers /\ assoc[peer].completed /\ assoc[peer].peer_tag = Client
        /\ \A s \in Servers : assoc[s].completed => s = peer

\* A handshake is never silently stuck: while the connecting association is in
\* CookieWait or CookieEchoed and no loss was reported, the T1 timer of that
\* state runs, the other does not, and what it would resend is stored.
HandshakeArmed ==
    LET r == assoc[Client]
    IN  "Lost" \notin r.events =>
          /\ r.state = "CookieWait" => /\ r.timers = {"T1Init"} /\ r.stored_init
                                      /\ r.stored_cookie_echo = NoTag
          /\ r.state = "CookieEchoed" => /\ r.timers = {"T1Cookie"} /\ ~r.stored_init
                                        /\ r.stored_cookie_echo = r.peer_tag

\* An association that did not itself call shutdown answers SHUTDOWN with
\* SHUTDOWN-ACK only once the DATA it has in flight is acknowledged
\* (handle_shutdown waits in ShutdownReceived, postprocess_sack leaves it).
AckAfterData ==
    \A a \in Aids : assoc[a].state = "ShutdownAckSent" /\ ~assoc[a].drained
                      => assoc[a].data # "inflight"

\* An association its endpoint still serves, and that waits for its peer in
\* ShutdownSent or ShutdownAckSent, has a way to repeat itself: T2-shutdown runs or
\* a signal is about to be sent, unless the peer's SHUTDOWN-ACK stopped the timer
\* and SHUTDOWN-COMPLETE answered it.
ShutdownArmed ==
    \A a \in known :
        assoc[a].state \in {"ShutdownSent", "ShutdownAckSent"} =>
            \/ "T2Shutdown" \in assoc[a].timers
            \/ assoc[a].will # {}
            \/ Packet("SHUTDOWN-COMPLETE", assoc[a].peer_tag) \in net

\* The association that called shutdown() is removed with its timers, so it cannot
\* repeat itself: what holds is that its endpoint has let it go only after its
\* SHUTDOWN left once, unless the application closed it or the peer completed a
\* shutdown before.
ShutdownLeft ==
    \A a \in Aids : assoc[a].drained /\ a \notin known =>
        \/ Packet("SHUTDOWN", assoc[a].peer_tag) \in net
        \/ closes[a] > 0 \/ \E m \in net : m.type = "SHUTDOWN-COMPLETE" /\ m.tag = a

\* A shutdown does not overtake the data of the side that answers it, the side that
\* answers it repeats itself, and the side that calls for it says so once.
ShutdownOrderly == AckAfterData /\ ShutdownArmed /\ ShutdownLeft

\* The connecting application always learns how the handshake ended: Connected
\* or AssociationLost is emitted (or it closed the association itself), with
\* no assumption on the network.
ClientDecided == <>(assoc[Client].events # {} \/ closes[Client] > 0)
=============================================================================
