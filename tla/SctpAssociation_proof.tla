------------------------ MODULE SctpAssociation_proof ------------------------
(***************************************************************************)
(* Agreement of the SCTP handshake, the timers that guard it and the order *)
(* of the shutdown, for any number of accepting associations, any limits   *)
(* of the timers and any calls of the applications.                        *)
(***************************************************************************)
EXTENDS SctpAssociation, TLAPS

\* The ids are numbers apart from 0, and the client is not a server.
LEMMA IdFacts ==
    /\ NoTag \notin Aids /\ Client \in Aids /\ Client \notin Servers /\ Servers \subseteq Aids
    /\ Client # NoTag
BY AssociationAssumption DEF Aids, NoTag, Client

\* Every part of the state but the counters.
Typed ==
    /\ known \subseteq Aids
    /\ assoc \in [Aids -> Association]
    /\ net \subseteq Packets

\* The packets the model makes are packets.
LEMMA PacketTypes ==
    ASSUME NEW t \in Aids \cup {NoTag}, NEW c \in Aids \cup {NoTag}
    PROVE  /\ \A ty \in Types : Packet(ty, t) \in Packets
           /\ TheInit \in Packets /\ InitAck(c, t) \in Packets /\ CookieEcho(c, t) \in Packets
<1>1. \A ty \in Types : Packet(ty, t) \in Packets
  BY DEF Packet, Packets
<1>2. TheInit \in Packets
  BY IdFacts DEF TheInit, Packet, Packets, Types
<1>3. InitAck(c, t) \in Packets
  BY DEF InitAck, Packet, Packets, Types
<1>4. CookieEcho(c, t) \in Packets
  BY DEF CookieEcho, Packet, Packets, Types
<1> QED BY <1>1, <1>2, <1>3, <1>4

-----------------------------------------------------------------------------
(***************************************************************************)
(* What each action makes of the association it is about.                  *)
(***************************************************************************)

\* Association a becomes r, and the others stay as they are.
Becomes(a, r) == r \in Association /\ assoc' = [assoc EXCEPT ![a] = r]

LEMMA FirstPacketEffect ==
    ASSUME Typed, NEW m \in net, HandleFirstPacket(m)
    PROVE  \E s \in Servers :
             /\ assoc[s] = NewServer /\ known' = known \cup {s}
             /\ Becomes(s, [assoc[s] EXCEPT !.peer_tag = m.initiate_tag, !.my_cookie = TRUE,
                                            !.control = {InitAck(s, m.initiate_tag)}])
<1>1. PICK s \in Servers \ Issued :
         /\ known' = known \cup {s}
         /\ assoc' = [assoc EXCEPT ![s].peer_tag = m.initiate_tag,
                                   ![s].my_cookie = TRUE,
                                   ![s].control = {InitAck(s, m.initiate_tag)}]
  BY DEF HandleFirstPacket
<1>2. m.initiate_tag \in Aids \cup {NoTag} /\ s \in Aids
  BY IdFacts DEF Typed, Packets
<1>3. InitAck(s, m.initiate_tag) \in Packets
  BY <1>2, PacketTypes
<1>4. assoc[s] \in Association
  BY <1>2 DEF Typed
<1>5. [assoc[s] EXCEPT !.peer_tag = m.initiate_tag, !.my_cookie = TRUE,
                       !.control = {InitAck(s, m.initiate_tag)}] \in Association
  BY <1>2, <1>3, <1>4 DEF Association
<1>6. assoc' = [assoc EXCEPT ![s] = [assoc[s] EXCEPT !.peer_tag = m.initiate_tag, !.my_cookie = TRUE,
                                               !.control = {InitAck(s, m.initiate_tag)}]]
  BY <1>1, <1>2 DEF Typed
<1>7. assoc[s] = NewServer
  BY <1>1 DEF Issued
<1> QED BY <1>1, <1>5, <1>6, <1>7 DEF Becomes

LEMMA InitAckEffect ==
    ASSUME Typed, NEW a \in Aids, NEW m \in net, HandleInitAck(a, m)
    PROVE  Becomes(a, [assoc[a] EXCEPT !.peer_tag = m.initiate_tag, !.stored_init = FALSE,
                                       !.stored_cookie_echo = m.cookie,
                                       !.control = @ \cup {CookieEcho(m.cookie, m.initiate_tag)},
                                       !.timers = T1Switch(@), !.state = "CookieEchoed"])
<1>1. m.initiate_tag \in Aids \cup {NoTag} /\ m.cookie \in Aids \cup {NoTag}
  BY DEF Typed, Packets
<1>2. CookieEcho(m.cookie, m.initiate_tag) \in Packets
  BY <1>1, PacketTypes
<1>3. assoc[a] \in Association
  BY DEF Typed
<1>4. T1Switch(assoc[a].timers) \in SUBSET Timers
  BY <1>3 DEF Association, T1Switch, Timers
<1>5. assoc[a].control \cup {CookieEcho(m.cookie, m.initiate_tag)} \in SUBSET Packets
  BY <1>2, <1>3 DEF Association
<1>6. "CookieEchoed" \in States
  BY DEF States
<1>7. [assoc[a] EXCEPT !.peer_tag = m.initiate_tag, !.stored_init = FALSE,
                       !.stored_cookie_echo = m.cookie,
                       !.control = @ \cup {CookieEcho(m.cookie, m.initiate_tag)},
                       !.timers = T1Switch(@), !.state = "CookieEchoed"] \in Association
  BY <1>1, <1>3, <1>4, <1>5, <1>6 DEF Association
<1> QED BY <1>7 DEF HandleInitAck, Typed, Becomes

LEMMA EstablishEffect ==
    ASSUME Typed, NEW a \in Aids, Establish(a)
    PROVE  \E c \in SUBSET Packets :
             /\ c = IF a = Client THEN assoc[a].control
                    ELSE assoc[a].control \cup {Packet("COOKIE-ACK", assoc[a].peer_tag)}
             /\ Becomes(a, [assoc[a] EXCEPT !.stored_init = FALSE, !.stored_cookie_echo = NoTag,
                                            !.timers = @ \ {"T1Init", "T1Cookie"},
                                            !.events = @ \cup {"Connected"},
                                            !.state = "Established", !.completed = TRUE,
                                            !.control = c])
<1> DEFINE c == IF a = Client THEN assoc[a].control
                ELSE assoc[a].control \cup {Packet("COOKIE-ACK", assoc[a].peer_tag)}
<1>1. assoc[a] \in Association
  BY DEF Typed
<1>2. Packet("COOKIE-ACK", assoc[a].peer_tag) \in Packets
  BY <1>1, PacketTypes DEF Association, Types
<1>3. c \in SUBSET Packets
  BY <1>1, <1>2 DEF Association
<1>4. assoc[a].timers \ {"T1Init", "T1Cookie"} \in SUBSET Timers /\ "Established" \in States
      /\ assoc[a].events \cup {"Connected"} \in SUBSET {"Connected", "Lost"}
  BY <1>1 DEF Association, States
<1>5. assoc' = [assoc EXCEPT ![a] = [assoc[a] EXCEPT !.stored_init = FALSE, !.stored_cookie_echo = NoTag,
                                            !.timers = @ \ {"T1Init", "T1Cookie"},
                                            !.events = @ \cup {"Connected"},
                                            !.state = "Established", !.completed = TRUE,
                                            !.control = c]]
  BY <1>1 DEF Establish, Typed
<1> HIDE DEF c
<1>6. [assoc[a] EXCEPT !.stored_init = FALSE, !.stored_cookie_echo = NoTag,
                       !.timers = @ \ {"T1Init", "T1Cookie"}, !.events = @ \cup {"Connected"},
                       !.state = "Established", !.completed = TRUE, !.control = c] \in Association
  BY <1>1, <1>3, <1>4 DEF Association
<1> QED BY <1>3, <1>5, <1>6 DEF Becomes, c

\* A duplicate of COOKIE-ECHO is answered again.
LEMMA CookieEchoEffect ==
    ASSUME Typed, NEW a \in Aids, NEW m \in net, HandleCookieEcho(a, m)
    PROVE  \/ Establish(a)
           \/ /\ assoc[a].state = "Established"
              /\ Becomes(a, [assoc[a] EXCEPT !.control =
                                 @ \cup {Packet("COOKIE-ACK", assoc[a].peer_tag)}])
              /\ UNCHANGED <<known, net>>
<1>1. assoc[a] \in Association
  BY DEF Typed
<1>2. Packet("COOKIE-ACK", assoc[a].peer_tag) \in Packets
  BY <1>1, PacketTypes DEF Association, Types
<1>3. [assoc[a] EXCEPT !.control = @ \cup {Packet("COOKIE-ACK", assoc[a].peer_tag)}] \in Association
  BY <1>1, <1>2 DEF Association
<1> QED BY <1>3 DEF HandleCookieEcho, Becomes, Typed

LEMMA DataEffect ==
    ASSUME Typed, NEW a \in Aids, NEW m \in net, HandleData(a, m)
    PROVE  Becomes(a, [assoc[a] EXCEPT !.ack = TRUE])
<1>1. assoc[a] \in Association
  BY DEF Typed
<1>2. [assoc[a] EXCEPT !.ack = TRUE] \in Association
  BY <1>1 DEF Association
<1> QED BY <1>2 DEF HandleData, Becomes, Typed

LEMMA SackEffect ==
    ASSUME Typed, NEW a \in Aids, NEW m \in net, HandleSack(a, m)
    PROVE  \E w \in SUBSET Signals, st \in States :
             /\ assoc[a].state \in {"Established", "ShutdownPending", "ShutdownReceived"}
             /\ assoc[a].state = "Established" => st = "Established"
             /\ assoc[a].state = "ShutdownPending" => st = "ShutdownSent"
             /\ assoc[a].state = "ShutdownReceived" =>
                  st = "ShutdownAckSent" /\ "shutdown_ack" \in w
             /\ assoc[a].will \subseteq w
             /\ Becomes(a, [assoc[a] EXCEPT !.data = "acked", !.will = w, !.state = st])
<1> DEFINE st == CASE assoc[a].state = "ShutdownPending" -> "ShutdownSent"
                   [] assoc[a].state = "ShutdownReceived" -> "ShutdownAckSent"
                   [] OTHER -> assoc[a].state
           w == assoc[a].will \cup CASE assoc[a].state = "ShutdownPending" -> {"shutdown"}
                                     [] assoc[a].state = "ShutdownReceived" -> {"shutdown_ack"}
                                     [] OTHER -> {}
<1>1. assoc[a] \in Association
  BY DEF Typed
<1>2. st \in States /\ w \in SUBSET Signals
  BY <1>1 DEF Association, States, Signals
<1>3. assoc[a].state \in {"Established", "ShutdownPending", "ShutdownReceived"}
  BY DEF HandleSack
<1>4. /\ assoc[a].state = "Established" => st = "Established"
      /\ assoc[a].state = "ShutdownPending" => st = "ShutdownSent"
      /\ assoc[a].state = "ShutdownReceived" => st = "ShutdownAckSent" /\ "shutdown_ack" \in w
      /\ assoc[a].will \subseteq w
  OBVIOUS
<1>5. assoc' = [assoc EXCEPT ![a] = [assoc[a] EXCEPT !.data = "acked", !.will = w, !.state = st]]
  BY <1>1 DEF HandleSack, Typed
<1> HIDE DEF st, w
<1>6. [assoc[a] EXCEPT !.data = "acked", !.will = w, !.state = st] \in Association
  BY <1>1, <1>2 DEF Association
<1> QED BY <1>2, <1>3, <1>4, <1>5, <1>6 DEF Becomes

LEMMA ShutdownEffect ==
    ASSUME Typed, NEW a \in Aids, NEW m \in net, HandleShutdown(a, m)
    PROVE  \/ /\ assoc[a].state = "Established"
              /\ Becomes(a, [assoc[a] EXCEPT !.state = "ShutdownReceived"])
           \/ /\ \/ assoc[a].state = "Established" /\ assoc[a].data # "inflight"
                 \/ assoc[a].state = "ShutdownSent"
              /\ Becomes(a, [assoc[a] EXCEPT !.will = @ \cup {"shutdown_ack"},
                                             !.state = "ShutdownAckSent"])
<1>1. assoc[a] \in Association
  BY DEF Typed
<1>2. assoc[a].will \cup {"shutdown_ack"} \in SUBSET Signals
      /\ {"ShutdownReceived", "ShutdownAckSent"} \subseteq States
  BY <1>1 DEF Association, Signals, States
<1>3. [assoc[a] EXCEPT !.state = "ShutdownReceived"] \in Association
  BY <1>1, <1>2 DEF Association
<1>4. [assoc[a] EXCEPT !.will = @ \cup {"shutdown_ack"}, !.state = "ShutdownAckSent"] \in Association
  BY <1>1, <1>2 DEF Association
<1> QED BY <1>3, <1>4 DEF HandleShutdown, Outstanding, Becomes, Typed

LEMMA ShutdownAckEffect ==
    ASSUME Typed, NEW a \in Aids, NEW m \in net, HandleShutdownAck(a, m)
    PROVE  Becomes(a, [assoc[a] EXCEPT !.timers = @ \ {"T2Shutdown"},
                                       !.will = @ \cup {"shutdown_complete"}])
           /\ assoc[a].state \in {"ShutdownSent", "ShutdownAckSent"}
<1>1. assoc[a] \in Association
  BY DEF Typed
<1>2. /\ assoc[a].will \cup {"shutdown_complete"} \in SUBSET Signals
      /\ assoc[a].timers \ {"T2Shutdown"} \in SUBSET Timers
  BY <1>1 DEF Association, Signals
<1>3. [assoc[a] EXCEPT !.timers = @ \ {"T2Shutdown"}, !.will = @ \cup {"shutdown_complete"}]
        \in Association
  BY <1>1, <1>2 DEF Association
<1> QED BY <1>3 DEF HandleShutdownAck, Becomes, Typed

LEMMA CloseEffect ==
    ASSUME Typed, NEW a \in Aids, CloseState(a)
    PROVE  Becomes(a, [assoc[a] EXCEPT !.state = "Closed", !.timers = {}])
<1>1. assoc[a] \in Association
  BY DEF Typed
<1>2. "Closed" \in States
  BY DEF States
<1>3. [assoc[a] EXCEPT !.state = "Closed", !.timers = {}] \in Association
  BY <1>1, <1>2 DEF Association
<1> QED BY <1>3 DEF CloseState, Becomes, Typed

LEMMA SignalFacts ==
    ASSUME Typed, NEW a \in Aids
    PROVE  /\ Signal(a) \subseteq Signals
           /\ Outbound(a) \subseteq Packets
           /\ \A m \in Outbound(a) : \/ m \in assoc[a].control
                                     \/ m.type \in {"DATA", "SACK", "SHUTDOWN", "SHUTDOWN-ACK",
                                                    "SHUTDOWN-COMPLETE"}
<1> DEFINE r == assoc[a]
<1>1. r \in Association
  BY DEF Typed
<1>2. r.peer_tag \in Aids \cup {NoTag} /\ r.control \subseteq Packets /\ r.will \subseteq Signals
  BY <1>1 DEF Association
<1>3. Signal(a) \subseteq Signals
  BY <1>2 DEF Signal, Signals
<1>4. \A w \in Signals : SignalType(w) \in {"SHUTDOWN", "SHUTDOWN-ACK", "SHUTDOWN-COMPLETE"}
  BY DEF Signals, SignalType
<1>5. \A ty \in Types : Packet(ty, r.peer_tag) \in Packets /\ Packet(ty, r.peer_tag).type = ty
  BY <1>2, PacketTypes DEF Packet
<1>6. \A m \in Outbound(a) : \/ m \in r.control
                             \/ m = Packet("DATA", r.peer_tag) \/ m = Packet("SACK", r.peer_tag)
                             \/ \E w \in Signal(a) : m = Packet(SignalType(w), r.peer_tag)
  BY DEF Outbound
<1>7. \A m \in Outbound(a) : \/ m \in r.control
                             \/ \E ty \in {"DATA", "SACK", "SHUTDOWN", "SHUTDOWN-ACK",
                                           "SHUTDOWN-COMPLETE"} : m = Packet(ty, r.peer_tag)
  BY <1>3, <1>4, <1>6
<1>8. {"DATA", "SACK", "SHUTDOWN", "SHUTDOWN-ACK", "SHUTDOWN-COMPLETE"} \subseteq Types
  BY DEF Types
<1>9. \A m \in Outbound(a) :
        /\ m \in Packets
        /\ m \in r.control \/ m.type \in {"DATA", "SACK", "SHUTDOWN", "SHUTDOWN-ACK",
                                          "SHUTDOWN-COMPLETE"}
  BY <1>2, <1>5, <1>7, <1>8
<1> QED BY <1>3, <1>9

LEMMA PollEffect ==
    ASSUME Typed, NEW a \in Aids, PollTransmit(a)
    PROVE  \E d \in {"none", "pending", "inflight", "acked"}, k \in BOOLEAN, t \in SUBSET Timers :
             /\ d = IF assoc[a].data = "pending" /\ assoc[a].state = "Established"
                    THEN "inflight" ELSE assoc[a].data
             /\ t = IF StartsT2(a) THEN assoc[a].timers \cup {"T2Shutdown"} ELSE assoc[a].timers
             /\ Becomes(a, [assoc[a] EXCEPT !.control = {}, !.data = d, !.ack = k,
                                            !.will = @ \ Signal(a), !.timers = t])
<1> DEFINE r == assoc[a]
           d == IF r.data = "pending" /\ r.state = "Established" THEN "inflight" ELSE r.data
           k == r.ack /\ ~SendsAck(r.state)
           t == IF StartsT2(a) THEN r.timers \cup {"T2Shutdown"} ELSE r.timers
<1>1. r \in Association
  BY DEF Typed
<1>2. d \in {"none", "pending", "inflight", "acked"}
  BY <1>1 DEF Association
<1>3. t \in SUBSET Timers
  BY <1>1 DEF Association, Timers
<1>4. k \in BOOLEAN
  OBVIOUS
<1>5. r.will \ Signal(a) \in SUBSET Signals
  BY <1>1 DEF Association
<1>6. assoc' = [assoc EXCEPT ![a] = [assoc[a] EXCEPT !.control = {}, !.data = d, !.ack = k,
                                            !.will = @ \ Signal(a), !.timers = t]]
  BY <1>1 DEF PollTransmit, Typed
<1>7. d = (IF assoc[a].data = "pending" /\ assoc[a].state = "Established"
           THEN "inflight" ELSE assoc[a].data)
  OBVIOUS
<1>8. t = (IF StartsT2(a) THEN assoc[a].timers \cup {"T2Shutdown"} ELSE assoc[a].timers)
  OBVIOUS
<1> HIDE DEF d, k, t
<1>9. [assoc[a] EXCEPT !.control = {}, !.data = d, !.ack = k,
                       !.will = @ \ Signal(a), !.timers = t] \in Association
  BY <1>1, <1>2, <1>3, <1>4, <1>5 DEF Association
<1> QED BY <1>2, <1>3, <1>4, <1>6, <1>7, <1>8, <1>9 DEF Becomes

LEMMA T1Effect ==
    ASSUME Typed, NEW a \in Aids, NEW t \in {"T1Init", "T1Cookie"}, T1Timeout(a, t)
    PROVE  \/ Becomes(a, [assoc[a] EXCEPT !.timers = @ \ {t}, !.events = @ \cup {"Lost"}])
           \/ \E c \in SUBSET Packets :
                /\ \A m \in c : \/ m \in assoc[a].control
                                \/ m = TheInit
                                \/ /\ assoc[a].stored_cookie_echo # NoTag
                                   /\ m = CookieEcho(assoc[a].stored_cookie_echo, assoc[a].peer_tag)
                /\ Becomes(a, [assoc[a] EXCEPT !.control = c])
<1> DEFINE c == assoc[a].control \cup
                  CASE t = "T1Init" /\ assoc[a].stored_init -> {TheInit}
                    [] t = "T1Cookie" /\ assoc[a].stored_cookie_echo # NoTag ->
                         {CookieEcho(assoc[a].stored_cookie_echo, assoc[a].peer_tag)}
                    [] OTHER -> {}
<1>1. assoc[a] \in Association
  BY DEF Typed
<1>2. CASE retrans[t] + 1 > MaxRetrans(t)
  <2>1. assoc' = [assoc EXCEPT ![a] = GiveUp(@, t)]
    BY <1>2 DEF T1Timeout
  <2>2. assoc' = [assoc EXCEPT ![a] = [assoc[a] EXCEPT !.timers = @ \ {t},
                                                       !.events = @ \cup {"Lost"}]]
    BY <2>1 DEF GiveUp, Typed
  <2>3. /\ assoc[a].timers \ {t} \in SUBSET Timers
        /\ assoc[a].events \cup {"Lost"} \in SUBSET {"Connected", "Lost"}
    BY <1>1 DEF Association
  <2>4. [assoc[a] EXCEPT !.timers = @ \ {t}, !.events = @ \cup {"Lost"}] \in Association
    BY <1>1, <2>3 DEF Association
  <2> QED BY <2>2, <2>4 DEF Becomes
<1>3. CASE ~(retrans[t] + 1 > MaxRetrans(t))
  <2>1. assoc' = [assoc EXCEPT ![a] = [assoc[a] EXCEPT !.control = c]]
    BY <1>3 DEF T1Timeout, Typed
  <2>2. \A m \in c : \/ m \in assoc[a].control
                     \/ m = TheInit
                     \/ /\ assoc[a].stored_cookie_echo # NoTag
                        /\ m = CookieEcho(assoc[a].stored_cookie_echo, assoc[a].peer_tag)
    OBVIOUS
  <2> HIDE DEF c
  <2>3. /\ assoc[a].control \subseteq Packets
        /\ assoc[a].stored_cookie_echo \in Aids \cup {NoTag}
        /\ assoc[a].peer_tag \in Aids \cup {NoTag}
    BY <1>1 DEF Association
  <2>4. TheInit \in Packets
        /\ CookieEcho(assoc[a].stored_cookie_echo, assoc[a].peer_tag) \in Packets
    BY <2>3, PacketTypes
  <2>5. c \in SUBSET Packets
    BY <2>2, <2>3, <2>4
  <2>6. [assoc[a] EXCEPT !.control = c] \in Association
    BY <1>1, <2>5 DEF Association
  <2> QED BY <2>1, <2>2, <2>5, <2>6 DEF Becomes
<1> QED BY <1>2, <1>3

LEMMA T2Effect ==
    ASSUME Typed, NEW a \in Aids, T2Timeout(a)
    PROVE  \E w \in SUBSET Signals :
             assoc[a].will \subseteq w /\ Becomes(a, [assoc[a] EXCEPT !.will = w])
<1> DEFINE w == assoc[a].will \cup CASE assoc[a].state = "ShutdownSent" -> {"shutdown"}
                                     [] assoc[a].state = "ShutdownAckSent" -> {"shutdown_ack"}
                                     [] OTHER -> {}
<1>1. assoc[a] \in Association
  BY DEF Typed
<1>2. w \in SUBSET Signals /\ assoc[a].will \subseteq w
  BY <1>1 DEF Association, Signals
<1>3. assoc' = [assoc EXCEPT ![a] = [assoc[a] EXCEPT !.will = w]]
  BY DEF T2Timeout, Typed
<1> HIDE DEF w
<1>4. [assoc[a] EXCEPT !.will = w] \in Association
  BY <1>1, <1>2 DEF Association
<1> QED BY <1>2, <1>3, <1>4 DEF Becomes

LEMMA WriteEffect ==
    ASSUME Typed, NEW a \in Aids, Write(a)
    PROVE  Becomes(a, [assoc[a] EXCEPT !.data = "pending"])
<1>1. assoc[a] \in Association
  BY DEF Typed
<1>2. [assoc[a] EXCEPT !.data = "pending"] \in Association
  BY <1>1 DEF Association
<1> QED BY <1>2 DEF Write, Becomes, Typed

LEMMA AppShutdownEffect ==
    ASSUME Typed, NEW a \in Aids, Shutdown(a)
    PROVE  Becomes(a, [assoc[a] EXCEPT !.will = @ \cup {"shutdown"}, !.state = "ShutdownSent",
                                       !.drained = TRUE])
<1>1. assoc[a] \in Association
  BY DEF Typed
<1>2. assoc[a].will \cup {"shutdown"} \in SUBSET Signals /\ "ShutdownSent" \in States
  BY <1>1 DEF Association, Signals, States
<1>3. [assoc[a] EXCEPT !.will = @ \cup {"shutdown"}, !.state = "ShutdownSent",
                       !.drained = TRUE] \in Association
  BY <1>1, <1>2 DEF Association
<1> QED BY <1>3 DEF Shutdown, Becomes, Typed

-----------------------------------------------------------------------------
(***************************************************************************)
(* The inductive invariant of the handshake.  Agreement itself speaks of   *)
(* associations; what carries it from one to the other is what the packets *)
(* under way, delivered or not, say about them.                            *)
(***************************************************************************)

\* What a packet proves to whoever receives it.
Sound(m) ==
    /\ m.type = "INIT" => m.initiate_tag = Client
    /\ m.type = "INIT-ACK" => /\ m.tag = Client /\ m.initiate_tag \in Servers
                              /\ m.cookie = m.initiate_tag /\ assoc[m.cookie].peer_tag = Client
    /\ m.type = "COOKIE-ECHO" => m.cookie \in Servers /\ m.cookie = assoc[Client].peer_tag
    /\ m.type = "COOKIE-ACK" => /\ m.tag = Client /\ assoc[Client].peer_tag \in Servers
                                /\ assoc[assoc[Client].peer_tag].completed

PacketsSound ==
    /\ \A m \in net : Sound(m)
    /\ \A a \in Aids : \A m \in assoc[a].control : Sound(m)

ClientSide ==
    /\ ~assoc[Client].my_cookie
    /\ assoc[Client].state = "CookieWait" => assoc[Client].peer_tag = NoTag
    /\ assoc[Client].peer_tag # NoTag =>
         assoc[Client].peer_tag \in Servers /\ assoc[assoc[Client].peer_tag].peer_tag = Client
    /\ assoc[Client].stored_cookie_echo \in {NoTag, assoc[Client].peer_tag}
    /\ assoc[Client].completed =>
         assoc[Client].peer_tag \in Servers /\ assoc[assoc[Client].peer_tag].completed

ServerSide ==
    \A s \in Servers :
        /\ assoc[s].state \notin {"CookieWait", "CookieEchoed"}
        /\ assoc[s].my_cookie => assoc[s].peer_tag = Client
        /\ assoc[s].completed => s = assoc[Client].peer_tag
        /\ assoc[s].stored_cookie_echo = NoTag

EstablishedCompleted == \A a \in Aids : assoc[a].state = "Established" => assoc[a].completed

HInv == Typed /\ PacketsSound /\ ClientSide /\ ServerSide /\ EstablishedCompleted

\* The state after a becomes r.
LEMMA Frame ==
    ASSUME Typed, NEW a \in Aids, NEW r, Becomes(a, r)
    PROVE  /\ assoc'[a] = r /\ \A b \in Aids \ {a} : assoc'[b] = assoc[b]
           /\ assoc' \in [Aids -> Association]
BY DEF Typed, Becomes

\* The parts of an association the handshake invariant reads.
SameParty(r, q) ==
    /\ r.peer_tag = q.peer_tag /\ r.my_cookie = q.my_cookie /\ r.completed = q.completed
    /\ r.stored_cookie_echo = q.stored_cookie_echo
    /\ r.state \in {"CookieWait", "CookieEchoed", "Established"} => r.state = q.state

\* A step that leaves those parts alone and adds only sound packets keeps it.
LEMMA Quiet ==
    ASSUME HInv, NEW a \in Aids, NEW r, Becomes(a, r), SameParty(r, assoc[a]),
           \A m \in r.control : Sound(m),
           known' \subseteq Aids, net' \subseteq Packets, \A m \in net' : Sound(m)
    PROVE  HInv'
<1>1. /\ assoc'[a] = r /\ \A b \in Aids \ {a} : assoc'[b] = assoc[b]
      /\ assoc' \in [Aids -> Association]
  BY Frame DEF HInv
<1>2. \A b \in Aids : SameParty(assoc'[b], assoc[b])
  BY <1>1 DEF SameParty
<1>3. \A m : Sound(m) => Sound(m)'
  BY <1>2, IdFacts DEF Sound, SameParty
<1>4. \A b \in Aids : \A m \in assoc'[b].control : Sound(m)
  BY <1>1 DEF HInv, PacketsSound
<1>5. PacketsSound'
  BY <1>3, <1>4 DEF PacketsSound
<1>6. ClientSide'
  BY <1>2, IdFacts DEF HInv, ClientSide, SameParty
<1>7. ServerSide'
  BY <1>2, IdFacts DEF HInv, ServerSide, SameParty
<1>8. EstablishedCompleted'
  BY <1>2 DEF HInv, EstablishedCompleted, SameParty
<1> QED BY <1>1, <1>5, <1>6, <1>7, <1>8 DEF HInv, Typed

\* A copy of INIT makes a server that has the client as its peer.
LEMMA FirstPacketStep ==
    ASSUME HInv, NEW m \in net, HandleFirstPacket(m)
    PROVE  HInv'
<1>1. PICK s \in Servers :
             /\ assoc[s] = NewServer /\ known' = known \cup {s}
             /\ Becomes(s, [assoc[s] EXCEPT !.peer_tag = m.initiate_tag, !.my_cookie = TRUE,
                                            !.control = {InitAck(s, m.initiate_tag)}])
  BY FirstPacketEffect DEF HInv
<1>2. net' = net /\ m.type = "INIT" /\ m.initiate_tag = Client
  BY DEF HandleFirstPacket, HInv, PacketsSound, Sound
<1> DEFINE r == [assoc[s] EXCEPT !.peer_tag = m.initiate_tag, !.my_cookie = TRUE,
                                 !.control = {InitAck(s, m.initiate_tag)}]
<1>3. s \in Aids /\ s # Client /\ Client \in Aids
  BY IdFacts
<1>4. /\ assoc'[s] = r /\ \A b \in Aids \ {s} : assoc'[b] = assoc[b]
      /\ assoc' \in [Aids -> Association]
  BY <1>1, <1>3, Frame DEF HInv
<1>5. /\ assoc'[s].peer_tag = Client /\ assoc'[s].my_cookie /\ ~assoc'[s].completed
      /\ assoc'[s].state = "Closed" /\ assoc'[s].stored_cookie_echo = NoTag
      /\ assoc'[s].control = {InitAck(s, Client)}
  BY <1>1, <1>2, <1>3, <1>4 DEF NewServer, HInv, Typed, Association
<1> HIDE DEF r
<1>6. ~assoc[s].completed /\ assoc[s].peer_tag = NoTag
  BY <1>1 DEF NewServer
<1>7. \A p : Sound(p) => Sound(p)'
  BY <1>3, <1>4, <1>5, <1>6, IdFacts DEF Sound
<1>8. Sound(InitAck(s, Client))'
  BY <1>5 DEF Sound, InitAck, Packet
<1>9. PacketsSound'
  BY <1>2, <1>3, <1>4, <1>5, <1>7, <1>8 DEF HInv, PacketsSound
<1>10. ClientSide'
  BY <1>3, <1>4, <1>5, <1>6, IdFacts DEF HInv, ClientSide
<1>11. ServerSide'
  BY <1>3, <1>4, <1>5, IdFacts DEF HInv, ServerSide
<1>12. EstablishedCompleted'
  BY <1>3, <1>4, <1>5 DEF HInv, EstablishedCompleted
<1>13. Typed'
  BY <1>1, <1>2, <1>3, <1>4 DEF HInv, Typed
<1> QED BY <1>9, <1>10, <1>11, <1>12, <1>13 DEF HInv

\* INIT-ACK decides the client's peer, once.
LEMMA InitAckStep ==
    ASSUME HInv, NEW a \in Aids, NEW m \in net, HandleInitAck(a, m)
    PROVE  HInv' /\ a = Client /\ m.cookie = m.initiate_tag
<1>1. a = Client
  BY DEF HandleInitAck, ExpectsInitAck, HInv, ServerSide, Aids
<1> DEFINE q == assoc[Client]
           r == [q EXCEPT !.peer_tag = m.initiate_tag, !.stored_init = FALSE,
                          !.stored_cookie_echo = m.cookie,
                          !.control = @ \cup {CookieEcho(m.cookie, m.initiate_tag)},
                          !.timers = T1Switch(@), !.state = "CookieEchoed"]
<1>2. /\ m.initiate_tag \in Servers /\ m.cookie = m.initiate_tag
      /\ assoc[m.initiate_tag].peer_tag = Client
  BY DEF HandleInitAck, HInv, PacketsSound, Sound
<1>3. q.peer_tag = NoTag /\ q \in Association
  BY <1>1 DEF HandleInitAck, ExpectsInitAck, HInv, ClientSide, Typed
<1>4. ~q.completed /\ \A s \in Servers : ~assoc[s].completed
  BY <1>3, IdFacts DEF HInv, ClientSide, ServerSide
<1>5. Becomes(Client, r)
  BY <1>1, InitAckEffect DEF HInv
<1>6. /\ assoc'[Client] = r /\ \A b \in Aids \ {Client} : assoc'[b] = assoc[b]
      /\ assoc' \in [Aids -> Association]
  BY <1>1, <1>5, Frame DEF HInv
<1>7. /\ r.peer_tag = m.initiate_tag /\ r.my_cookie = q.my_cookie /\ r.completed = q.completed
      /\ r.stored_cookie_echo = m.initiate_tag /\ r.state = "CookieEchoed"
      /\ r.control = q.control \cup {CookieEcho(m.initiate_tag, m.initiate_tag)}
  BY <1>2, <1>3 DEF Association
<1> HIDE DEF r
<1>8. net' = net /\ known' = known
  BY DEF HandleInitAck
<1>9. \A b \in Servers : assoc'[b] = assoc[b]
  BY <1>6, IdFacts
<1>10. \A p : Sound(p) => Sound(p)'
  BY <1>3, <1>4, <1>9, IdFacts DEF Sound
<1>11. Sound(CookieEcho(m.initiate_tag, m.initiate_tag))'
  BY <1>2, <1>6, <1>7 DEF Sound, CookieEcho, Packet
<1>12. PacketsSound'
  BY <1>6, <1>7, <1>8, <1>10, <1>11, IdFacts DEF HInv, PacketsSound
<1>13. ClientSide'
  BY <1>2, <1>4, <1>6, <1>7, <1>9, IdFacts DEF HInv, ClientSide
<1>14. ServerSide'
  BY <1>4, <1>9 DEF HInv, ServerSide
<1>15. EstablishedCompleted'
  BY <1>6, <1>7 DEF HInv, EstablishedCompleted
<1>16. Typed'
  BY <1>6, <1>8 DEF HInv, Typed
<1> QED BY <1>1, <1>2, <1>12, <1>13, <1>14, <1>15, <1>16 DEF HInv

\* The handshake ends at the server the client chose, then at the client.
LEMMA EstablishStep ==
    ASSUME HInv, NEW a \in Aids, Establish(a),
           IF a = Client THEN assoc[Client].peer_tag \in Servers
                              /\ assoc[assoc[Client].peer_tag].completed
           ELSE assoc[a].my_cookie /\ a = assoc[Client].peer_tag
    PROVE  HInv'
<1> DEFINE q == assoc[a]
<1>1. PICK c \in SUBSET Packets :
             /\ c = IF a = Client THEN q.control
                    ELSE q.control \cup {Packet("COOKIE-ACK", q.peer_tag)}
             /\ Becomes(a, [q EXCEPT !.stored_init = FALSE, !.stored_cookie_echo = NoTag,
                                            !.timers = @ \ {"T1Init", "T1Cookie"},
                                            !.events = @ \cup {"Connected"},
                                            !.state = "Established", !.completed = TRUE,
                                            !.control = c])
  BY EstablishEffect DEF HInv
<1> DEFINE r == [q EXCEPT !.stored_init = FALSE, !.stored_cookie_echo = NoTag,
                          !.timers = @ \ {"T1Init", "T1Cookie"}, !.events = @ \cup {"Connected"},
                          !.state = "Established", !.completed = TRUE, !.control = c]
<1>2. q \in Association
  BY DEF HInv, Typed
<1>3. /\ assoc'[a] = r /\ \A b \in Aids \ {a} : assoc'[b] = assoc[b]
      /\ assoc' \in [Aids -> Association]
  BY <1>1, Frame DEF HInv
<1>4. /\ r.peer_tag = q.peer_tag /\ r.my_cookie = q.my_cookie /\ r.completed = TRUE
      /\ r.stored_cookie_echo = NoTag /\ r.state = "Established" /\ r.control = c
  BY <1>2 DEF Association
<1> HIDE DEF r
<1>5. \A b \in Aids : /\ assoc'[b].peer_tag = assoc[b].peer_tag
                      /\ assoc'[b].my_cookie = assoc[b].my_cookie
                      /\ assoc[b].completed => assoc'[b].completed
  BY <1>3, <1>4
<1>6. \A p : Sound(p) => Sound(p)'
  BY <1>5, IdFacts DEF Sound
<1>7. net' = net /\ known' = known
  BY DEF Establish
<1>8. \A p \in c : Sound(p)'
  <2>1. CASE a = Client
    BY <1>1, <1>6, <2>1 DEF HInv, PacketsSound
  <2>2. CASE a # Client
    <3>1. q.peer_tag = Client /\ a \in Servers /\ a = assoc[Client].peer_tag
      BY <2>2 DEF HInv, ServerSide, Aids
    <3>2. Sound(Packet("COOKIE-ACK", Client))'
      BY <3>1, <1>3, <1>4, <1>5, IdFacts DEF Sound, Packet
    <3> QED BY <1>1, <1>6, <2>2, <3>1, <3>2 DEF HInv, PacketsSound
  <2> QED BY <2>1, <2>2
<1>9. PacketsSound'
  BY <1>3, <1>4, <1>6, <1>7, <1>8 DEF HInv, PacketsSound
<1>10. ClientSide'
  BY <1>3, <1>4, <1>5, IdFacts DEF HInv, ClientSide
<1>11. ServerSide'
  BY <1>3, <1>4, <1>5, IdFacts DEF HInv, ServerSide
<1>12. EstablishedCompleted'
  BY <1>3, <1>4 DEF HInv, EstablishedCompleted
<1> QED BY <1>3, <1>7, <1>9, <1>10, <1>11, <1>12 DEF HInv, Typed

-----------------------------------------------------------------------------
(***************************************************************************)
(* The invariant with the timers of the handshake and the order of the     *)
(* shutdown, and its preservation action by action.                        *)
(***************************************************************************)

\* HandshakeArmed, of an association r.
Armed(r) ==
    "Lost" \notin r.events =>
      /\ r.state = "CookieWait" => /\ r.timers = {"T1Init"} /\ r.stored_init
                                  /\ r.stored_cookie_echo = NoTag
      /\ r.state = "CookieEchoed" => /\ r.timers = {"T1Cookie"} /\ ~r.stored_init
                                    /\ r.stored_cookie_echo = r.peer_tag

\* ShutdownOrderly of an association r with the packets n, and what it needs:
\* nobody rests in ShutdownPending, and whoever is in ShutdownSent called
\* shutdown itself.
Orderly(r, n) ==
    /\ r.state # "ShutdownPending"
    /\ r.state = "ShutdownSent" => r.drained
    /\ r.state = "ShutdownAckSent" /\ ~r.drained => r.data # "inflight"
    /\ r.state \in {"ShutdownSent", "ShutdownAckSent"} =>
         \/ "T2Shutdown" \in r.timers
         \/ r.will # {}
         \/ Packet("SHUTDOWN-COMPLETE", r.peer_tag) \in n

Inv ==
    /\ HInv
    /\ Armed(assoc[Client])
    /\ \A a \in Aids : Orderly(assoc[a], net)

LEMMA InvStarts == Init => Inv
<1> SUFFICES ASSUME Init PROVE Inv
  OBVIOUS
<1>1. TheInit \in Packets /\ Sound(TheInit)
  BY PacketTypes DEF TheInit, Packet, Sound
<1>2. NewServer \in Association
  BY DEF NewServer, Association, States
<1>3. NewClient \in Association
  BY <1>1, <1>2 DEF NewClient, NewServer, Association, States, Timers
<1>4. assoc[Client] = NewClient /\ \A s \in Servers : assoc[s] = NewServer
  BY IdFacts DEF Init
<1>5. Typed
  BY <1>2, <1>3, IdFacts DEF Init, Typed
<1>6. /\ NewClient.state = "CookieWait" /\ NewClient.peer_tag = NoTag /\ ~NewClient.my_cookie
      /\ ~NewClient.completed /\ NewClient.stored_cookie_echo = NoTag
      /\ NewClient.control = {TheInit} /\ NewClient.stored_init
      /\ NewClient.timers = {"T1Init"}
  BY DEF NewClient, NewServer
<1>7. /\ NewServer.state = "Closed" /\ ~NewServer.my_cookie /\ ~NewServer.completed
      /\ NewServer.stored_cookie_echo = NoTag /\ NewServer.control = {}
  BY DEF NewServer
<1>8. PacketsSound
  BY <1>1, <1>4, <1>6, <1>7 DEF Init, PacketsSound, Aids
<1>9. ClientSide /\ ServerSide /\ EstablishedCompleted
  BY <1>4, <1>6, <1>7 DEF ClientSide, ServerSide, EstablishedCompleted, Aids
<1>10. Armed(assoc[Client]) /\ \A a \in Aids : Orderly(assoc[a], net)
  BY <1>4, <1>6, <1>7 DEF Armed, Orderly, Aids
<1> QED BY <1>5, <1>8, <1>9, <1>10 DEF Inv, HInv

\* The part about timers and shutdown is local to the association that moves.
LEMMA Local ==
    ASSUME Inv, NEW a \in Aids, NEW r, Becomes(a, r), net \subseteq net',
           a = Client => Armed(r), Orderly(r, net'), HInv'
    PROVE  Inv'
<1>1. assoc'[a] = r /\ \A b \in Aids \ {a} : assoc'[b] = assoc[b]
  BY Frame DEF Inv, HInv
<1>2. Armed(assoc'[Client])
  BY <1>1, IdFacts DEF Inv
<1>3. \A b \in Aids : Orderly(assoc[b], net) => Orderly(assoc[b], net')
  BY DEF Orderly
<1>4. \A b \in Aids : Orderly(assoc'[b], net')
  BY <1>1, <1>3 DEF Inv
<1> QED BY <1>2, <1>4 DEF Inv

\* A step of one association that is no step of the handshake.
LEMMA QuietStep ==
    ASSUME Inv, NEW a \in Aids, NEW r, Becomes(a, r), SameParty(r, assoc[a]),
           \A m \in r.control : Sound(m),
           known' = known, net' = net,
           a = Client => Armed(r), Orderly(r, net)
    PROVE  Inv'
<1>1. HInv'
  BY Quiet DEF Inv, HInv, Typed, PacketsSound
<1> QED BY <1>1, Local

LEMMA PollStep ==
    ASSUME Inv, NEW a \in Aids, PollTransmit(a)
    PROVE  Inv'
<1> DEFINE q == assoc[a]
<1>1. PICK d \in {"none", "pending", "inflight", "acked"}, k \in BOOLEAN, t \in SUBSET Timers :
             /\ d = IF q.data = "pending" /\ q.state = "Established" THEN "inflight" ELSE q.data
             /\ t = IF StartsT2(a) THEN q.timers \cup {"T2Shutdown"} ELSE q.timers
             /\ Becomes(a, [q EXCEPT !.control = {}, !.data = d, !.ack = k,
                                     !.will = @ \ Signal(a), !.timers = t])
  BY PollEffect DEF Inv, HInv
<1> DEFINE r == [q EXCEPT !.control = {}, !.data = d, !.ack = k,
                          !.will = @ \ Signal(a), !.timers = t]
<1>2. q \in Association
  BY DEF Inv, HInv, Typed
<1>3. /\ r.control = {} /\ r.data = d /\ r.will = q.will \ Signal(a) /\ r.timers = t
      /\ r.state = q.state /\ r.drained = q.drained /\ r.events = q.events
      /\ r.peer_tag = q.peer_tag /\ r.stored_init = q.stored_init
      /\ r.stored_cookie_echo = q.stored_cookie_echo
      /\ r.my_cookie = q.my_cookie /\ r.completed = q.completed
  BY <1>2 DEF Association
<1>4. Becomes(a, r)
  BY <1>1
<1> HIDE DEF r
<1>5. net' = net \cup Outbound(a) /\ known' = known
  BY DEF PollTransmit
<1>6. net' \subseteq Packets /\ \A m \in net' : Sound(m)
  BY <1>5, SignalFacts DEF Inv, HInv, Typed, PacketsSound, Sound
<1>7. HInv'
  BY <1>3, <1>4, <1>5, <1>6, Quiet DEF SameParty, Inv, HInv, Typed
<1>8. Signal(a) # {} => Ending(q.state)
  BY DEF Signal
<1>9. ASSUME a = Client PROVE Armed(r)
  BY <1>1, <1>3, <1>8, <1>9 DEF Inv, Armed, StartsT2, Ending
<1>10. ASSUME q.state \in {"ShutdownSent", "ShutdownAckSent"}
       PROVE  \/ "T2Shutdown" \in r.timers
              \/ r.will # {}
              \/ Packet("SHUTDOWN-COMPLETE", r.peer_tag) \in net'
  <2>1. CASE StartsT2(a)
    BY <1>1, <1>3, <2>1
  <2>2. CASE ~StartsT2(a)
    <3>1. q.will \subseteq Signals
      BY <1>2 DEF Association
    <3>2. Ending(q.state)
      BY <1>10 DEF Ending
    <3>3. "shutdown" \notin q.will /\ "shutdown_ack" \notin q.will
      BY <2>2, <3>2 DEF StartsT2, Signal
    <3>4. Signal(a) = q.will
      BY <3>2, <3>3 DEF Signal
    <3>5. q.will # {} => "shutdown_complete" \in Signal(a)
      BY <3>1, <3>3, <3>4 DEF Signals
    <3>6. "shutdown_complete" \in Signal(a) => Packet("SHUTDOWN-COMPLETE", q.peer_tag) \in Outbound(a)
      <4>1. SignalType("shutdown_complete") = "SHUTDOWN-COMPLETE"
        BY DEF SignalType
      <4> QED BY <4>1 DEF Outbound
    <3>7. Orderly(q, net)
      BY DEF Inv
    <3> QED BY <1>1, <1>3, <1>5, <1>10, <2>2, <3>5, <3>6, <3>7 DEF Orderly
  <2> QED BY <2>1, <2>2
<1>11. Orderly(q, net)
  BY DEF Inv
<1>12. Orderly(r, net')
  BY <1>1, <1>3, <1>10, <1>11 DEF Orderly
<1> QED BY <1>4, <1>5, <1>7, <1>9, <1>12, Local

LEMMA TimeoutStep ==
    ASSUME Inv, NEW a \in Aids, Timeout(a)
    PROVE  Inv'
<1> DEFINE q == assoc[a]
<1>1. q \in Association /\ Orderly(q, net) /\ (a = Client => Armed(q)) /\ Typed
      /\ \A m \in q.control : Sound(m)
  BY DEF Inv, HInv, Typed, PacketsSound
<1>2. known' = known /\ net' = net
  BY DEF Timeout, T1Timeout, T2Timeout
<1>3. CASE T2Timeout(a)
  <2>1. PICK w \in SUBSET Signals : q.will \subseteq w /\ Becomes(a, [q EXCEPT !.will = w])
    BY <1>1, <1>3, T2Effect
  <2> DEFINE r == [q EXCEPT !.will = w]
  <2>2. /\ SameParty(r, q) /\ r.control = q.control /\ (Armed(q) => Armed(r))
        /\ (Orderly(q, net) => Orderly(r, net))
    BY <1>1, <2>1 DEF Association, SameParty, Armed, Orderly
  <2> HIDE DEF r
  <2>3. Becomes(a, r)
    BY <2>1 DEF r
  <2> QED BY <1>1, <1>2, <2>2, <2>3, QuietStep
<1>4. ASSUME NEW t \in {"T1Init", "T1Cookie"}, T1Timeout(a, t) PROVE Inv'
  <2>1. CASE Becomes(a, [q EXCEPT !.timers = @ \ {t}, !.events = @ \cup {"Lost"}])
    <3> DEFINE r == [q EXCEPT !.timers = @ \ {t}, !.events = @ \cup {"Lost"}]
    <3>1. /\ SameParty(r, q) /\ r.control = q.control /\ Armed(r)
          /\ (Orderly(q, net) => Orderly(r, net))
      BY <1>1 DEF Association, SameParty, Armed, Orderly
    <3> HIDE DEF r
    <3>2. Becomes(a, r)
      BY <2>1 DEF r
    <3> QED BY <1>1, <1>2, <3>1, <3>2, QuietStep
  <2>2. ASSUME NEW c \in SUBSET Packets, Becomes(a, [q EXCEPT !.control = c]),
               \A m \in c : \/ m \in q.control
                            \/ m = TheInit
                            \/ /\ q.stored_cookie_echo # NoTag
                               /\ m = CookieEcho(q.stored_cookie_echo, q.peer_tag)
        PROVE  Inv'
    <3> DEFINE r == [q EXCEPT !.control = c]
    <3>1. /\ SameParty(r, q) /\ r.control = c /\ (Armed(q) => Armed(r))
          /\ (Orderly(q, net) => Orderly(r, net))
      BY <1>1 DEF Association, SameParty, Armed, Orderly
    <3> HIDE DEF r
    <3>2. Becomes(a, r)
      BY <2>2 DEF r
    <3>3. Sound(TheInit)
      BY DEF Sound, TheInit, Packet
    <3>4. ASSUME q.stored_cookie_echo # NoTag
          PROVE  Sound(CookieEcho(q.stored_cookie_echo, q.peer_tag))
      <4>1. a = Client
        BY <3>4 DEF Inv, HInv, ServerSide, Aids
      <4>2. q.stored_cookie_echo = assoc[Client].peer_tag /\ assoc[Client].peer_tag \in Servers
        BY <3>4, <4>1 DEF Inv, HInv, ClientSide
      <4> QED BY <4>2 DEF Sound, CookieEcho, Packet
    <3>5. \A m \in c : Sound(m)
      BY <1>1, <2>2, <3>3, <3>4
    <3> QED BY <1>1, <1>2, <3>1, <3>2, <3>5, QuietStep
  <2> QED BY <1>1, <1>4, <2>1, <2>2, T1Effect
<1> QED BY <1>3, <1>4 DEF Timeout

LEMMA CallStep ==
    ASSUME Inv, NEW a \in Aids, Write(a) \/ Shutdown(a) \/ Close(a) \/ PollEndpointEvent(a)
    PROVE  Inv'
<1> DEFINE q == assoc[a]
<1>1. q \in Association /\ Orderly(q, net) /\ (a = Client => Armed(q)) /\ Typed
      /\ \A m \in q.control : Sound(m)
  BY DEF Inv, HInv, Typed, PacketsSound
<1>2. net' = net
  BY DEF Write, Shutdown, Close, PollEndpointEvent
<1>3. CASE Write(a)
  <2> DEFINE r == [q EXCEPT !.data = "pending"]
  <2>1. Becomes(a, r) /\ q.state = "Established" /\ known' = known
    BY <1>1, <1>3, WriteEffect DEF Write
  <2>2. SameParty(r, q) /\ r.control = q.control /\ Armed(r) /\ Orderly(r, net)
    BY <1>1, <2>1 DEF Association, SameParty, Armed, Orderly
  <2> HIDE DEF r
  <2> QED BY <1>1, <1>2, <2>1, <2>2, QuietStep
<1>4. CASE Shutdown(a)
  <2> DEFINE r == [q EXCEPT !.will = @ \cup {"shutdown"}, !.state = "ShutdownSent",
                            !.drained = TRUE]
  <2>1. Becomes(a, r) /\ known' = known
    BY <1>1, <1>4, AppShutdownEffect DEF Shutdown
  <2>2. SameParty(r, q) /\ r.control = q.control /\ Armed(r) /\ Orderly(r, net)
    BY <1>1 DEF Association, SameParty, Armed, Orderly
  <2> HIDE DEF r
  <2> QED BY <1>1, <1>2, <2>1, <2>2, QuietStep
<1>5. CASE Close(a)
  <2> DEFINE r == [q EXCEPT !.state = "Closed", !.timers = {}]
  <2>1. Becomes(a, r) /\ known' = known
    BY <1>1, <1>5, CloseEffect DEF Close
  <2>2. SameParty(r, q) /\ r.control = q.control /\ Armed(r) /\ Orderly(r, net)
    BY <1>1 DEF Association, SameParty, Armed, Orderly
  <2> HIDE DEF r
  <2> QED BY <1>1, <1>2, <2>1, <2>2, QuietStep
<1>6. CASE PollEndpointEvent(a)
  <2>1. assoc' = assoc /\ known' \subseteq known
    BY <1>6 DEF PollEndpointEvent
  <2>2. Typed' /\ PacketsSound' /\ ClientSide' /\ ServerSide' /\ EstablishedCompleted'
    BY <1>2, <2>1 DEF Inv, HInv, Typed, PacketsSound, Sound, ClientSide, ServerSide,
                      EstablishedCompleted
  <2> QED BY <1>2, <2>1, <2>2 DEF Inv, HInv
<1> QED BY <1>3, <1>4, <1>5, <1>6

\* The end of the handshake, whoever reaches it.
LEMMA EstablishKeeps ==
    ASSUME Inv, NEW a \in Aids, Establish(a),
           IF a = Client THEN assoc[Client].peer_tag \in Servers
                              /\ assoc[assoc[Client].peer_tag].completed
           ELSE assoc[a].my_cookie /\ a = assoc[Client].peer_tag
    PROVE  Inv'
<1> DEFINE q == assoc[a]
<1>1. HInv'
  BY EstablishStep DEF Inv
<1>2. PICK c \in SUBSET Packets :
             Becomes(a, [q EXCEPT !.stored_init = FALSE, !.stored_cookie_echo = NoTag,
                                  !.timers = @ \ {"T1Init", "T1Cookie"},
                                  !.events = @ \cup {"Connected"},
                                  !.state = "Established", !.completed = TRUE,
                                  !.control = c])
  BY EstablishEffect DEF Inv, HInv
<1> DEFINE r == [q EXCEPT !.stored_init = FALSE, !.stored_cookie_echo = NoTag,
                          !.timers = @ \ {"T1Init", "T1Cookie"}, !.events = @ \cup {"Connected"},
                          !.state = "Established", !.completed = TRUE, !.control = c]
<1>3. q \in Association
  BY DEF Inv, HInv, Typed
<1>4. Armed(r) /\ Orderly(r, net')
  BY <1>3 DEF Association, Armed, Orderly
<1>5. net \subseteq net'
  BY DEF Establish
<1> HIDE DEF r
<1>6. Becomes(a, r)
  BY <1>2 DEF r
<1> QED BY <1>1, <1>4, <1>5, <1>6, Local

LEMMA DeliverStep ==
    ASSUME Inv, NEW a \in Aids, NEW m \in net, Deliver(a, m)
    PROVE  Inv'
<1> DEFINE q == assoc[a]
<1>1. q \in Association /\ Orderly(q, net) /\ (a = Client => Armed(q)) /\ Typed
      /\ (\A p \in q.control : Sound(p)) /\ Sound(m)
  BY DEF Inv, HInv, Typed, PacketsSound
<1>2. known' = known /\ net' = net
  BY DEF Deliver, HandleInitAck, HandleCookieEcho, HandleCookieAck, HandleData, HandleSack,
         HandleShutdown, HandleShutdownAck, HandleShutdownComplete, Establish
<1>3. CASE HandleInitAck(a, m)
  <2> DEFINE r == [q EXCEPT !.peer_tag = m.initiate_tag, !.stored_init = FALSE,
                            !.stored_cookie_echo = m.cookie,
                            !.control = @ \cup {CookieEcho(m.cookie, m.initiate_tag)},
                            !.timers = T1Switch(@), !.state = "CookieEchoed"]
  <2>1. HInv' /\ a = Client /\ m.cookie = m.initiate_tag
    BY <1>3, InitAckStep DEF Inv
  <2>2. Becomes(a, r) /\ q.state = "CookieWait"
    BY <1>1, <1>3, InitAckEffect DEF HandleInitAck, ExpectsInitAck
  <2>3. r.stored_cookie_echo = r.peer_tag /\ ~r.stored_init /\ r.state = "CookieEchoed"
        /\ r.events = q.events /\ r.timers = (q.timers \ {"T1Init"}) \cup {"T1Cookie"}
    BY <1>1, <2>1 DEF Association, T1Switch
  <2> HIDE DEF r
  <2>4. Armed(r) /\ Orderly(r, net)
    BY <1>1, <2>1, <2>2, <2>3 DEF Armed, Orderly
  <2> QED BY <1>2, <2>1, <2>2, <2>4, Local
<1>4. CASE HandleCookieEcho(a, m)
  <2>1. q.my_cookie /\ a = assoc[Client].peer_tag /\ a \in Servers
    BY <1>1, <1>4 DEF HandleCookieEcho, Sound
  <2>2. a # Client /\ q.peer_tag = Client
    BY <2>1, IdFacts DEF Inv, HInv, ServerSide
  <2>3. CASE Establish(a)
    BY <2>1, <2>2, <2>3, EstablishKeeps
  <2>4. CASE /\ q.state = "Established"
             /\ Becomes(a, [q EXCEPT !.control = @ \cup {Packet("COOKIE-ACK", q.peer_tag)}])
    <3> DEFINE r == [q EXCEPT !.control = @ \cup {Packet("COOKIE-ACK", q.peer_tag)}]
    <3>1. /\ SameParty(r, q) /\ r.control = q.control \cup {Packet("COOKIE-ACK", q.peer_tag)}
          /\ (Orderly(q, net) => Orderly(r, net))
      BY <1>1 DEF Association, SameParty, Orderly
    <3>2. q.completed
      BY <2>4 DEF Inv, HInv, EstablishedCompleted
    <3>3. Sound(Packet("COOKIE-ACK", q.peer_tag))
      BY <2>1, <2>2, <3>2 DEF Sound, Packet
    <3> HIDE DEF r
    <3>4. Becomes(a, r)
      BY <2>4 DEF r
    <3> QED BY <1>1, <1>2, <2>2, <3>1, <3>3, <3>4, QuietStep
  <2> QED BY <1>1, <1>4, <2>3, <2>4, CookieEchoEffect
<1>5. CASE HandleCookieAck(a, m)
  <2>1. a = Client
    BY <1>5 DEF HandleCookieAck, Inv, HInv, ServerSide, Aids
  <2>2. Establish(a) /\ assoc[Client].peer_tag \in Servers
        /\ assoc[assoc[Client].peer_tag].completed
    BY <1>1, <1>5 DEF HandleCookieAck, Sound
  <2> QED BY <2>1, <2>2, EstablishKeeps
<1>6. CASE HandleData(a, m)
  <2> DEFINE r == [q EXCEPT !.ack = TRUE]
  <2>1. Becomes(a, r)
    BY <1>1, <1>6, DataEffect
  <2>2. /\ SameParty(r, q) /\ r.control = q.control /\ (Armed(q) => Armed(r))
        /\ (Orderly(q, net) => Orderly(r, net))
    BY <1>1 DEF Association, SameParty, Armed, Orderly
  <2> HIDE DEF r
  <2> QED BY <1>1, <1>2, <2>1, <2>2, QuietStep
<1>7. CASE HandleSack(a, m)
  <2>1. PICK w \in SUBSET Signals, st \in States :
             /\ q.state \in {"Established", "ShutdownPending", "ShutdownReceived"}
             /\ q.state = "Established" => st = "Established"
             /\ q.state = "ShutdownPending" => st = "ShutdownSent"
             /\ q.state = "ShutdownReceived" => st = "ShutdownAckSent" /\ "shutdown_ack" \in w
             /\ Becomes(a, [q EXCEPT !.data = "acked", !.will = w, !.state = st])
    BY <1>1, <1>7, SackEffect
  <2> DEFINE r == [q EXCEPT !.data = "acked", !.will = w, !.state = st]
  <2>2. /\ r.state = st /\ r.data = "acked" /\ r.will = w /\ r.control = q.control
        /\ r.peer_tag = q.peer_tag /\ r.my_cookie = q.my_cookie /\ r.completed = q.completed
        /\ r.stored_cookie_echo = q.stored_cookie_echo
    BY <1>1 DEF Association
  <2> HIDE DEF r
  <2>3. q.state # "ShutdownPending"
    BY <1>1 DEF Orderly
  <2>4. SameParty(r, q) /\ Armed(r) /\ Orderly(r, net)
    BY <2>1, <2>2, <2>3 DEF SameParty, Armed, Orderly
  <2>5. Becomes(a, r)
    BY <2>1 DEF r
  <2> QED BY <1>1, <1>2, <2>2, <2>4, <2>5, QuietStep
<1>8. CASE HandleShutdown(a, m)
  <2>1. CASE Becomes(a, [q EXCEPT !.state = "ShutdownReceived"])
    <3> DEFINE r == [q EXCEPT !.state = "ShutdownReceived"]
    <3>1. SameParty(r, q) /\ r.control = q.control /\ Armed(r) /\ Orderly(r, net)
      BY <1>1 DEF Association, SameParty, Armed, Orderly
    <3> HIDE DEF r
    <3>2. Becomes(a, r)
      BY <2>1 DEF r
    <3> QED BY <1>1, <1>2, <3>1, <3>2, QuietStep
  <2>2. CASE /\ \/ q.state = "Established" /\ q.data # "inflight"
                \/ q.state = "ShutdownSent"
             /\ Becomes(a, [q EXCEPT !.will = @ \cup {"shutdown_ack"},
                                     !.state = "ShutdownAckSent"])
    <3> DEFINE r == [q EXCEPT !.will = @ \cup {"shutdown_ack"}, !.state = "ShutdownAckSent"]
    <3>1. /\ SameParty(r, q) /\ r.control = q.control /\ Armed(r)
          /\ r.state = "ShutdownAckSent" /\ r.will # {} /\ r.data = q.data
          /\ r.drained = q.drained
      BY <1>1 DEF Association, SameParty, Armed
    <3> HIDE DEF r
    <3>2. Orderly(r, net)
      BY <1>1, <2>2, <3>1 DEF Orderly
    <3>3. Becomes(a, r)
      BY <2>2 DEF r
    <3> QED BY <1>1, <1>2, <3>1, <3>2, <3>3, QuietStep
  <2> QED BY <1>1, <1>8, <2>1, <2>2, ShutdownEffect
<1>9. CASE HandleShutdownAck(a, m)
  <2> DEFINE r == [q EXCEPT !.timers = @ \ {"T2Shutdown"}, !.will = @ \cup {"shutdown_complete"}]
  <2>1. Becomes(a, r) /\ q.state \in {"ShutdownSent", "ShutdownAckSent"}
    BY <1>1, <1>9, ShutdownAckEffect
  <2>2. /\ r.state = q.state /\ r.will # {} /\ r.data = q.data /\ r.drained = q.drained
        /\ r.control = q.control /\ SameParty(r, q)
    BY <1>1 DEF Association, SameParty
  <2> HIDE DEF r
  <2>3. Armed(r) /\ Orderly(r, net)
    BY <1>1, <2>1, <2>2 DEF Armed, Orderly
  <2> QED BY <1>1, <1>2, <2>1, <2>2, <2>3, QuietStep
<1>10. CASE HandleShutdownComplete(a, m)
  <2> DEFINE r == [q EXCEPT !.state = "Closed", !.timers = {}]
  <2>1. Becomes(a, r)
    BY <1>1, <1>10, CloseEffect DEF HandleShutdownComplete
  <2>2. SameParty(r, q) /\ r.control = q.control /\ Armed(r) /\ Orderly(r, net)
    BY <1>1 DEF Association, SameParty, Armed, Orderly
  <2> HIDE DEF r
  <2> QED BY <1>1, <1>2, <2>1, <2>2, QuietStep
<1> QED BY <1>3, <1>4, <1>5, <1>6, <1>7, <1>8, <1>9, <1>10 DEF Deliver

LEMMA AcceptStep ==
    ASSUME Inv, NEW m \in net, HandleFirstPacket(m)
    PROVE  Inv'
<1>1. PICK s \in Servers :
             /\ assoc[s] = NewServer
             /\ Becomes(s, [assoc[s] EXCEPT !.peer_tag = m.initiate_tag, !.my_cookie = TRUE,
                                            !.control = {InitAck(s, m.initiate_tag)}])
  BY FirstPacketEffect DEF Inv, HInv
<1> DEFINE r == [assoc[s] EXCEPT !.peer_tag = m.initiate_tag, !.my_cookie = TRUE,
                                 !.control = {InitAck(s, m.initiate_tag)}]
<1>2. r.state = "Closed"
  BY <1>1 DEF NewServer
<1> HIDE DEF r
<1>3. Armed(r) /\ Orderly(r, net')
  BY <1>2 DEF Armed, Orderly
<1>4. HInv'
  BY FirstPacketStep DEF Inv
<1>5. net \subseteq net' /\ s \in Aids
  BY IdFacts DEF HandleFirstPacket
<1>6. Becomes(s, r)
  BY <1>1 DEF r
<1> QED BY <1>3, <1>4, <1>5, <1>6, Local

LEMMA InvStep == Inv /\ [Next]_vars => Inv'
<1> SUFFICES ASSUME Inv, [Next]_vars PROVE Inv'
  OBVIOUS
<1>1. known \subseteq Aids
  BY DEF Inv, HInv, Typed
<1>2. CASE \E m \in net : HandleFirstPacket(m)
  BY <1>2, AcceptStep
<1>3. ASSUME NEW a \in known, \E m \in net : Deliver(a, m) PROVE Inv'
  BY <1>1, <1>3, DeliverStep
<1>4. ASSUME NEW a \in known, PollTransmit(a) PROVE Inv'
  BY <1>1, <1>4, PollStep
<1>5. ASSUME NEW a \in known, Timeout(a) PROVE Inv'
  BY <1>1, <1>5, TimeoutStep
<1>6. ASSUME NEW a \in known, Write(a) \/ Shutdown(a) \/ Close(a) \/ PollEndpointEvent(a)
      PROVE  Inv'
  BY <1>1, <1>6, CallStep
<1>7. CASE UNCHANGED vars
  BY <1>7 DEF vars, Inv, HInv, Typed, PacketsSound, Sound, ClientSide, ServerSide,
              EstablishedCompleted
<1> QED BY <1>2, <1>3, <1>4, <1>5, <1>6, <1>7 DEF Next

-----------------------------------------------------------------------------
LEMMA InvHolds == Spec => []Inv
BY InvStarts, InvStep, PTL DEF Spec

\* The SHUTDOWN of association a has left, or need not leave any more.
Left(a, r, n, c) ==
    \/ Packet("SHUTDOWN", r.peer_tag) \in n
    \/ c > 0 \/ \E m \in n : m.type = "SHUTDOWN-COMPLETE" /\ m.tag = a

\* It has left or gather_outbound is about to send it.
Pending(r) == Ending(r.state) /\ "shutdown" \in r.will
Announced(a, r, n, c) ==
    r.drained => r.state # "CookieWait" /\ (Pending(r) \/ Left(a, r, n, c))

\* ShutdownLeft, and what it needs.
LInv ==
    /\ closes \in [Aids -> Nat]
    /\ \A a \in Aids : Announced(a, assoc[a], net, closes[a])
    /\ ShutdownLeft

\* A step that lets association q become r and does not call its announcement back.
Keeps(q, r) ==
    /\ r.drained = q.drained /\ (r.drained => r.peer_tag = q.peer_tag)
    /\ r.state = "CookieWait" => q.state = "CookieWait"
    /\ Pending(q) => Pending(r)

LEMMA LeftStays ==
    ASSUME NEW a, NEW r, NEW q, NEW n, NEW n2, NEW c, n \subseteq n2, r.peer_tag = q.peer_tag,
           Left(a, q, n, c)
    PROVE  Left(a, r, n2, c)
  BY Zenon DEF Left

LEMMA LeftLocal ==
    ASSUME Inv, LInv, NEW a \in Aids, NEW r, Becomes(a, r), net \subseteq net',
           known' = known, a \in known, closes' \in [Aids -> Nat],
           \A b \in Aids \ {a} : closes'[b] = closes[b],
           Announced(a, r, net', closes'[a])
    PROVE  LInv'
<1>1. assoc'[a] = r /\ \A b \in Aids \ {a} : assoc'[b] = assoc[b]
  BY Frame DEF Inv, HInv
<1>2. ASSUME NEW b \in Aids PROVE Announced(b, assoc'[b], net', closes'[b])
  <2>1. CASE b = a
    BY <1>1, <2>1, Zenon
  <2>2. CASE b # a
    <3>1. assoc'[b] = assoc[b] /\ closes'[b] = closes[b]
      BY <1>1, <2>2, Zenon
    <3>2. Announced(b, assoc[b], net, closes[b])
      BY Zenon DEF LInv
    <3> QED BY <3>1, <3>2, LeftStays, Zenon DEF Announced
  <2> QED BY <2>1, <2>2, Zenon
<1>3. ASSUME NEW b \in Aids, assoc'[b].drained, b \notin known'
      PROVE  Left(b, assoc'[b], net', closes'[b])
  <2>1. b # a /\ b \notin known
    BY <1>3, Zenon
  <2>2. assoc'[b] = assoc[b] /\ closes'[b] = closes[b]
    BY <1>1, <2>1, Zenon
  <2>3. Left(b, assoc[b], net, closes[b])
    BY <1>3, <2>1, <2>2, Zenon DEF LInv, ShutdownLeft, Left
  <2> QED BY <2>2, <2>3, LeftStays, Zenon
<1>4. ShutdownLeft'
  BY <1>3, Zenon DEF ShutdownLeft, Left
<1> QED BY <1>2, <1>4, Zenon DEF LInv

\* Every step but a call of the application or of the endpoint.
LEMMA LeftKept ==
    ASSUME Inv, LInv, NEW a \in Aids, NEW r, Becomes(a, r), net' = net,
           known' = known, a \in known, closes' = closes, Keeps(assoc[a], r)
    PROVE  LInv'
<1>1. Announced(a, assoc[a], net, closes[a]) /\ closes \in [Aids -> Nat]
  BY Zenon DEF LInv
<1>2. Announced(a, r, net', closes'[a])
  BY <1>1, LeftStays, Zenon DEF Keeps, Announced
<1> QED BY <1>1, <1>2, LeftLocal, Zenon

LEMMA LeftPoll ==
    ASSUME Inv, LInv, NEW a \in known, a \in Aids, PollTransmit(a)
    PROVE  LInv'
<1> DEFINE q == assoc[a]
<1>1. PICK d \in {"none", "pending", "inflight", "acked"}, k \in BOOLEAN, t \in SUBSET Timers :
             Becomes(a, [q EXCEPT !.control = {}, !.data = d, !.ack = k,
                                  !.will = @ \ Signal(a), !.timers = t])
  BY PollEffect DEF Inv, HInv
<1> DEFINE r == [q EXCEPT !.control = {}, !.data = d, !.ack = k,
                          !.will = @ \ Signal(a), !.timers = t]
<1>2. q \in Association
  BY DEF Inv, HInv, Typed
<1>3. r.will = q.will \ Signal(a) /\ r.state = q.state /\ r.drained = q.drained
      /\ r.peer_tag = q.peer_tag
  BY <1>2 DEF Association
<1>4. Becomes(a, r)
  BY <1>1
<1> HIDE DEF r
<1>5. net' = net \cup Outbound(a) /\ known' = known /\ closes' = closes
  BY DEF PollTransmit
<1>6. Announced(a, q, net, closes[a]) /\ closes \in [Aids -> Nat]
  BY Zenon DEF LInv
<1>7. ASSUME Pending(q) PROVE Left(a, r, net', closes[a])
  <2>1. "shutdown" \in Signal(a)
    BY <1>7 DEF Pending, Signal
  <2>2. SignalType("shutdown") = "SHUTDOWN"
    BY DEF SignalType
  <2>3. Packet("SHUTDOWN", q.peer_tag) \in Outbound(a)
    BY <2>1, <2>2 DEF Outbound
  <2> QED BY <1>3, <1>5, <2>3, Zenon DEF Left
<1>8. net \subseteq net'
  BY <1>5, Zenon
<1>9. Announced(a, r, net', closes'[a])
  BY <1>3, <1>5, <1>6, <1>7, <1>8, LeftStays, Zenon DEF Announced
<1> QED BY <1>4, <1>5, <1>6, <1>8, <1>9, LeftLocal, Zenon

LEMMA LeftTimeout ==
    ASSUME Inv, LInv, NEW a \in known, a \in Aids, Timeout(a)
    PROVE  LInv'
<1> DEFINE q == assoc[a]
<1>1. q \in Association /\ Typed
  BY DEF Inv, HInv, Typed
<1>2. known' = known /\ net' = net /\ closes' = closes
  BY DEF Timeout, T1Timeout, T2Timeout
<1>3. ASSUME NEW w \in SUBSET Signals, q.will \subseteq w, Becomes(a, [q EXCEPT !.will = w])
      PROVE  LInv'
  <2>1. Keeps(q, [q EXCEPT !.will = w])
    BY <1>1, <1>3 DEF Association, Keeps, Pending
  <2> QED BY <1>2, <1>3, <2>1, LeftKept, Zenon
<1>4. ASSUME NEW t, Becomes(a, [q EXCEPT !.timers = @ \ {t}, !.events = @ \cup {"Lost"}])
      PROVE  LInv'
  <2>1. Keeps(q, [q EXCEPT !.timers = @ \ {t}, !.events = @ \cup {"Lost"}])
    BY <1>1 DEF Association, Keeps, Pending
  <2> QED BY <1>2, <1>4, <2>1, LeftKept, Zenon
<1>5. ASSUME NEW c, Becomes(a, [q EXCEPT !.control = c]) PROVE LInv'
  <2>1. Keeps(q, [q EXCEPT !.control = c])
    BY <1>1 DEF Association, Keeps, Pending
  <2> QED BY <1>2, <1>5, <2>1, LeftKept, Zenon
<1>6. CASE T2Timeout(a)
  BY <1>1, <1>3, <1>6, T2Effect, Zenon
<1>7. ASSUME NEW t \in {"T1Init", "T1Cookie"}, T1Timeout(a, t) PROVE LInv'
  BY <1>1, <1>4, <1>5, <1>7, T1Effect, Zenon
<1> QED BY <1>6, <1>7, Zenon DEF Timeout

LEMMA LeftCall ==
    ASSUME Inv, LInv, NEW a \in known, a \in Aids,
           Write(a) \/ Shutdown(a) \/ Close(a) \/ PollEndpointEvent(a)
    PROVE  LInv'
<1> DEFINE q == assoc[a]
<1>1. q \in Association /\ Typed
  BY DEF Inv, HInv, Typed
<1>2. Announced(a, q, net, closes[a]) /\ closes \in [Aids -> Nat]
  BY Zenon DEF LInv
<1>3. CASE Write(a)
  <2>1. Becomes(a, [q EXCEPT !.data = "pending"]) /\ UNCHANGED <<known, net, closes>>
    BY <1>1, <1>3, WriteEffect DEF Write
  <2>2. Keeps(q, [q EXCEPT !.data = "pending"])
    BY <1>1 DEF Association, Keeps, Pending
  <2> QED BY <2>1, <2>2, LeftKept, Zenon
<1>4. CASE Shutdown(a)
  <2> DEFINE r == [q EXCEPT !.will = @ \cup {"shutdown"}, !.state = "ShutdownSent",
                            !.drained = TRUE]
  <2>1. Becomes(a, r) /\ UNCHANGED <<known, net, closes>>
    BY <1>1, <1>4, AppShutdownEffect DEF Shutdown
  <2>2. r.state = "ShutdownSent" /\ "shutdown" \in r.will
    BY <1>1 DEF Association
  <2> HIDE DEF r
  <2>3. Announced(a, r, net', closes'[a])
    BY <2>2 DEF Announced, Pending, Ending
  <2> QED BY <1>2, <2>1, <2>3, LeftLocal, Zenon
<1>5. CASE Close(a)
  <2> DEFINE r == [q EXCEPT !.state = "Closed", !.timers = {}]
  <2>1. Becomes(a, r) /\ UNCHANGED <<known, net>>
    BY <1>1, <1>5, CloseEffect DEF Close
  <2>2. closes' \in [Aids -> Nat] /\ closes'[a] > 0 /\ \A b \in Aids \ {a} : closes'[b] = closes[b]
    BY <1>2, <1>5 DEF Close
  <2>3. r.state = "Closed"
    BY <1>1 DEF Association
  <2> HIDE DEF r
  <2>4. Announced(a, r, net', closes'[a])
    BY <2>2, <2>3 DEF Announced, Left
  <2>5. net \subseteq net'
    BY <2>1
  <2> QED BY <2>1, <2>2, <2>4, <2>5, LeftLocal, Zenon
<1>6. CASE PollEndpointEvent(a)
  <2>1. UNCHANGED <<assoc, net, closes>> /\ known' = known \ {a} /\ q.drained /\ Outbound(a) = {}
    BY <1>6 DEF PollEndpointEvent
  <2>2. ~Pending(q)
    <3> SUFFICES ASSUME Pending(q) PROVE FALSE
      OBVIOUS
    <3>1. "shutdown" \in Signal(a)
      BY DEF Pending, Signal
    <3> QED BY <2>1, <3>1 DEF Outbound
  <2>3. Left(a, q, net, closes[a])
    BY <1>2, <2>1, <2>2, Zenon DEF Announced
  <2>4. ShutdownLeft'
    BY <2>1, <2>3, Zenon DEF LInv, ShutdownLeft, Left
  <2> QED BY <2>1, <2>4, Zenon DEF LInv, Announced, Left
<1> QED BY <1>3, <1>4, <1>5, <1>6

LEMMA LeftDeliver ==
    ASSUME Inv, LInv, NEW a \in known, a \in Aids, NEW m \in net, Deliver(a, m)
    PROVE  LInv'
<1> DEFINE q == assoc[a]
<1>1. q \in Association /\ Typed
  BY DEF Inv, HInv, Typed
<1>2. known' = known /\ net' = net /\ closes' = closes
  BY DEF Deliver, HandleInitAck, HandleCookieEcho, HandleCookieAck, HandleData, HandleSack,
         HandleShutdown, HandleShutdownAck, HandleShutdownComplete, Establish
<1>3. Announced(a, q, net, closes[a]) /\ closes \in [Aids -> Nat]
  BY Zenon DEF LInv
<1>4. ASSUME NEW r, Becomes(a, r), Keeps(q, r) PROVE LInv'
  BY <1>2, <1>4, LeftKept, Zenon
<1>5. ASSUME Establish(a), q.state \in {"Closed", "CookieWait", "CookieEchoed"} PROVE LInv'
  <2>1. PICK c \in SUBSET Packets :
             Becomes(a, [q EXCEPT !.stored_init = FALSE, !.stored_cookie_echo = NoTag,
                                  !.timers = @ \ {"T1Init", "T1Cookie"},
                                  !.events = @ \cup {"Connected"},
                                  !.state = "Established", !.completed = TRUE,
                                  !.control = c])
    BY <1>1, <1>5, EstablishEffect
  <2> DEFINE r == [q EXCEPT !.stored_init = FALSE, !.stored_cookie_echo = NoTag,
                            !.timers = @ \ {"T1Init", "T1Cookie"}, !.events = @ \cup {"Connected"},
                            !.state = "Established", !.completed = TRUE, !.control = c]
  <2>2. r.drained = q.drained /\ r.peer_tag = q.peer_tag /\ r.state = "Established"
    BY <1>1 DEF Association
  <2>3. Becomes(a, r)
    BY <2>1
  <2> HIDE DEF r
  <2>4. Keeps(q, r)
    BY <1>5, <2>2 DEF Keeps, Pending, Ending
  <2> QED BY <1>4, <2>3, <2>4, Zenon
<1>6. CASE HandleInitAck(a, m)
  <2> DEFINE r == [q EXCEPT !.peer_tag = m.initiate_tag, !.stored_init = FALSE,
                            !.stored_cookie_echo = m.cookie,
                            !.control = @ \cup {CookieEcho(m.cookie, m.initiate_tag)},
                            !.timers = T1Switch(@), !.state = "CookieEchoed"]
  <2>1. Becomes(a, r) /\ q.state = "CookieWait"
    BY <1>1, <1>6, InitAckEffect DEF HandleInitAck, ExpectsInitAck
  <2>2. r.drained = q.drained /\ r.state = "CookieEchoed" /\ ~q.drained
    BY <1>1, <1>3, <2>1 DEF Association, Announced
  <2> HIDE DEF r
  <2>3. Keeps(q, r)
    BY <2>1, <2>2 DEF Keeps, Pending, Ending
  <2> QED BY <1>4, <2>1, <2>3, Zenon
<1>7. CASE HandleCookieEcho(a, m)
  <2>1. CASE Becomes(a, [q EXCEPT !.control = @ \cup {Packet("COOKIE-ACK", q.peer_tag)}])
    <3>1. Keeps(q, [q EXCEPT !.control = @ \cup {Packet("COOKIE-ACK", q.peer_tag)}])
      BY <1>1 DEF Association, Keeps, Pending
    <3> QED BY <1>4, <2>1, <3>1, Zenon
  <2>2. CASE q.state \in {"Closed", "CookieWait", "CookieEchoed"} /\ Establish(a)
    BY <1>5, <2>2, Zenon
  <2>3. \/ q.state = "Established" /\ ~(q.state \in {"Closed", "CookieWait", "CookieEchoed"})
        \/ q.state \in {"Closed", "CookieWait", "CookieEchoed"} /\ Establish(a)
    BY <1>7 DEF HandleCookieEcho
  <2>4. CASE q.state = "Established" /\ ~(q.state \in {"Closed", "CookieWait", "CookieEchoed"})
    <3>1. assoc' = [assoc EXCEPT ![a].control = @ \cup {Packet("COOKIE-ACK", assoc[a].peer_tag)}]
      BY <1>7, <2>4, Zenon DEF HandleCookieEcho
    <3>2. Packet("COOKIE-ACK", q.peer_tag) \in Packets
      BY <1>1, PacketTypes DEF Association, Types
    <3>3. [q EXCEPT !.control = @ \cup {Packet("COOKIE-ACK", q.peer_tag)}] \in Association
      BY <1>1, <3>2 DEF Association
    <3>4. Becomes(a, [q EXCEPT !.control = @ \cup {Packet("COOKIE-ACK", q.peer_tag)}])
      BY <3>1, <3>3 DEF Becomes, Typed
    <3> QED BY <2>1, <3>4, Zenon
  <2> QED BY <2>2, <2>3, <2>4, Zenon
<1>8. CASE HandleCookieAck(a, m)
  BY <1>5, <1>8 DEF HandleCookieAck
<1>9. CASE HandleData(a, m)
  <2>1. Becomes(a, [q EXCEPT !.ack = TRUE])
    BY <1>1, <1>9, DataEffect
  <2>2. Keeps(q, [q EXCEPT !.ack = TRUE])
    BY <1>1 DEF Association, Keeps, Pending
  <2> QED BY <1>4, <2>1, <2>2, Zenon
<1>10. CASE HandleSack(a, m)
  <2>1. PICK w \in SUBSET Signals, st \in States :
             /\ q.state \in {"Established", "ShutdownPending", "ShutdownReceived"}
             /\ q.state = "Established" => st = "Established"
             /\ q.state = "ShutdownPending" => st = "ShutdownSent"
             /\ q.state = "ShutdownReceived" => st = "ShutdownAckSent"
             /\ q.will \subseteq w
             /\ Becomes(a, [q EXCEPT !.data = "acked", !.will = w, !.state = st])
    BY <1>1, <1>10, SackEffect, Zenon
  <2> DEFINE r == [q EXCEPT !.data = "acked", !.will = w, !.state = st]
  <2>2. r.state = st /\ r.will = w /\ r.drained = q.drained /\ r.peer_tag = q.peer_tag
    BY <1>1 DEF Association
  <2>3. Becomes(a, r)
    BY <2>1
  <2> HIDE DEF r
  <2>4. Keeps(q, r)
    BY <2>1, <2>2 DEF Keeps, Pending, Ending
  <2> QED BY <1>4, <2>3, <2>4, Zenon
<1>11. CASE HandleShutdown(a, m)
  <2>1. CASE /\ q.state = "Established"
             /\ Becomes(a, [q EXCEPT !.state = "ShutdownReceived"])
    <3>1. Keeps(q, [q EXCEPT !.state = "ShutdownReceived"])
      BY <1>1, <2>1 DEF Association, Keeps, Pending, Ending
    <3> QED BY <1>4, <2>1, <3>1, Zenon
  <2>2. CASE Becomes(a, [q EXCEPT !.will = @ \cup {"shutdown_ack"}, !.state = "ShutdownAckSent"])
    <3>1. Keeps(q, [q EXCEPT !.will = @ \cup {"shutdown_ack"}, !.state = "ShutdownAckSent"])
      BY <1>1 DEF Association, Keeps, Pending, Ending
    <3> QED BY <1>4, <2>2, <3>1, Zenon
  <2> QED BY <1>1, <1>11, <2>1, <2>2, ShutdownEffect
<1>12. CASE HandleShutdownAck(a, m)
  <2> DEFINE r == [q EXCEPT !.timers = @ \ {"T2Shutdown"}, !.will = @ \cup {"shutdown_complete"}]
  <2>1. Becomes(a, r)
    BY <1>1, <1>12, ShutdownAckEffect
  <2>2. Keeps(q, r)
    BY <1>1 DEF Association, Keeps, Pending
  <2> HIDE DEF r
  <2> QED BY <1>4, <2>1, <2>2, Zenon
<1>13. CASE HandleShutdownComplete(a, m)
  <2> DEFINE r == [q EXCEPT !.state = "Closed", !.timers = {}]
  <2>1. Becomes(a, r)
    BY <1>1, <1>13, CloseEffect DEF HandleShutdownComplete
  <2>2. r.state = "Closed"
    BY <1>1 DEF Association
  <2> HIDE DEF r
  <2>3. m.type = "SHUTDOWN-COMPLETE" /\ m.tag = a
    BY <1>13 DEF HandleShutdownComplete, Deliver
  <2>4. Announced(a, r, net', closes'[a])
    BY <1>2, <2>2, <2>3 DEF Announced, Left
  <2>5. net \subseteq net' /\ closes' \in [Aids -> Nat] /\ \A b \in Aids \ {a} : closes'[b] = closes[b]
    BY <1>2, <1>3, Zenon
  <2> QED BY <1>2, <2>1, <2>4, <2>5, LeftLocal, Zenon
<1> QED BY <1>6, <1>7, <1>8, <1>9, <1>10, <1>11, <1>12, <1>13 DEF Deliver

LEMMA LeftAccept ==
    ASSUME Inv, LInv, NEW m \in net, HandleFirstPacket(m)
    PROVE  LInv'
<1>1. PICK s \in Servers :
             /\ assoc[s] = NewServer
             /\ Becomes(s, [assoc[s] EXCEPT !.peer_tag = m.initiate_tag, !.my_cookie = TRUE,
                                            !.control = {InitAck(s, m.initiate_tag)}])
  BY FirstPacketEffect DEF Inv, HInv
<1> DEFINE r == [assoc[s] EXCEPT !.peer_tag = m.initiate_tag, !.my_cookie = TRUE,
                                 !.control = {InitAck(s, m.initiate_tag)}]
<1>2. ~r.drained
  BY <1>1 DEF NewServer
<1>3. Becomes(s, r) /\ s \in Aids
  BY <1>1, IdFacts
<1> HIDE DEF r
<1>4. assoc'[s] = r /\ \A b \in Aids \ {s} : assoc'[b] = assoc[b]
  BY <1>3, Frame DEF Inv, HInv
<1>5. known \subseteq known' /\ net' = net /\ closes' = closes
  BY DEF HandleFirstPacket
<1>6. ASSUME NEW b \in Aids, assoc'[b].drained PROVE b # s /\ assoc'[b] = assoc[b]
  BY <1>2, <1>4, <1>6, Zenon
<1>7. ShutdownLeft'
  BY <1>5, <1>6, Zenon DEF LInv, ShutdownLeft
<1>8. \A b \in Aids : Announced(b, assoc'[b], net', closes'[b])
  BY <1>5, <1>6, Zenon DEF LInv, Announced
<1> QED BY <1>5, <1>7, <1>8, Zenon DEF LInv

LEMMA LeftStarts == Init => LInv
<1> SUFFICES ASSUME Init PROVE LInv
  OBVIOUS
<1>1. assoc[Client] = NewClient /\ \A s \in Servers : assoc[s] = NewServer
  BY IdFacts DEF Init
<1>2. \A a \in Aids : ~assoc[a].drained
  <2>1. NewServer.drained = FALSE /\ NewClient.drained = FALSE
    BY DEF NewClient, NewServer
  <2> QED BY <1>1, <2>1, Zenon DEF Aids
<1>3. closes \in [Aids -> Nat]
  BY DEF Init
<1> QED BY <1>2, <1>3, Zenon DEF LInv, Announced, ShutdownLeft

LEMMA LeftStep == Inv /\ LInv /\ [Next]_vars => LInv'
<1> SUFFICES ASSUME Inv, LInv, [Next]_vars PROVE LInv'
  OBVIOUS
<1>1. known \subseteq Aids
  BY DEF Inv, HInv, Typed
<1>2. CASE \E m \in net : HandleFirstPacket(m)
  BY <1>2, LeftAccept, Zenon
<1>3. ASSUME NEW a \in known, \E m \in net : Deliver(a, m) PROVE LInv'
  BY <1>1, <1>3, LeftDeliver, Zenon
<1>4. ASSUME NEW a \in known, PollTransmit(a) PROVE LInv'
  BY <1>1, <1>4, LeftPoll, Zenon
<1>5. ASSUME NEW a \in known, Timeout(a) PROVE LInv'
  BY <1>1, <1>5, LeftTimeout, Zenon
<1>6. ASSUME NEW a \in known, Write(a) \/ Shutdown(a) \/ Close(a) \/ PollEndpointEvent(a)
      PROVE  LInv'
  BY <1>1, <1>6, LeftCall, Zenon
<1>7. CASE UNCHANGED vars
  BY <1>7, Zenon DEF vars, LInv, Announced, Left, ShutdownLeft
<1> QED BY <1>2, <1>3, <1>4, <1>5, <1>6, <1>7 DEF Next

LEMMA LeftHolds == Spec => []LInv
BY InvHolds, LeftStarts, LeftStep, PTL DEF Spec

\* Agreement (handle_init, handle_init_ack, handle_cookie_echo, handle_cookie_ack):
\* for any number of accepting associations and any loss, repetition and reordering
\* of the packets, the two ends of a completed handshake are each other's peers and
\* no other accepting association completes it.
THEOREM AgreementTheorem == Spec => []Agreement
<1>1. Inv => Agreement
  BY IdFacts DEF Inv, HInv, ClientSide, ServerSide, Agreement
<1> QED BY <1>1, InvHolds, PTL

\* While the connecting association waits for INIT-ACK or COOKIE-ACK, exactly the T1
\* timer of its state runs and what it would send again is stored, whatever the limits
\* of the timers (handle_init_ack, handle_cookie_ack, on_retransmission_timeout).
THEOREM HandshakeArmedTheorem == Spec => []HandshakeArmed
<1>1. Inv => HandshakeArmed
  BY DEF Inv, Armed, HandshakeArmed
<1> QED BY <1>1, InvHolds, PTL

\* The side that answers a shutdown does so after its data is acknowledged, an
\* association that is still served repeats itself or has been answered, and the one
\* that called for the shutdown is let go after its SHUTDOWN left (handle_shutdown,
\* postprocess_sack, handle_shutdown_ack, gather_outbound_shutdown_packets, and
\* poll_endpoint_event as rtc/src/handler/sctp.rs calls it).
THEOREM ShutdownOrderlyTheorem == Spec => []ShutdownOrderly
<1>1. Inv /\ LInv => ShutdownOrderly
  <2> SUFFICES ASSUME Inv, LInv PROVE ShutdownOrderly
    OBVIOUS
  <2>1. known \subseteq Aids /\ \A a \in Aids : Orderly(assoc[a], net)
    BY DEF Inv, HInv, Typed
  <2>2. AckAfterData /\ ShutdownArmed
    BY <2>1 DEF Orderly, AckAfterData, ShutdownArmed
  <2> QED BY <2>2 DEF LInv, ShutdownOrderly
<1> QED BY <1>1, InvHolds, LeftHolds, PTL
=============================================================================
