--------------------------- MODULE DtlsHandshake ---------------------------
(***************************************************************************)
(* The DTLS 1.2 handshake and record layer of rtc-dtls: a client and a     *)
(* server endpoint with one connection each (endpoint.rs, conn/mod.rs,     *)
(* handshaker.rs, flight/, handshake_cache.rs, fragment_buffer/), driven   *)
(* as rtc/src/handler/dtls.rs drives them, over a network that may lose,   *)
(* repeat and reorder datagrams.                                           *)
(*                                                                         *)
(* A handshake message is its type, its message sequence number and a body *)
(* of the fields the handshake decides on: the cookie, whether there is a  *)
(* certificate, the transcript a signature or a Finished covers.  Hashes,  *)
(* signatures and keys are the transcripts they are computed from, so two  *)
(* of them are equal exactly when the transcripts are.  Sizes are counted  *)
(* in fragments.  The extended master secret is negotiated, as it is       *)
(* between two endpoints with the default configuration.  initial_epoch    *)
(* is 0, the only value config.rs gives it.                                *)
(***************************************************************************)
EXTENDS Integers, Sequences, FiniteSets, SequencesExt

CONSTANTS
  Settings,       \* the configurations and networks to consider, see Init
  MaxRetransmit   \* maximum_retransmit_number (7 in the code)

VARIABLES
  setting,    \* the one of Settings this behaviour is in
  conn,       \* the connection of each side
  net,        \* the datagrams on their way
  faults,     \* how many losses and copies the network has left
  written,    \* how many messages the application of each side wrote
  delivered   \* the messages each side's application was given

vars == <<setting, conn, net, faults, written, delivered>>

Sides == {"client", "server"}
Peer(e) == IF e = "client" THEN "server" ELSE "client"

ClientHello        == 1
ServerHello        == 2
HelloVerifyRequest == 3
Certificate        == 11
ServerKeyExchange  == 12
CertificateRequest == 13
ServerHelloDone    == 14
CertificateVerify  == 15
ClientKeyExchange  == 16
Finished           == 20

-----------------------------------------------------------------------------
(* The handshake cache. *)

\* A message is kept once per sender and message sequence number.
CachePush(cache, item) ==
  IF \E i \in cache : i.mseq = item.mseq /\ i.client = item.client
    THEN cache ELSE cache \cup {item}

Rule(typ, epoch, client, optional) ==
  [typ |-> typ, epoch |-> epoch, client |-> client, optional |-> optional]

Matching(cache, r) ==
  {i \in cache : i.typ = r.typ /\ i.client = r.client /\ i.epoch = r.epoch}

Has(cache, r) == Matching(cache, r) # {}

Latest(cache, r) ==
  CHOOSE i \in Matching(cache, r) : \A j \in Matching(cache, r) : j.mseq <= i.mseq

\* The bytes of a message, header included.
Data(i) == <<i.typ, i.mseq>> \o i.body

PullAndMerge(cache, rules) ==
  FlattenSeq([n \in DOMAIN rules |->
                IF Has(cache, rules[n]) THEN Data(Latest(cache, rules[n])) ELSE <<>>])

\* The rules full_pull_map finds a message for.
Present(cache, rules) == SelectSeq(rules, LAMBDA r : Has(cache, r))

\* full_pull_map succeeds: nothing mandatory is missing and the messages
\* follow each other from start.
Pulls(cache, start, rules) ==
  /\ \A n \in DOMAIN rules : rules[n].optional \/ Has(cache, rules[n])
  /\ \A n \in DOMAIN Present(cache, rules) :
       Latest(cache, Present(cache, rules)[n]).mseq = start + n - 1

\* The sequence number it returns then.
After(cache, start, rules) == start + Len(Present(cache, rules))

\* The messages a handshake authenticates, in their order.
TranscriptRules ==
  << Rule(ClientHello, 0, TRUE, FALSE),         Rule(ServerHello, 0, FALSE, FALSE),
     Rule(Certificate, 0, FALSE, FALSE),        Rule(ServerKeyExchange, 0, FALSE, FALSE),
     Rule(CertificateRequest, 0, FALSE, FALSE), Rule(ServerHelloDone, 0, FALSE, FALSE),
     Rule(Certificate, 0, TRUE, FALSE),         Rule(ClientKeyExchange, 0, TRUE, FALSE),
     Rule(CertificateVerify, 0, TRUE, FALSE),   Rule(Finished, 1, TRUE, FALSE) >>

SessionHash(cache) == PullAndMerge(cache, SubSeq(TranscriptRules, 1, 8))
FullTranscript(cache) == PullAndMerge(cache, TranscriptRules)

-----------------------------------------------------------------------------
(* A connection. *)

NewConn(client) ==
  [ client |-> client, fsm |-> "Preparing", flight |-> IF client THEN 1 ELSE 0,
    timer |-> FALSE, count |-> 0, flights |-> <<>>,
    out |-> <<>>,          \* outgoing_packets
    pending |-> <<>>,      \* outgoing_queued_packets
    early |-> <<>>,        \* incoming_encrypted_packets
    app |-> <<>>,          \* incoming_decrypted_packets
    sendSeq |-> 0, recvSeq |-> 0, localEpoch |-> 0, remoteEpoch |-> 0,
    recNo |-> <<0, 0>>,    \* local_sequence_number by epoch
    replay |-> {},         \* the records replay_detector has accepted
    frags |-> {}, nextMsg |-> 0,   \* fragment_buffer
    cache |-> {}, cookie |-> <<>>, requested |-> FALSE, peerCerts |-> FALSE,
    master |-> <<>>,       \* empty until the cipher suite is initialized
    verify |-> <<>>, completed |-> FALSE ]

Absent(client, fsm) == [NewConn(client) EXCEPT !.fsm = fsm]

\* A client connection and a server connection before anything is sent.  A
\* setting says how many records fit a datagram, how many fragments a
\* certificate takes, whether there is a pre-shared key, whether the server
\* requires a certificate of the client and the client has one, how often the
\* network may lose and repeat a datagram, whether the retransmit interval is
\* longer than anything takes, and which sides write and close.
Init ==
  /\ setting \in Settings
  /\ conn = [e \in Sides |-> Absent(e = "client", "None")]
  /\ net = {}
  /\ faults = [losses |-> setting.losses, copies |-> setting.copies]
  /\ written = [e \in Sides |-> 0]
  /\ delivered = [e \in Sides |-> <<>>]

Packet(content, typ, epoch, body, encrypt) ==
  [ content |-> content, typ |-> typ, epoch |-> epoch, body |-> body,
    encrypt |-> encrypt, mseq |-> 0 ]

Message(typ, body) == Packet("Handshake", typ, 0, body, FALSE)
LastMessage(body) == Packet("Handshake", Finished, 1, body, TRUE)
ChangeCipherSpec == Packet("ChangeCipherSpec", 0, 0, <<>>, FALSE)

\* notify: an alert in the local epoch, encrypted once the handshake is over.
Notify(c) ==
  [c EXCEPT !.out = Append(@, Packet("Alert", 0, c.localEpoch, <<>>, c.completed))]

-----------------------------------------------------------------------------
(* The flights: what a side sends. *)

\* The packets with the message sequence numbers prepare gives them.
Numbered(pkts, from) ==
  [n \in DOMAIN pkts |->
     [pkts[n] EXCEPT !.mseq =
        IF pkts[n].content = "Handshake"
          THEN from + Cardinality({m \in 1 .. n - 1 : pkts[m].content = "Handshake"})
          ELSE 0]]

Bytes(pkts) == FlattenSeq([n \in DOMAIN pkts |-> Data(pkts[n])])

Generate4 ==
  <<Message(ServerHello, <<>>)>>
    \o (IF setting.psk THEN <<Message(ServerKeyExchange, <<>>)>>
        ELSE <<Message(Certificate, <<1>>), Message(ServerKeyExchange, <<>>)>>
               \o (IF setting.auth THEN <<Message(CertificateRequest, <<>>)>> ELSE <<>>))
    \o <<Message(ServerHelloDone, <<>>)>>

\* The messages of flight 5 the session hash covers: not sent yet, so not in
\* the cache, and numbered ahead.
KeyMessages(c) ==
  Numbered((IF c.requested
              THEN <<Message(Certificate, IF setting.cert THEN <<1>> ELSE <<>>)>> ELSE <<>>)
             \o <<Message(ClientKeyExchange, <<>>)>>, c.sendSeq)

ClientMasterFault(c) == IF c.master # <<>> THEN c.master ELSE SessionHash(c.cache)

\* initalize_cipher_suite: the key depends on what is about to be sent.
ClientMaster(c) ==
  IF c.master # <<>> THEN c.master ELSE SessionHash(c.cache) \o Bytes(KeyMessages(c))

\* The CertificateVerify signs the transcript so far.
Proof(c) ==
  IF c.requested /\ setting.cert
    THEN LET signed == SessionHash(c.cache) \o Bytes(KeyMessages(c))
         IN  Numbered(<<Message(CertificateVerify, signed)>>, c.sendSeq + Len(KeyMessages(c)))
    ELSE <<>>

VerifyData(label, master, transcript) == <<label>> \o master \o transcript

\* Flight 5: keys first, then the messages, and the Finished over all of them.
Generate5(c) ==
  LET keyed    == [c EXCEPT !.master = ClientMaster(c)]
      messages == KeyMessages(c) \o Proof(c)
      verify   == IF c.verify # <<>> THEN c.verify
                  ELSE VerifyData(0, keyed.master, FullTranscript(c.cache) \o Bytes(messages))
  IN  [ c    |-> [keyed EXCEPT !.verify = verify],
        pkts |-> messages \o <<ChangeCipherSpec, LastMessage(verify)>> ]

Generate6(c) ==
  LET verify == IF c.verify # <<>> THEN c.verify
                ELSE VerifyData(1, c.master, FullTranscript(c.cache))
  IN  [ c    |-> [c EXCEPT !.verify = verify],
        pkts |-> <<ChangeCipherSpec, LastMessage(verify)>> ]

Generate(c) ==
  CASE c.flight = 0 -> [ c |-> [c EXCEPT !.localEpoch = 0, !.remoteEpoch = 0, !.cookie = <<1>>],
                         pkts |-> <<>> ]
    [] c.flight = 1 -> [ c |-> [c EXCEPT !.localEpoch = 0, !.remoteEpoch = 0, !.cookie = <<>>],
                         pkts |-> <<Message(ClientHello, <<>>)>> ]
    [] c.flight = 2 -> [ c |-> [c EXCEPT !.sendSeq = 0],
                         pkts |-> <<Message(HelloVerifyRequest, c.cookie)>> ]
    [] c.flight = 3 -> [ c |-> c, pkts |-> <<Message(ClientHello, c.cookie)>> ]
    [] c.flight = 4 -> [ c |-> c, pkts |-> Generate4 ]
    [] c.flight = 5 -> Generate5(c)
    [] c.flight = 6 -> Generate6(c)

HasRetransmitFault(flight) == flight \notin {2, 5}

HasRetransmit(flight) == flight # 2

\* The generated flight g gets its numbers; a Finished in it opens epoch 1.
Installed(g) ==
  [g.c EXCEPT !.flights = Numbered(g.pkts, g.c.sendSeq),
              !.sendSeq = @ + Cardinality({n \in DOMAIN g.pkts : g.pkts[n].content = "Handshake"}),
              !.localEpoch = IF \E n \in DOMAIN g.pkts : g.pkts[n].epoch > 0 THEN 1 ELSE @]

Prepare(c) == Installed(Generate([c EXCEPT !.count = 0]))

\* send: flight 6 is the last to be sent and ends the handshake, any other is
\* guarded by the retransmit timer.
SendFlight(c) ==
  LET sent == [c EXCEPT !.out = @ \o c.flights]
  IN  IF c.flight = 6 THEN [sent EXCEPT !.fsm = "Finished", !.completed = TRUE]
                      ELSE [sent EXCEPT !.fsm = "Waiting", !.timer = TRUE]

-----------------------------------------------------------------------------
(* The flights: what a side makes of what it has received.  A result has    *)
(* the next flight, or -1 to keep waiting, and may carry an alert and an    *)
(* error.                                                                   *)

KeepReading(c) == [c |-> c, next |-> -1, alert |-> FALSE, err |-> FALSE]
Proceed(c, flight) == [KeepReading(c) EXCEPT !.next = flight]
Fail(c) == [KeepReading(c) EXCEPT !.alert = TRUE, !.err = TRUE]

Hello == <<Rule(ClientHello, 0, TRUE, FALSE)>>

Parse0(c) ==
  IF Pulls(c.cache, 0, Hello)
    THEN Proceed([c EXCEPT !.recvSeq = After(c.cache, 0, Hello)], 2) ELSE KeepReading(c)

\* A ClientHello that does not follow the last one is the first one again.
Parse2(c) ==
  LET read == [c EXCEPT !.recvSeq = After(c.cache, c.recvSeq, Hello)]
      cookie == Latest(c.cache, Hello[1]).body
  IN  CASE ~Pulls(c.cache, c.recvSeq, Hello) -> Parse0(c)
        [] Pulls(c.cache, c.recvSeq, Hello) /\ cookie = <<>> -> KeepReading(read)
        [] Pulls(c.cache, c.recvSeq, Hello) /\ cookie # <<>> /\ cookie # c.cookie -> Fail(read)
        [] OTHER -> Proceed(read, 4)

VerifyRequest == <<Rule(HelloVerifyRequest, 0, FALSE, TRUE)>>

\* A (new) cookie: answer it with flight 3.
TakeCookie(c) ==
  Proceed([c EXCEPT !.cookie = Latest(c.cache, VerifyRequest[1]).body,
                    !.recvSeq = After(c.cache, c.recvSeq, VerifyRequest)], 3)

ServerFlight ==
  IF setting.psk
    THEN << Rule(ServerHello, 0, FALSE, FALSE), Rule(ServerKeyExchange, 0, FALSE, TRUE),
            Rule(ServerHelloDone, 0, FALSE, FALSE) >>
    ELSE << Rule(ServerHello, 0, FALSE, FALSE), Rule(Certificate, 0, FALSE, TRUE),
            Rule(ServerKeyExchange, 0, FALSE, FALSE), Rule(CertificateRequest, 0, FALSE, TRUE),
            Rule(ServerHelloDone, 0, FALSE, FALSE) >>

Parse3(c) ==
  CASE Pulls(c.cache, c.recvSeq, VerifyRequest) /\ Has(c.cache, VerifyRequest[1]) -> TakeCookie(c)
    [] Pulls(c.cache, c.recvSeq, ServerFlight) ->
         Proceed([c EXCEPT !.recvSeq = After(c.cache, c.recvSeq, ServerFlight),
                           !.peerCerts = @ \/ Has(c.cache, Rule(Certificate, 0, FALSE, TRUE)),
                           !.requested = @ \/ Has(c.cache, Rule(CertificateRequest, 0, FALSE, TRUE))], 5)
    [] OTHER -> KeepReading(c)

Parse1(c) ==
  LET first == VerifyRequest \o <<Rule(ServerHello, 0, FALSE, TRUE)>>
  IN  CASE ~Pulls(c.cache, c.recvSeq, first) -> KeepReading(c)
        [] Pulls(c.cache, c.recvSeq, first) /\ Has(c.cache, first[2]) -> Parse3(c)
        [] Pulls(c.cache, c.recvSeq, first) /\ ~Has(c.cache, first[2]) /\ Has(c.cache, first[1]) ->
             TakeCookie(c)
        [] OTHER -> [KeepReading(c) EXCEPT !.alert = TRUE]

ClientFlight ==
  << Rule(Certificate, 0, TRUE, TRUE), Rule(ClientKeyExchange, 0, TRUE, FALSE),
     Rule(CertificateVerify, 0, TRUE, TRUE) >>

\* The signature of the client's CertificateVerify, checked by the server.
ProofHolds(c) ==
  c.peerCerts /\ Latest(c.cache, ClientFlight[3]).body = SessionHash(c.cache)

ServerMaster(c) == IF c.master # <<>> THEN c.master ELSE SessionHash(c.cache)

\* The second half of flight 4, once the client's key is known.
ParseFinished(c, start) ==
  LET rules == <<Rule(Finished, 1, TRUE, FALSE)>>
      read  == [c EXCEPT !.recvSeq = After(c.cache, start, rules)]
  IN  CASE ~Pulls(c.cache, start, rules) -> KeepReading(c)
        [] Pulls(c.cache, start, rules) /\ setting.auth /\ ~c.peerCerts -> Fail(read)
        [] OTHER -> Proceed(read, 6)

Parse4Fault(c) == IF Pulls(c.cache, c.recvSeq, ClientFlight) THEN KeepReading(c) ELSE Proceed(c, 2)

Parse4(c) ==
  LET cert  == ClientFlight[1]
      known == [c EXCEPT !.peerCerts =
                  IF Has(c.cache, cert) THEN Latest(c.cache, cert).body # <<>> ELSE @]
      proof == Has(c.cache, ClientFlight[3])
  IN  CASE ~Pulls(c.cache, c.recvSeq, ClientFlight) -> KeepReading(c)
        [] Pulls(c.cache, c.recvSeq, ClientFlight) /\ proof /\ ~ProofHolds(known) -> Fail(known)
        [] Pulls(c.cache, c.recvSeq, ClientFlight) /\ ~proof /\ known.peerCerts -> KeepReading(known)
        [] OTHER -> ParseFinished([known EXCEPT !.master = ServerMaster(known)],
                                  After(c.cache, c.recvSeq, ClientFlight))

Parse5(c) ==
  LET rules == <<Rule(Finished, 1, FALSE, FALSE)>>
      expected == VerifyData(1, c.master, FullTranscript(c.cache))
  IN  CASE ~Pulls(c.cache, c.recvSeq, rules) -> KeepReading(c)
        [] Pulls(c.cache, c.recvSeq, rules) /\ Latest(c.cache, rules[1]).body # expected -> Fail(c)
        [] OTHER -> Proceed(c, 5)

Parse(c) ==
  CASE c.flight = 0 -> Parse0(c) [] c.flight = 1 -> Parse1(c) [] c.flight = 2 -> Parse2(c)
    [] c.flight = 3 -> Parse3(c) [] c.flight = 4 -> Parse4(c) [] c.flight = 5 -> Parse5(c)

\* What follows from result r of parsing in a flight.
Conclude(flight, r) ==
  LET said == IF r.alert THEN Notify(r.c) ELSE r.c
  IN  CASE r.err -> [c |-> said, err |-> TRUE]
        [] ~r.err /\ r.next = -1 -> [c |-> said, err |-> FALSE]
        [] ~r.err /\ r.next = 5 /\ flight = 5 ->
             [c |-> [said EXCEPT !.fsm = "Finished", !.completed = TRUE], err |-> FALSE]
        [] OTHER -> [c |-> SendFlight(Prepare([said EXCEPT !.flight = r.next])), err |-> FALSE]

\* wait, with handshake records received: the timer stops whatever they were,
\* and only sending another flight starts it again.
Wait(c) == Conclude(c.flight, Parse([c EXCEPT !.timer = FALSE]))

Continue(c, rx) ==
  CASE c.fsm = "Errored" -> [c |-> c, err |-> TRUE]
    [] c.fsm # "Errored" /\ rx -> Wait(c)
    [] OTHER -> [c |-> c, err |-> FALSE]

\* handshake: runs until it has to wait for a timeout or a packet.
Handshake(c, rx) ==
  Continue(IF c.fsm = "Preparing" THEN SendFlight(Prepare(c)) ELSE c, rx)

-----------------------------------------------------------------------------
(* The record layer. *)

Fragments(typ) == IF typ = Certificate THEN setting.certificate ELSE 1

\* process_packet and process_handshake_packet: one record per fragment.
Records(c, p) ==
  LET n == Fragments(p.typ)
  IN  [k \in 1 .. n |->
         [ content |-> p.content, typ |-> p.typ, epoch |-> p.epoch, body |-> p.body,
           mseq |-> p.mseq, off |-> k - 1, len |-> n,
           key |-> IF p.encrypt THEN c.master ELSE <<>>, no |-> c.recNo[p.epoch + 1] + k - 1 ]]

OwnItem(c, p) ==
  [typ |-> p.typ, client |-> c.client, epoch |-> p.epoch, mseq |-> p.mseq, body |-> p.body]

Emit(st, p) ==
  [ c |-> [st.c EXCEPT !.recNo[p.epoch + 1] = @ + Fragments(p.typ),
                       !.cache = IF p.content = "Handshake" THEN CachePush(@, OwnItem(st.c, p)) ELSE @],
    recs |-> st.recs \o Records(st.c, p) ]

\* What the application wrote before the handshake was over leaves after it.
Released(c) ==
  IF c.completed
    THEN c.out \o [n \in DOMAIN c.pending |-> [c.pending[n] EXCEPT !.epoch = c.localEpoch]]
    ELSE c.out

HandleOutgoing(c) ==
  LET st == FoldLeft(Emit, [c |-> c, recs |-> <<>>], Released(c))
  IN  [ c    |-> [st.c EXCEPT !.out = <<>>, !.pending = IF c.completed THEN <<>> ELSE @],
        recs |-> st.recs ]

\* compact_raw_packets
Datagrams(e, recs) ==
  LET size == setting.records
      count == (Len(recs) + size - 1) \div size
  IN  { [ to |-> Peer(e),
          recs |-> SubSeq(recs, (k - 1) * size + 1,
                          IF k * size < Len(recs) THEN k * size ELSE Len(recs)) ] :
        k \in 1 .. count }

Whole(frags, m) ==
  \E f \in frags : f.mseq = m /\ \A k \in 0 .. f.len - 1 : \E g \in frags : g.mseq = m /\ g.off = k

\* fragment_buffer.push and pop: complete messages leave in order.  Fragments
\* of messages that have left stay in the buffer and are never read again.
Defragment(c, r) ==
  LET frags == IF r.mseq < c.nextMsg THEN c.frags
               ELSE c.frags \cup {[mseq |-> r.mseq, off |-> r.off, len |-> r.len, typ |-> r.typ,
                                   body |-> r.body, epoch |-> r.epoch]}
      out == {f \in frags : f.off = 0 /\ \A m \in c.nextMsg .. f.mseq : Whole(frags, m)}
  IN  [c EXCEPT !.frags = {f \in frags : \A o \in out : f.mseq # o.mseq},
                !.nextMsg = @ + Cardinality(out),
                !.cache = @ \cup {[typ |-> f.typ, client |-> ~c.client, epoch |-> f.epoch,
                                   mseq |-> f.mseq, body |-> f.body] : f \in out}]

Accept(c, r) == [c EXCEPT !.replay = @ \cup {<<r.epoch, r.no>>}]

\* A record for the next epoch, or one that needs keys there are not yet.
TooEarly(c, r) ==
  \/ r.epoch = c.remoteEpoch + 1
  \/ /\ r.epoch <= c.remoteEpoch
     /\ <<r.epoch, r.no>> \notin c.replay
     /\ r.epoch # 0 \/ r.content = "ChangeCipherSpec"
     /\ c.master = <<>>

Discarded(c, r) ==
  \/ r.epoch > c.remoteEpoch + 1
  \/ <<r.epoch, r.no>> \in c.replay
  \/ r.epoch # 0 /\ r.key # c.master /\ ~setting.psk

\* Alerts of this model are fatal or close_notify and end the connection, and
\* so do a record that fails to decrypt under a pre-shared key and application
\* data in epoch 0.
EndsConnection(r, c) ==
  \/ r.content = "Alert"
  \/ r.epoch # 0 /\ r.key # c.master
  \/ r.epoch = 0 /\ r.content = "Data"

EnqueuedFault(c, r) == c

Enqueued(c, r) == [c EXCEPT !.early = Append(@, r)]

\* A ChangeCipherSpec that does not open the next epoch is not even accepted.
OpenEpoch(c, r) ==
  IF r.epoch = c.remoteEpoch THEN [Accept(c, r) EXCEPT !.remoteEpoch = @ + 1] ELSE c

DeliverData(c, r) == [Accept(c, r) EXCEPT !.app = Append(@, r.body)]

\* handle_incoming_packet on a connection that has not failed in this call.
HandleIncoming(st, r, enqueue) ==
  LET c == st.c
  IN  CASE st.err -> st
        [] ~st.err /\ TooEarly(c, r) -> [st EXCEPT !.c = IF enqueue THEN Enqueued(c, r) ELSE c]
        [] ~st.err /\ ~TooEarly(c, r) /\ Discarded(c, r) -> st
        [] ~st.err /\ ~TooEarly(c, r) /\ ~Discarded(c, r) /\ EndsConnection(r, c) -> [st EXCEPT !.err = TRUE]
        [] OTHER ->
             CASE r.content = "Handshake" -> [st EXCEPT !.c = Defragment(Accept(c, r), r), !.rx = TRUE]
               [] r.content = "ChangeCipherSpec" -> [st EXCEPT !.c = OpenEpoch(c, r)]
               [] r.content = "Data" -> [st EXCEPT !.c = DeliverData(c, r)]

\* handle_incoming_queued_packets
HandleQueued(c) ==
  IF c.completed
    THEN FoldLeft(LAMBDA st, r : HandleIncoming(st, r, FALSE),
                  [c |-> [c EXCEPT !.early = <<>>], rx |-> FALSE, err |-> FALSE], c.early)
    ELSE [c |-> c, rx |-> FALSE, err |-> FALSE]

-----------------------------------------------------------------------------
(* The endpoints. *)

\* The records of h leave, and a completed connection's application data goes
\* to the application.
Drain(e, h, rest) ==
  /\ conn' = [conn EXCEPT ![e] = IF h.c.completed THEN [h.c EXCEPT !.app = <<>>] ELSE h.c]
  /\ net' = rest \cup Datagrams(e, h.recs)
  /\ delivered' = [delivered EXCEPT ![e] = IF h.c.completed THEN @ \o h.c.app ELSE @]

\* Everything an endpoint has to send leaves.
Flush(e, c, rest) == Drain(e, HandleOutgoing(c), rest)

\* An error: nothing is sent in this call.
Keep(e, c, rest) ==
  conn' = [conn EXCEPT ![e] = c] /\ net' = rest /\ UNCHANGED delivered

\* Endpoint::connect
Connect ==
  /\ conn["client"].fsm = "None"
  /\ Flush("client", Handshake(NewConn(TRUE), FALSE).c, net)
  /\ UNCHANGED <<setting, faults, written>>

Alive(e) == conn[e].fsm \notin {"None", "Gone"}

\* A fatal alert drops the endpoint and what it was about to send.
Drop(e, rest) == Keep(e, Absent(e = "client", "Gone"), rest)

\* Endpoint::read as handler/dtls.rs calls it: the records of the datagram,
\* then the handshake unless it is over, then what was queued.
AfterQueue(e, queued, rest) ==
  IF queued.err THEN Drop(e, rest) ELSE Flush(e, queued.c, rest)

AfterHandshake(e, shook, rest) ==
  IF shook.err THEN Keep(e, shook.c, rest) ELSE AfterQueue(e, HandleQueued(shook.c), rest)

AfterRecords(e, read, rest) ==
  CASE read.err -> Drop(e, rest)
    [] ~read.err /\ read.c.completed -> Flush(e, read.c, rest)
    [] OTHER -> AfterHandshake(e, Handshake(read.c, read.rx), rest)

ReadDatagram(e, d, rest) ==
  LET c == IF conn[e].fsm = "None" THEN NewConn(FALSE) ELSE conn[e]
  IN  AfterRecords(e, FoldLeft(LAMBDA st, r : HandleIncoming(st, r, TRUE),
                               [c |-> c, rx |-> FALSE, err |-> FALSE], d.recs), rest)

\* A datagram arrives, and possibly a copy of it stays on its way.  A side
\* without an endpoint drops it.
Read(e) ==
  /\ \E d \in net, copy \in BOOLEAN :
       /\ d.to = e
       /\ copy => faults.copies > 0
       /\ faults' = [faults EXCEPT !.copies = IF copy THEN @ - 1 ELSE @]
       /\ LET rest == IF copy THEN net ELSE net \ {d}
          IN  IF conn[e].fsm = "Gone" \/ (conn[e].fsm = "None" /\ e = "client")
                THEN Keep(e, conn[e], rest) ELSE ReadDatagram(e, d, rest)
  /\ UNCHANGED <<setting, written>>

Lose ==
  /\ faults.losses > 0
  /\ \E d \in net : net' = net \ {d}
  /\ faults' = [faults EXCEPT !.losses = @ - 1]
  /\ UNCHANGED <<setting, conn, written, delivered>>

\* handshake_timeout of a waiting connection: the flight again, or the end of
\* the attempts; a flight that is not retransmitted just waits on.
Expired(c) ==
  CASE c.fsm # "Waiting" -> [c EXCEPT !.timer = FALSE]
    [] c.fsm = "Waiting" /\ ~HasRetransmit(c.flight) -> c
    [] c.fsm = "Waiting" /\ HasRetransmit(c.flight) /\ c.count >= MaxRetransmit ->
         [c EXCEPT !.count = @ + 1, !.timer = FALSE, !.fsm = "Errored"]
    [] OTHER -> SendFlight([c EXCEPT !.count = @ + 1])

\* Endpoint::handle_timeout.  A punctual setting's interval is longer than
\* anything takes on the network.
Timeout(e) ==
  /\ Alive(e) /\ conn[e].timer
  /\ setting.punctual => net = {}
  /\ Flush(e, Expired(conn[e]), net)
  /\ UNCHANGED <<setting, faults, written>>

\* Endpoint::write
Write(e) ==
  /\ Alive(e) /\ e \in setting.writers /\ written[e] = 0
  /\ LET c == conn[e]
         p == Packet("Data", 0, c.localEpoch, <<written[e] + 1>>, TRUE)
     IN  Flush(e, IF c.completed THEN [c EXCEPT !.out = Append(@, p)]
                  ELSE [c EXCEPT !.pending = Append(@, p)], net)
  /\ written' = [written EXCEPT ![e] = @ + 1]
  /\ UNCHANGED <<setting, faults>>

\* Endpoint::close leaves close_notify with the endpoint: a driver that polls it
\* once more sends it, and RTCDtlsTransport::stop drops the endpoint with it.
Close(e) ==
  /\ Alive(e) /\ e \in setting.closers
  /\ \/ net' = net \cup Datagrams(e, HandleOutgoing(Notify(conn[e])).recs)
     \/ UNCHANGED net
  /\ conn' = [conn EXCEPT ![e] = Absent(e = "client", "Gone")]
  /\ UNCHANGED <<setting, faults, written, delivered>>

Next ==
  \/ Connect
  \/ Lose
  \/ \E e \in Sides : Read(e) \/ Timeout(e) \/ Write(e) \/ Close(e)

Spec == Init /\ [][Next]_vars

\* Read(e) and Timeout(e) can change something: a read takes its datagram off
\* the network, a timeout in flight 2 only sets the timer again.
InFlight(e) == \E d \in net : d.to = e

Waiting(e) ==
  /\ Alive(e) /\ conn[e].timer /\ HasRetransmit(conn[e].flight)
  /\ setting.punctual => net = {}

\* The driver connects, reads what arrives and serves the timers.  Weak fairness
\* of the two large handlers is written out with the conditions above.
FairSpec ==
  /\ Spec
  /\ WF_vars(Connect)
  /\ \A e \in Sides :
       /\ <>[]InFlight(e) => []<><<Read(e)>>_vars
       /\ <>[]Waiting(e) => []<><<Timeout(e)>>_vars

-----------------------------------------------------------------------------
(* Properties. *)

\* Two sides that have keys have the same ones, whatever was lost, repeated or
\* overtaken on the way: the client computes its master secret from messages it
\* has not sent yet, the server from the ones it has received
\* (flight5.rs initalize_cipher_suite, flight4.rs parse).
KeysAgree ==
  \A e \in Sides : conn[e].master # <<>> /\ conn[Peer(e)].master # <<>>
                     => conn[e].master = conn[Peer(e)].master

\* The client is the last to finish: when its handshake is complete the server's
\* was, and both sides have switched both directions to the new keys
\* (handshaker.rs wait, conn/mod.rs ChangeCipherSpec).
ClientLast ==
  conn["client"].completed =>
    /\ conn["server"].completed \/ conn["server"].fsm = "Gone"
    /\ \A e \in Sides : conn[e].completed => conn[e].localEpoch = 1 /\ conn[e].remoteEpoch = 1

\* What a completed handshake means: one key, and a peer that has it.
HandshakeAgrees == KeysAgree /\ ClientLast

\* The application of a side gets what the peer's application wrote, once, and
\* only after its own handshake is over, however often the network repeats the
\* records and whether or not they were queued (conn/mod.rs handle_incoming_packet
\* checks a record when it arrives and accepts it when it is used).
DeliveredOnce ==
  \A e \in Sides :
    /\ Len(delivered[e]) <= written[Peer(e)]
    /\ delivered[e] # <<>> => conn[e].completed \/ conn[e].fsm = "Gone"

\* Application data that reached a side in time is not lost: when no datagram
\* was lost, none is on its way and both handshakes are over, everything written
\* has been delivered (data may overtake the Finished and is queued then).
DataArrives ==
  /\ faults.losses = setting.losses
  /\ net = {}
  /\ \A e \in Sides : conn[e].completed
  => \A e \in Sides : Len(delivered[e]) = written[Peer(e)]

\* Application data arrives exactly once.
DataDelivered == DeliveredOnce /\ DataArrives

\* A handshake moves forward: no step takes a side back to an earlier flight or
\* out of a completed handshake, short of the connection going away.
MovesForward ==
  [][\A e \in Sides : conn'[e].fsm # "Gone" =>
       /\ conn'[e].flight >= conn[e].flight \/ conn[e].fsm = "None"
       /\ conn[e].completed => conn'[e].completed
       /\ conn'[e].recvSeq >= conn[e].recvSeq]_vars

Both == \A e \in Sides : conn[e].completed

\* The handshake completes when the retransmit interval is longer than anything
\* takes and the network loses nothing, although the flights' datagrams overtake
\* each other and the server needs the client's flight 5 twice when it comes in
\* one datagram (flight4.rs:397, the queue is not handled while parsing).
Completes ==
  /\ setting.punctual /\ setting.losses = 0 /\ setting.copies = 0 /\ setting.closers = {}
  /\ setting.auth => setting.cert
  => <>Both

\* The handshake survives the loss of one datagram, as the retransmissions of
\* the state machine in handshaker.rs are there for: "Read retransmit, Retransmit
\* last flight" (handshaker.rs:43).
SurvivesLoss == <>Both

=============================================================================
