# TLA+ specifications of the WebRTC stack

These modules specify the sans-I/O WebRTC stack in this repository, model-check it with TLC, and
prove the central properties of eight components with TLAPS. `PROJECT.json` records, for every
definition, the source lines it models, the hazards the properties answer, and for every property
a plausible bug that breaks it.

1. [The system](#1-the-system)
2. [Modules](#2-modules)
3. [State and actions](#3-state-and-actions)
4. [Runs](#4-runs)
5. [Proofs](#5-proofs)
6. [Observations](#6-observations)
7. [Not modelled](#7-not-modelled)

## 1. The system

Each crate is a state machine that a driver feeds with packets (`handle_read`, `read`), calls of
the application (`handle_write`, `write`, `connect`, `close`) and the passing of time
(`handle_timeout`), and from which the driver collects packets, events and the next deadline
(`poll_*`). No crate has threads. What is hard to test is what the network and the two ends do
to each other: packets are lost, repeated and reordered, timers run out while the answer is
under way, and either end restarts, shuts down or closes at any moment.

| Part | Crates and files | Here |
|---|---|---|
| Replay detectors | `rtc-shared/src/replay_detector` | modelled, proved |
| SRTP and SRTCP contexts | `rtc-srtp/src/context` | modelled, proved |
| SCTP association life cycle | `rtc-sctp/src/association`, `endpoint` | modelled, proved (no HEARTBEAT, ABORT, ERROR) |
| SCTP data transfer | `rtc-sctp/src/association`, `queue/payload_queue.rs` | modelled, proved |
| SCTP streams, reassembly, partial reliability, reset | `rtc-sctp/src/association`, `queue` | modelled, shown to implement an abstract service, proved in part |
| ICE agent | `rtc-ice/src/agent`, `candidate` | modelled, proved (no gathering, TCP or role conflict) |
| STUN agent and client | `rtc-stun/src/{agent,client}.rs` | modelled, proved to implement an abstract service |
| TURN client | `rtc-turn/src/client` | modelled, proved; the server is external |
| Peer connection, transceivers, media engine | `rtc/src/peer_connection`, `rtp_transceiver`, `api/media_engine` | modelled, signalling proved in part |
| Data channels and the SCTP handler | `rtc-datachannel`, `rtc/src/handler/sctp.rs`, `transport/sctp_transport` | modelled; the layer that joins them is external |
| DTLS handshake and record layer | `rtc-dtls`, `rtc/src/handler/dtls.rs` | modelled (see section 7) |
| RTP packets, extensions, packetizer, codecs | `rtc-rtp` | modelled |
| RTCP packets | `rtc-rtcp` | modelled |
| Session descriptions | `rtc-sdp` | modelled, as texts of tokens |
| Cryptography, layouts of DTLS, SCTP, STUN and TURN messages, statistics | all | not modelled (section 7) |

In the running stack ICE finds a pair of addresses, with STUN requests and possibly through a
TURN server; DTLS runs its handshake over it; the keys of the handshake protect SRTP, and SCTP
with its data channels runs inside DTLS application data. What is to be run is negotiated by
exchanging session descriptions. Replay detectors sit in both DTLS and SRTP.

## 2. Modules

| Module | Models |
|---|---|
| `FixedBigInt` | `fixed_big_int/mod.rs`: the bit mask as a set of bit positions, and as the array of words the code has |
| `SlidingWindowDetector` | the non-wrapping detector and its caller's order, `check` then `accept` |
| `SlidingWindowWords` | the same steps on the array of words, run in parallel with the set |
| `WrappedSlidingWindowDetector` | the wrapping detector, as operators on its state |
| `SrtpContext`, `SrtcpContext` | the encrypting and decrypting contexts of one SSRC, for RTP and for RTCP |
| `SctpAssociation` | the connecting and the accepting endpoint: handshake, T1 timers, shutdown, T2, close, routing of packets to associations |
| `SctpTransfer` | one direction of an established association: windows, SACKs, fast retransmission, T3-rtx, delayed acknowledgement, the reader |
| `StreamService`, `SctpStreams` | what a stream promises, and how it is kept: fragments, queues, reassembly, FORWARD-TSN, RECONFIG |
| `IceAgent` | a controlling and a controlled agent: candidates, pairs, checks, nomination, keepalive, failure, restart, close |
| `TransactionService`, `StunClient` | what a STUN client promises, and the client with the agent below it |
| `TurnClient` | transactions, allocation, permissions, channel bindings, refreshes, data |
| `MediaEngine` | codecs and header extensions |
| `SignalingState` | the descriptions of a peer with their signalling states, and the roles and credentials of its transports |
| `Signaling` | offer and answer of two peers, with their transceivers and the sections of their descriptions |
| `DataChannels` | two ends with DCEP, the channel table and the SCTP handler |
| `DtlsHandshake` | a client and a server endpoint: flights 0 to 6, handshake cache, fragments, epochs, replay protection, queues, retransmission, alerts |
| `Octets` | bytes and the integers in them (the `bytes` crate, external) |
| `Rtcp`, `RtpPackets`, `Av1Payloader`, `Sdp` | what the crates write and read, as functions |
| `Formats` | a machine that writes and reads again, item by item, with the four modules above |
| `RtpMedia` | a media stream: packetizer, sequencer, payloader, a lossy network, depacketizer |
| `MC…` | the instances that TLC checks |
| `Replay_proof` | theorems about the two detectors, the words, and SRTP and SRTCP, as `MCReplay` puts them together |
| `SctpTransfer_proof`, `SctpStreams_proof`, `SctpAssociation_proof`, `IceAgent_proof` | theorems about the module of that name |
| `StunTurn_proof` | theorems about the TURN client, the STUN client, and both as `MCStunTurn` puts them together |
| `SignalingState_proof`, `Signaling_proof` | the phases of an exchange and what a description does to them; the operations of a peer, the steps and the theorems |

Conventions. A variable or field has the name it has in the source where it stands for one
field. A definition whose name ends in `Fault` (or says what goes wrong, as `PollEventsOnce`) is
a deliberately wrong form of the definition that follows it; no specification uses it. It is
there to show that a property depends on that definition: put in its place, TLC finds the
property violated. Several modules have a constant variable (`setting`, `setup`, `limit`,
`config`, `media`), chosen initially, so that one run covers several configurations; `MCReplay`,
`MCStunTurn` and `MCFormats` put independent components into one run the same way.

## 3. State and actions

- **Replay detectors.** `accepted`, `seq`, `latest_seq` and `mask` are the fields; `Check` and
  `Accept` the two methods. `pending` and `delivered` are history: what the caller holds and
  what it has handed on. The caller is `DTLSConn::handle_incoming_packet`.
- **SRTP.** `out` and `in` are the `SsrcState` of each context. `Send` is a packet numbered by
  the sequencer and encrypted, `Receive` is `decrypt_rtp_with_header`. Decryption succeeds
  exactly when both sides use the same rollover counter and the packet is undamaged. The
  network is the set of packets sent that are fewer than `MaxLag` behind the newest: each may
  arrive at any time, any number of times. SRTCP packets carry their whole index, and the
  detector looks at it before it is authenticated.
- **SCTP association.** One record per association with its state, timers, stored packets,
  pending control packets and events. One action per kind of packet handled, per timer, per
  call of the application and for `poll_transmit`. The network is the set of packets ever sent.
- **SCTP transfer.** `PollTransmit` is all of `gather_outbound` for data (retransmissions, new
  data, probe of a closed window, fast retransmission), `DeliverSack` all of `handle_sack`,
  `DeliverData` all of `handle_data`, `Read` the application serving a `Readable` event. A
  chunk is the unit of length and TSNs do not wrap.
- **SCTP streams.** Here any chunk in flight may be sent again at any time, so that the module
  needs no windows: they only choose *when* (`SctpTransfer`). `Write`, `Stop` and `Finish` are
  the calls of `Stream`; what B does with DATA, FORWARD-TSN and RECONFIG is the reassembly queue
  and the handlers of `association/mod.rs`. Stream sequence numbers wrap at `SsnMod`.
- **ICE.** `Timeout` is `handle_timeout`, hence `contact` with everything below it; `Read` is
  `handle_inbound` with the selector of the agent's role. Time is abstracted to what the code
  compares it with: whether the acceptance wait of a candidate is over, whether a request has
  expired, whether the connection has been silent long enough to be disconnected or failed. A
  setting gives the addresses of the two agents, which are disjoint, how often each may be
  restarted, and which of them may be given candidates after the credentials (trickling), may
  find its connection failed, may be closed and is lite. The application makes no call on an agent
  it has closed, and restarts a failed one before it gives it candidates of its own; the driver
  serves timeouts and packets to every agent, also a closed one.
- **STUN.** `registered` and `events` are the agent's transactions and queue, `attempt` the
  client's transactions. A timeout and an answer of one transaction can both be in the queue,
  since the client looks at it only in `poll_event`; `PollEvent` is that call with its loop.
- **TURN.** Time advances in units of half the permission refresh interval; a transaction is
  over in a fraction of one. A transaction is answered by the server, which is external: it
  grants lifetimes, lets them expire and renews its nonce; or it times out. Transaction ids are
  random in the code: here each is one that no open transaction and no waiting call has
  (`FreeIds`, `Numberings`), and the one after it, which `allocate` returns and its second request
  gets, is nobody else's (`NextId`). `waiting` has the ids returned to callers that no event carried. Channel numbers are `MinChannel .. MaxChannel`.
- **Signalling.** A peer is a record with the fields named at the head of the module; one action
  per call of the application and one for the transport of a description. A description is its
  sections, a section its mid, kind, direction, codecs and extensions. Transceivers are created
  by `AddTransceiver` and transports started by `StartTransports`, which stand for code that is
  not compiled.
- **Data channels.** `dcs` is the table of channels, `chan` the open `DataChannel`s, `assoc` what
  the handler sees of the association. `Pump`, `Deliver`, `OpenChannel` and `CloseChannel` stand
  for the layer between them, which is commented out in the source. The association delivers
  what `StreamService` promises; `Abandon` gives up messages of the partially reliable channels.
  `spilt` has what calls of `handle_read` that failed had read, and the streams whose events the
  last one left in the queue.
- **DTLS.** `Read` is a datagram through `handler/dtls.rs` and `Endpoint::read`: all its
  records, then the handshake, then the queued records, then everything there is to send. An
  error leaves what was to be sent unsent, as `?` does, and a fatal alert drops the endpoint.
  Signatures, verify data and master secrets are the transcripts they are computed from. Sizes
  are counted in fragments and records per datagram.
- **Formats.** A step of `Formats` adds an item (a packet to a datagram, a call that changes a
  header, a line of a description, a unit of a frame, a payload for the same depacketizer) and
  has the whole written and read again, so that a reader meets what items before it left behind.
  Bytes are numbers below 256 in `Rtcp`, `RtpPackets` and `Av1Payloader`; a text in `Sdp` is a
  sequence of tokens.
- **RTP media.** A byte of a frame is a tuple that names its frame and place, so that the
  receiver's frames can be compared with the sender's. Sequence numbers, timestamps and picture
  identifiers wrap at the moduli of the configuration.

## 4. Runs

Passing runs. Deadlock is not checked: every one of these systems stops, when it is connected,
closed or has given up, or when the bounds are used up; what must not stop is said by the
properties about timers and by the liveness properties.

| Run | Properties | What it shows |
|---|---|---|
| `replay` | `DetectorSound`, `WordsAgree`, `RolloverExact`, `PacketsOnce` | no record is accepted twice, a fresh one inside the window always passes, and the words compute the set; across two wraps, with loss, damage, repetition and reordering beyond `MAX_ROC_DISORDER`, both rollover counters are exact and only late packets from before a wrap can pass twice; the same for SRTCP |
| `sctp_association` | `Agreement`, `HandshakeArmed`, `ShutdownOrderly`, `ClientDecided` | the two ends of a completed handshake are each other's only peers, a waiting handshake has its timer, and so has a shutdown its endpoint still serves; the side that answers a shutdown waits for its data in flight, the side that calls for one is let go only after its SHUTDOWN left once, and the connecting side always gets an answer |
| `sctp_transfer` | `SacksSound`, `NeverStuck`, `Delivered` | a SACK, however late, releases only what was received and is never an error; what is in flight has a timer and what can be read an event; every message is read and acknowledged when at most three packets are lost |
| `sctp_streams` | `Accounted`, `NeverStuck`, `ServiceSpec` | what is acknowledged is kept and counted, readers are woken, an unanswered reset has its timer until it gives up, and the streams implement `StreamService` |
| `ice_agent` | `NoPanic`, `SelectedChecked`, `OneSelection`, `Connect` | no index outlives its list but in two named cases (section 6), a selected pair was checked since the last restart, both ends select the two ends of one pair, and they do connect |
| `stun_turn` | `TablesAgree`, `NothingForgotten`, `TransactionSpec`, `EveryTransactionEnds` | the TURN client counts only on what the server has and no channel number means two peers; no transaction and no call is forgotten; a STUN transaction ends exactly once |
| `signaling` | `ExchangesSettle`, `SectionsLineUp`, `MediaMatches`, `TransportsMatch` | after an exchange descriptions, mids, directions, codecs and payload types, DTLS roles and ICE credentials of the two ends agree, with glare, replaced and discarded offers, provisional answers and ICE restarts |
| `data_channels` | `MessagesKept`, `ChannelsAgree`, `ChannelsServe` | messages keep order and kind and none is read twice; those of reliable channels are on their way until they are read; both ends see one channel with one configuration; OPENs are acknowledged and the messages of reliable channels read, with the exceptions of section 6 |
| `dtls_handshake` | `HandshakeAgrees`, `DataDelivered`, `MovesForward`, `Completes` | the keys of completed ends agree and the client completes last, early data is delivered once, no side falls back, and a network that loses nothing lets the handshake complete; ten configurations |
| `formats` | `RtcpCarried`, `NackCover`, `RtpCarried`, `ObusCarried`, `SdpRead`, `SdpWritten`, `FramesCarried` | what is written is read as it was meant, with the exceptions of section 6: RTCP of every type, header extensions after any calls, payload descriptors, AV1 units laid out for every packet size, the lines of a description in any order, and frames cut, numbered across the wrap and rebuilt with packets lost |

Runs whose property, taken from a comment of the repository, the code violates:

| Run | Property | Counterexample |
|---|---|---|
| `signaling_mids` | `MidsUnique` | an offer made while the other side's first offer is pending numbers its transceiver from the current remote description only, and two sections have one mid |
| `dtls_lost_flight` | `SurvivesLoss` | two kinds of behaviour, of which TLC reports one: flight 6 is lost and the completed server does not answer the client's repeated flight 5; or flight 4 is lost, the client repeats its ClientHello first, and the server stops its timer on that record and never repeats flight 4 |

A property of a run is often the conjunction of the facts named beside it in the module, each with its
own comment; what the code does *not* guarantee is written there as an exception and named in
section 6.

### Bounds

- `replay`: words of 2 bits, a window of three words, numbers up to 8. The window
  is smaller than the number range, so numbers fall out of it; shifts cross one and two words.
  SRTP: 16 numbers, a window of 4, `MAX_ROC_DISORDER` 5, two wraps. 5 is below a third of
  the range, as 100 is of 65536. `MaxLag` and `MaxGap` are 7, more than `MAX_ROC_DISORDER`, so
  packets for which the receiver's estimate is wrong do arrive, and any packet may be damaged.
  SRTCP: 34 packets, so that the index wraps twice.
- `sctp_association`: two accepting associations, so that a repeated INIT can create a second
  one; one retransmission per T1 timer; T2 has no limit in the code and none here.
- `sctp_transfer`: four messages, so that three later chunks can report the first one missing;
  three losses and three expiries of T3-rtx. The run repeats no packets; that its invariants hold
  with repetition, and timers that expire at any time, is proved.
- `sctp_streams`: six messages where sequence numbers wrap at 4, up to three fragments, two
  streams, ordered and not, the three reliability types, a stream opened again after a reset; the
  Reconfig timer may expire once where it is looked at (5 times in the code).
- `ice_agent`: one or two addresses per agent, up to two generations of credentials, one binding
  request per pair (`MaxBinding` = 0 as in `binding_request_count > max`). Five settings: a choice
  between two pairs, restarts of either agent, failures of the controlling agent before or after a
  restart, failures of the controlled one while the other is closed, a controlled agent that is lite.
- `stun_turn`: two STUN transactions, two retries, two answers. TURN: one or two peers, two
  channel numbers so that they run out, lifetimes of 4 units and up to 11 units, so that
  everything is refreshed and can expire; up to three transactions lost, two nonces.
- `signaling`: per scenario of `MCSignaling` a few calls per peer, enough for an exchange and
  one that crosses, replaces or follows it; codecs that agree fully, in name only and not at all.
- `data_channels`: seven scenarios of `MCDataChannels`, with two labels and up to two messages per
  end and channel, of no, one, some and too many bytes; up to two messages in a datagram, three where
  a stream is closed, so that a call that fails has read another stream and leaves a third event.
- `dtls_*`: at most two losses and two copies, one retransmission per flight
  (two in `dtls_lost_flight`; the code has 7), one message written per side, certificates of
  one or two fragments, 2, 3 or 6 records per datagram.
- `formats`: packet sizes from 2 to 15 and, with AV1 units longer than 127 bytes, around 128; each packet type with none, some and the maximum of its
  parts; datagrams of up to three packets; lines at most a few beyond a valid description.
  Sequence numbers wrap at 4, timestamps at 8.

### Fairness

A driver of sans-I/O code calls `poll_transmit` after every input, delivers what arrives and
calls `handle_timeout` when `poll_timeout` is due; the runs with liveness assume weak fairness
of these. They assume the same of the application where the property needs it: it writes its
messages and serves `Readable` (`Delivered`), adds its candidates and exchanges credentials
(`Connect`), starts the handshake (`Completes`), polls events (`EveryTransactionEnds`). About
the network:

- `ClientDecided` and `EveryTransactionEnds` assume nothing: the network may drop everything.
- `Delivered` assumes that at most `MaxLoss` packets are lost, the others arrive, and T3-rtx does
  not expire while a packet is under way.
- `Connect` assumes that, of the messages of each kind that can still change something, one
  eventually arrives. It is only claimed where no connection timeout expires.
- `ChannelsServe` assumes that the association delivers what it promises and that the handler
  is polled: weak fairness of any progress of either end.
- `Completes` assumes that nothing is lost and that the retransmit interval is longer than
  anything takes. Flights may be split and overtaken.
- `SurvivesLoss` is checked under the same fairness with one loss.

Where evaluating `ENABLED` of a large handler is too slow for TLC (`Read` and `Timeout` of DTLS,
most of ICE), weak fairness is written out as
`<>[]Guard => []<><<A>>_vars` with the condition under which `A` changes something as `Guard`;
a DTLS timeout in flight 2 changes nothing and is therefore not in its guard.

## 5. Proofs

TLAPS proves, for every value of the constants that the named assumptions allow:

- **`Replay_proof`**: all four properties of the run `replay`.
  - `DetectorSound`. The invariant `IInv` says that the bits of the window are exactly the
    accepted numbers (`WindowExact`) and that a checked number that waits for `accept` is still
    fresh (`PendingFresh`). `NoReplay` alone is not inductive, as it says nothing of the mask.
    `WindowAssumption`: the window is at most the number range and a shift keeps all of its bits,
    which holds when the window size is a multiple of 64 or not more than 32 above one (section 6).
  - `WordsAgree`, for every width of a word. The invariant is the property with the type of the
    array; the argument is about one bit at a time: where it lies in the words, and which two
    words a shift takes it from.
  - `RolloverExact`, whatever is lost, damaged or delayed. The invariant ties each context's
    counter to a place in the unbounded stream (`OutTracks`, `InTracks`); lemma `Estimate` is the
    arithmetic: within `MAX_ROC_DISORDER`, below a third of the range, of the last place, the
    estimate of `next_rollover_count` is exact.
  - `PacketsOnce`. The wrapping detector knows numbers modulo the range, the property is about
    packets. `Window` places the head of the detector's window at a place `h` of the unbounded
    stream, and a bit stands for the place as far behind: the set bits are the accepted places,
    except those accepted across a wrap, for which `accept` sets none. For SRTP `h` is near the last
    place accepted (`StreamInv`). For SRTCP the index is looked at before it is authenticated, so
    the first one, damaged, may put the window anywhere; `ControlInv` says that once a packet is
    accepted the head is less than a window ahead of the newest, with no bit set for a place after
    it. `WindowFits` and `ControlAssumption`: the window, and how far a packet arrives behind or
    ahead of the newest, are at most half of the range, so that the shorter way around is the right
    one. The code has windows of 64 and ranges of 2^16 and 2^31; that no burst of 2^15 packets is
    lost is an assumption about the network.
- **`SctpTransfer_proof`**: `SacksSound` and `NeverStuck`. The invariant adds that every
  SACK ever sent is sound (`SackSound`: it acknowledges only what the receiver has) and how
  the two ends' queues lie (`Placed`). An old SACK stays sound because what the receiver has
  only grows; that makes `AckedReceived` and `NoSackError` hold however late a SACK arrives.
- **`SctpStreams_proof`**: `NeverStuck`, and `BytesExact`, the half of `Accounted` about the byte
  count, for any streams and settings, any even modulus of sequence numbers, and any loss,
  repetition and reordering. `handle_data` reports `Readable` only where a chunk completes a set, so
  the proof is that a queue becomes readable in no other way. It needs that the chunk is not in the
  queue already: `QueuesInv` says that a queue has only acknowledged chunks, each in one place and
  counted once, and `handle_data` refuses acknowledged ones. It also needs that a complete set stays
  complete as messages are written and TSNs given out. `PendingOK` says that the queue a message is
  being sent from has the rest of it; without that `peek` would take a chunk of another message, or
  find none. `Popped` is a recursive function. That it exists, and that every turn keeps
  `PendingOK`, is proved by induction over a set of numbers (`SetInduction`). `StreamsAssumption`
  says no more than that the settings are settings and the modulus of the sequence numbers is even.
- **`SctpAssociation_proof`**: `Agreement`, `HandshakeArmed` and `ShutdownOrderly`, for any
  number of accepting associations, any limits of the timers and any calls. `Agreement` speaks of
  the associations only; what makes it inductive is `Sound`, which says what a packet proves to
  whoever receives it, now or later: a COOKIE-ECHO names the server the client has chosen, a
  COOKIE-ACK exists only when that server has completed. It survives the one step that changes
  the client's choice, INIT-ACK in CookieWait, since before it there are no such packets. The
  timers and the shutdown are local to the association that moves (`Armed`, `Orderly`); the latter
  needs that nobody rests in ShutdownPending and that whoever is in ShutdownSent called `shutdown`.
  `ShutdownLeft` needs that an association which called it has its SHUTDOWN still to send or sent it
  (`LInv`).
- **`StunTurn_proof`**, the STUN client: it implements `TransactionService` (`StunRefines`), and no
  transaction is forgotten between client and agent (`StunAttended`). The invariant adds that only
  started transactions are known or queued and that a known one has not ended (`KnownRuns`).
- **`IceAgent_proof`**: `NoPanic`, `SelectedChecked` and `OneSelection`, for any finite lists of
  addresses, any limit of binding requests, any number of restarts and any loss, repetition and
  reordering. The invariant is local to an agent's record (`Good`) but for what messages prove
  (`Carried`). `Indexed` says that pairs, nomination and selection refer to candidates the agent has
  unless it failed or is closed; after that an index is used in the two cases that `PanicsOnly`
  names, and in no other (`Outcome`). It is also what ties a succeeded
  pair to a response. A selected pair was nominated by a request that is in the network (`Invited`),
  and every nomination since the controlling agent's last restart is of its nominated pair
  (`Steady`); so two agents that have selected pairs with the same credentials have selected the
  ends of the one pair that was nominated. `Good` holds within an operation too: a lemma for each
  (`RequestsGood`, `ContactGood`, `HandleRequestGood`, …) says that a good record becomes a good
  record, so that an action is the composition of the lemmas of the calls it makes. `IceAssumption`:
  the two agents have no address in common.
- **`StunTurn_proof`**, the TURN client: `TablesAgree` and `CallsAnswered`, for any peers, channel
  numbers and even lifetime, and any number of losses and renewals of the nonce. What an expiry
  needs is a margin: the server's allocation lasts half a lifetime longer than the client's timer
  (`Leased`), a permission three units longer, or one after a failed refresh (`Permitted`,
  `Margin`). `Assigned` says that wherever a channel number occurs, at the client, the server or in
  a request under way, it is below the next one to assign and stands for one peer. `Attending` gives
  every waiting call the transaction that will answer it, or the first of the two that `allocate`
  makes, and keeps the ids of transactions apart. With the STUN client this gives
  `NothingForgotten` for the specification that is run.
- **`SignalingState_proof` and `Signaling_proof`**: `ExchangesSettle`, and of `TransportsMatch` the
  half about credentials, and the half about roles where no provisional answer is used. They hold
  for any scenarios of two peers: any transceivers, codecs, settings and directions, any number of
  exchanges and ICE restarts, and offers that are replaced, refused, thrown away or cross. That two
  peers agree once all is quiet is not inductive. The invariant `SigInv` says which phase of an
  exchange they are in (`Idle`, `Offered`, `Received`, `Provisional`, `Answered`, `Behind`,
  `Glare`), with what is under way to either: in `Behind` an answerer has offered before its answer
  has arrived, and in `Glare` both have offered and neither can go on. An operation of one peer
  (`Local`, `Remote`) takes a phase to a phase; the sections, whatever `create_offer`,
  `create_answer` and the media engine do with them, do not enter. `superseded` (an offer was
  replaced when it had left) excepts what `Settled` excepts. `Fresh` is the invariant for the
  credentials. The roles are chosen with the first exchange; `Cast` says who answered it, and that
  before it only an answerer has a role. A provisional answer in the first exchange leaves the
  offerer controlled until the final answer; that the final one has credentials too, so that the
  roles are set again, is left to TLC. `PeersAssumption`: there are two peers, and the settings that
  the roles depend on are settings.

Only model-checked:

- Every liveness property (`Connect`, `ClientDecided`, `Delivered`, `EveryTransactionEnds`,
  `ChannelsServe`, `Completes`): liveness under fairness and `ENABLED` are beyond the prover.
- `ServiceSpec` of the SCTP streams, and `AcknowledgedKept`, the other half of `Accounted`. They
  cannot be expected of every configuration: a FORWARD-TSN delayed until half of a stream's sequence
  numbers have been used again, or a repeated reset request for a stream that was opened again,
  makes the receiver take old numbers for new ones. They hold in the configurations of the run,
  which stay within those limits.
- What signalling does with media: `SectionsLineUp`, `MediaMatches`. Sections are paired with
  transceivers, and codecs with codecs, by folds over sequences of any length. `RolesDiffer` with
  provisional answers.
- Data channels and DTLS. The handlers of `DataChannels` are recursive operators, which the prover
  does not handle, and those of `DtlsHandshake` folds of operators over the records of a datagram.
- The formats. What recursive readers and writers compute for every input would have to be shown
  by induction over texts, and their operators are recursive as well. Modules with RECURSIVE
  operators have no theorems. Recursive functions over numbers are within reach, by
  `SetInduction`, and where one is used (`SctpStreams`) it is proved about.

## 6. Observations

Where the code does less than one might expect, a property makes an exception and says so. These
are the exceptions, and what else was met while modelling.

**Replay and SRTP.**
- `fixed_big_int/mod.rs:37`: the mask of the top word is too short when `n % 64` exceeds 32.
- `replay_detector/mod.rs:116`: the wrapping detector's `check` places the window on its first
  call, also for a packet that then fails to authenticate, and fresh older packets are refused
  until a newer one is accepted. `misplaced` records this and `FreshPasses` excepts it.
- `replay_detector/mod.rs:166`: `accept` sets no bit for a packet from before a wrap that arrives
  after it, so its copy is accepted too (`RepeatsOnlyAcrossWrap`).
- `rtc-srtp/src/context/mod.rs:60`: `roc -= 1` with the counter at 0 underflows.

**SCTP.**
- `association/mod.rs:2863` says "T3-rtx timer will not fail by design"; it stops after
  `max_t3_rtx_retrans` (5) expiries, which is the exception `T3Guards` makes.
- `:1098`: COOKIE-ECHO is accepted in `Closed`, also after `close`. `:528`: `is_handshaking` stays
  true after a lost handshake.
- `:600`: `shutdown` looks at a counter that nothing updates and sends SHUTDOWN with DATA in
  flight; `:607`: it is drained at once and its endpoint removes it with its timers
  (`handler/sctp.rs:91`), so a lost SHUTDOWN is not repeated, and a peer it did reach repeats
  SHUTDOWN-ACK for ever. `AckAfterData` is about the side that only answers, `ShutdownArmed` about
  associations still served, and `ShutdownLeft` says what is left for the side that calls.
- `:2472`: bundling counts chunks without their headers. `payload_queue.rs:98`: gap ack blocks
  compare TSNs without wrapping.
- `:2578`: FORWARD-TSN reports sequence numbers of unordered chunks too, and the receiver drops
  ordered messages it has acknowledged (`AcknowledgedKept` excepts streams of which an unordered
  chunk was abandoned).
- `:1917`: a reset request made in answer to the peer's is stored for retransmission, but its
  timer is not started; an answer "in progress" removes the request it answers. `timer.rs:26`: the
  Reconfig timer gives up after 5 expirations, which `:2870` ignores; the request of a `stop` that
  nobody answers is then kept and never repeated (the exception of `ResetArmed`).
- The first fragments of a message are never abandoned (`stream.rs:430`); a `Rexmit` value of 1
  abandons at the first send; a reset drops unread data; `stop` leaves a stream writable; an
  empty write uses up a sequence number; a repeated RECONFIG resets a stream opened again.

**ICE, STUN, TURN.**
- `rtc-ice/src/agent/mod.rs:995`: `len() - 1` after `add_remote_candidate` underflows if that
  call finds an overdue timeout and fails the agent. `:429`: `handle_timeout` after `close`, for
  which `poll_timeout` still asks, indexes an emptied list. The model has both: the agent is then
  marked (`panic`), and these are the two cases `NoPanic` names.
- `:523`: a failed agent's `poll_timeout` stays in the past.
- `rtc-turn/src/client/mod.rs:517`: `allocate` returns the id of its second request. If the first
  times out, the event has another id and the caller is left waiting (`misnamed`, the exception of
  `CallsAnswered`).
- `rtc-turn`: one lost allocation refresh, or a
  stale nonce in answer to it, loses the allocation without an event; an error answer to a
  channel refresh deletes a binding that the server keeps; a binding whose request times out
  stays in `Request` for ever; channel numbers wrap onto bound ones; after `close` of a relay its
  refreshes go on; a second `create_permission` before the first is answered sends a second request.

**Signalling.**
- Neither side of a glare can go back to stable: a rollback is refused. An offer that is discarded
  leaves its transceivers numbered (`crossed`). `set_remote_description` has changed state when it
  fails. Rejected sections have no mid. An agent that restarted itself has no remote credentials,
  and `create_offer` with `ice_restart` restarts it at once.
- `dtls_role.rs:13`: a lite offerer and a full answerer that leaves its role open both become
  clients. `RolesDiffer` leaves out exactly two clients of this kind.
- The media engine's limit of extensions is `len > 15` with 14 identifiers; an rtx codec listed
  before its base is dropped; in the default codecs payload type 127 occurs twice.

**Data channels.**
- A negotiated channel not yet opened at the peer loses its messages, and so does an unordered
  channel whose messages overtake the OPEN, a reliable one too: `accept` takes the first message for
  the OPEN and fails (`data_channel/mod.rs:117`). `Early` names these messages and no property is
  about their arrival.
- `handle_read` fails on the Readable event of a stream that was reset in the meantime
  (`handler/sctp.rs:77`). The messages it had collected, of any stream, are lost, and the events
  behind wait for the next datagram. The model has both; the properties leave out exactly these
  messages (`spilt`), and no others of the same end.
- An empty message is padded to one byte before its type is chosen from its length
  (`handler/sctp.rs:339`), so it arrives as one zero byte, against the rule quoted at
  `data_channel/mod.rs:232-238`. `KindsKept` says nothing of the size of an empty message.
- Negotiated identifiers can collide; a reset is not reported; an oversize message counts as sent
  and is dropped.

**DTLS.**
- The server parses flight 5 while the ChangeCipherSpec and Finished that came with it are still
  queued (`flight4.rs:397`), and the queue is handled only after completion. A handshake whose
  flight 5 comes in one datagram therefore completes only because the client repeats it. With
  two records per datagram and a pre-shared key, Finished may overtake ChangeCipherSpec on each
  repetition and the attempts run out; `Completes` is claimed for that configuration with
  flight 5 in one datagram.
- `HandshakeState::Finished` is left by no call (`endpoint.rs` guards `handshake` and
  `handshake_timeout` with `!is_handshake_completed`), so `finish` and `Flight6::parse` are not
  reached and not modelled.
- `fragment_buffer/mod.rs:61`: fragments of messages already handed on are stored again and never
  removed. `conn/mod.rs:687` says "Respond with a close_notify"; the error leaves
  `Endpoint::read` before that answer is drained, and the handler drops the endpoint.
  `endpoint.rs:174`: nor is the alert of a failed handshake sent. `dtls_transport/mod.rs:198`:
  `stop` drops the endpoint with the close_notify just put into it; in the model it may be sent or not.

**RTCP and RTP.**
- Written and not readable: run-length XR blocks with an odd number of chunks, and transport
  feedback whose chunks end with the packet. `packet.rs:66` then loses the whole datagram, and
  `RtcpReread` claims nothing of it.
- Written and read as something else (`Distorted`): slice loss indications, whose header says 205
  (`slice_loss_indication/mod.rs:56`) and which are looked for under 206 (`packet.rs:108`); counts of
  lost packets of 25 bits; profile extensions that do not fill their last word; a REMB bitrate of 0;
  the type of a raw packet nobody knows. `RtcpReread` claims that they disturb no other packet, and
  nothing of what they are read as.
- `header.rs:377`: the first `set_extension` is not validated. The reserved identifier 15 leaves
  the rest of the extensions in the payload.
- `leb128.rs:57`: `put_leb128` encodes sizes of 128 and more twice (200 becomes 81 90 03), so an AV1
  packet with such a size is longer than planned and no receiver can join it. The model writes what
  the code writes; `ObusCarried` is about sizes below 128. The strict `<` of the AV1 packetizer
  starts a packet where the unit would still fit.
- H264: a STAP-A larger than the packet size is dropped with its parameter sets, and the start bit
  of a fragment is not read, so after a loss a unit can be joined from two. VP8: the payloader cuts
  off tails of fewer than the four bytes that the depacketizer asks for.
- VP8 and VP9 depacketizers keep flags and lists from one packet to the next. A VP8 packet without
  the extension byte is cut wrongly after one with it. `vp9/mod.rs:374` refuses the third reference
  index over all packets, although three in each packet are allowed (`:356`). Both are left out
  of `DescriptorsSplit`. `:412` takes two reserved bits for G as well; the runs leave them 0.

**Session descriptions.**
- The tables (`session.rs:504`) take the lines of a section in any order, and a second i, c or k
  line replaces the first; a description without t is refused, and one with a section without
  formats is written and cannot be read.
- The codec map is one for the session (`session.rs:308`). A payload type that two sections give to
  different codecs is found as a mixture, the channels of one with the name of the other
  (`util/mod.rs:195`); `CodecsFound` is exact for payload types with one codec.
- `util/mod.rs:145`: format parameters with blanks are lost; `:215`: they are sorted before they are
  trimmed. `extmap/mod.rs:82` accepts 1 to 246 and says 1-256; an attribute of several words is
  dropped. `SdpBuilt` leaves both out.

## 7. Not modelled

- **DTLS**: resuming from an exported state, negotiation and its failures, a handshake without
  extended master secret, client authentication other than none and require-any, a server without
  PSK identity hint, more than one remote per endpoint.
- **SCTP**: HEARTBEAT, ABORT and ERROR chunks; wrapping of TSNs; byte lengths of chunks.
- **ICE**: gathering, TCP and relayed candidates, role conflicts, priorities and foundations.
- **Signalling**: rids, SSRC lines, fingerprints and candidates in descriptions; closing,
  negotiation-needed and starting the transports, which are commented out or not compiled.
- **TURN**: parsing of addresses and message integrity; TCP.
- **Layouts** of DTLS, SCTP, STUN and TURN messages: single messages without state, each with
  a round-trip test of its own; the modules take a message to be the record of its fields.
- **Cryptography**, of DTLS and SRTP: arithmetic. Authentication succeeds exactly when
  both sides use the same key material and the packet is undamaged.
- **Tracks, statistics, configuration, shared utilities**: plain data, commented out, or without
  state.
