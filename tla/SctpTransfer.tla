---------------------------- MODULE SctpTransfer ----------------------------
(***************************************************************************)
(* One direction of the data transfer of an established SCTP association   *)
(* (rtc-sctp/src/association/mod.rs, queue/payload_queue.rs): the sender's *)
(* pending and in-flight queues, congestion and receive windows, fast      *)
(* retransmission and T3-rtx; the receiver's payload queue, delayed        *)
(* acknowledgement, receive buffer and the reader behind it.               *)
(*                                                                         *)
(* The stream is reliable and ordered and every message is one chunk, so   *)
(* the k-th message written is the chunk with the k-th TSN; TSNs count     *)
(* from 1 and do not wrap.  A chunk is the unit of length and fills a      *)
(* packet: the path MTU is 1.                                              *)
(***************************************************************************)
EXTENDS Integers, FiniteSets

CONSTANTS Messages,          \* bound: messages the application writes
          InitCwnd,          \* Association::new: cwnd
          BufSize,           \* max_receive_buffer_size
          MaxT3,             \* TimerConfig::max_t3_rtx_retrans
          MaxSacks,          \* bound: distinct SACKs under way at once
          Duplicates,        \* TRUE: a packet once sent may arrive at any time, any number of times
          MaxLoss,           \* bound: packets lost when there are no duplicates
          Timely             \* TRUE: T3-rtx expires only when nothing is under way

MTU == 1

ASSUME TransferAssumption ==
    /\ Messages \in Nat /\ InitCwnd \in Nat \ {0} /\ BufSize \in Nat \ {0}
    /\ MaxT3 \in Nat /\ MaxSacks \in Nat \ {0} /\ MaxLoss \in Nat
    /\ Duplicates \in BOOLEAN /\ Timely \in BOOLEAN

VARIABLES
    \* the sender
    written,        \* messages written; those from my_next_tsn on are in pending_queue
    next_tsn,       \* my_next_tsn
    cum,            \* cumulative_tsn_ack_point
    acked,          \* in-flight chunks with acked set
    retransmit,     \* in-flight chunks with retransmit set
    resent,         \* in-flight chunks with nsent > 1
    miss,           \* miss_indicator, by TSN
    cwnd, ssthresh, partial_bytes_acked, rwnd,
    in_fast_recovery, exit_point, will_retransmit_fast,
    t3,             \* T3-rtx is running
    n_rtos,         \* its TimerTable::retrans (counted up to MaxT3 + 1)
    closed,         \* an error of handle_sack made handle_event close the association
    \* the receiver
    last_tsn,       \* peer_last_tsn
    payload_queue,
    read,           \* messages the application has read (next_ssn)
    notified,       \* a Readable event the application has not consumed
    ack_state,
    \* the network
    data, sacks, losses

sender == <<written, next_tsn, cum, acked, retransmit, resent, miss, cwnd, ssthresh,
            partial_bytes_acked, rwnd, in_fast_recovery, exit_point,
            will_retransmit_fast, t3, n_rtos, closed>>
congestion == <<cwnd, ssthresh, partial_bytes_acked, in_fast_recovery, exit_point>>
receiver == <<last_tsn, payload_queue, read, notified, ack_state>>
network == <<data, sacks, losses>>
vars == <<sender, receiver, network>>

TSN == 1 .. Messages
Max2(a, b) == IF a >= b THEN a ELSE b
Min2(a, b) == IF a <= b THEN a ELSE b

\* inflight_queue: the chunks sent and not covered by the cumulative point.
Inflight == {t \in TSN : cum < t /\ t < next_tsn}
\* Everything the receiver has accepted, read or not.
Received == {t \in TSN : t <= last_tsn} \cup payload_queue
\* get_my_receiver_window_credit: what the reassembly queue holds is unread.
Credit == Max2(0, BufSize - (last_tsn + Cardinality(payload_queue) - read))

Sacks == [cum : 0 .. Messages, gaps : SUBSET TSN, a_rwnd : 0 .. BufSize]

Init ==
    /\ written = 0 /\ next_tsn = 1 /\ cum = 0
    /\ acked = {} /\ retransmit = {} /\ resent = {} /\ miss = [t \in TSN |-> 0]
    /\ cwnd = InitCwnd
    /\ rwnd \in {0, BufSize}   \* set by handle_init_ack, left 0 by handle_init
    /\ ssthresh = rwnd
    /\ partial_bytes_acked = 0
    /\ in_fast_recovery = FALSE /\ exit_point = 0 /\ will_retransmit_fast = FALSE
    /\ t3 = FALSE /\ n_rtos = 0 /\ closed = FALSE
    /\ last_tsn = 0 /\ payload_queue = {} /\ read = 0 /\ notified = FALSE
    /\ ack_state = "Idle"
    /\ data = {} /\ sacks = {} /\ losses = 0

-----------------------------------------------------------------------------
(***************************************************************************)
(* The sender.                                                             *)
(***************************************************************************)

\* Stream::write: packetize and send_payload_data.
Write ==
    /\ ~closed /\ written < Messages
    /\ written' = written + 1
    /\ UNCHANGED <<next_tsn, cum, acked, retransmit, resent, miss, congestion, rwnd,
                   will_retransmit_fast, t3, n_rtos, closed, receiver, network>>

Lowest(S, k) == {t \in S : Cardinality({u \in S : u < t}) < k}

\* get_data_packets_to_retransmit: the marked chunks in TSN order as far as the
\* windows allow, or the first one alone as a zero window probe.
ToRetransmit ==
    IF cum + 1 \in retransmit /\ rwnd < 1 THEN {cum + 1}
    ELSE Lowest(retransmit, Min2(cwnd, rwnd))

\* pop_pending_data_chunks_to_send: how many chunks cwnd and rwnd let out.
NewChunks ==
    LET flight == Cardinality(Inflight \ acked)
    IN  Min2(written - next_tsn + 1, Min2(Max2(0, cwnd - flight), rwnd))

\* ... and its zero window probe when nothing is in flight.
Probe == IF NewChunks = 0 /\ Inflight = {} /\ written >= next_tsn THEN 1 ELSE 0

\* The chunks gather_outbound_fast_retransmission_packets finds lost; the lowest
\* of them fills the one packet it sends.
FastRetransmit ==
    LET lost == {t \in Inflight \ (acked \cup resent \cup ToRetransmit) : miss[t] >= 3}
    IN  IF will_retransmit_fast THEN Lowest(lost, 1) ELSE {}

Fresh == {t \in TSN : next_tsn <= t /\ t < next_tsn + NewChunks + Probe}

\* gather_outbound has something to do.
Outbound == ToRetransmit \cup Fresh \cup FastRetransmit # {} \/ will_retransmit_fast

T3StartedFault == t3 /\ Fresh # {}
\* restart_if_stale(T3RTX) where DATA is sent for the first time.
T3Started == t3 \/ Fresh # {}

\* What sending takes from rwnd: a zero window probe takes nothing.
Spent == NewChunks

\* poll_transmit in state Established: gather_data_packets_to_retransmit,
\* gather_outbound_data_and_reconfig_packets and
\* gather_outbound_fast_retransmission_packets.
PollTransmit ==
    /\ ~closed /\ Outbound
    /\ retransmit' = retransmit \ ToRetransmit
    /\ resent' = resent \cup ToRetransmit \cup FastRetransmit
    /\ next_tsn' = next_tsn + NewChunks + Probe
    /\ rwnd' = rwnd - Spent
    /\ t3' = T3Started
    /\ will_retransmit_fast' = FALSE
    /\ data' = data \cup ToRetransmit \cup Fresh \cup FastRetransmit
    /\ UNCHANGED <<written, cum, acked, miss, congestion, n_rtos, closed,
                   receiver, sacks, losses>>

\* The SACK is older than the cumulative point.
StaleSack(m) == m.cum < cum

\* process_selective_ack meets a TSN that is not in flight.
BadSack(m) == \/ m.cum >= next_tsn
              \/ \E g \in m.gaps : m.cum + g >= next_tsn

\* on_cumulative_tsn_ack_point_advanced: the new cwnd and partial_bytes_acked.
Grow(bytes, recovering) ==
    LET pending == written >= next_tsn
        partial == partial_bytes_acked + bytes
    IN  IF cwnd <= ssthresh
        THEN <<IF ~recovering /\ pending THEN cwnd + Min2(bytes, cwnd) ELSE cwnd,
               partial_bytes_acked>>
        ELSE IF partial >= cwnd /\ pending THEN <<cwnd + MTU, partial - cwnd>>
             ELSE <<cwnd, partial>>

\* The two TSN sets a SACK acknowledges: those up to its cumulative ack, popped
\* from inflight_queue, and those of its gap ack blocks, marked as acked.
Popped(m) == {t \in TSN : cum < t /\ t <= m.cum}
Gapped(m) == {m.cum + g : g \in m.gaps}

\* Chunks in flight once the cumulative point is m.cum.
Remaining(m) == {t \in TSN : m.cum < t /\ t < next_tsn}

\* process_selective_ack has not met the exit point of fast recovery.
Recovering(m) == in_fast_recovery /\ exit_point \notin Popped(m)

\* process_fast_retransmission: the chunks the SACK reports missing, given the
\* highest TSN it newly acknowledges.
Missed(m, htna) ==
    IF ~Recovering(m) \/ cum < m.cum
    THEN {t \in Remaining(m) \ (acked \cup Gapped(m)) :
            miss[t] < 3 /\ t < IF Recovering(m) THEN next_tsn ELSE htna}
    ELSE {}

\* ... and the third such report of a chunk starts fast recovery.
Enters(m, htna) == ~Recovering(m) /\ \E t \in Missed(m, htna) : miss[t] = 2

\* handle_sack on a SACK that is neither stale nor bad.
ApplySack(m) ==
    \E htna \in {m.cum} \cup (Gapped(m) \ acked) :
      /\ \A u \in {m.cum} \cup (Gapped(m) \ acked) : u <= htna
      /\ LET advanced == cum < m.cum
             enters == Enters(m, htna)
             grown == IF advanced
                      THEN Grow(Cardinality((Popped(m) \cup Gapped(m)) \ acked), Recovering(m))
                      ELSE <<cwnd, partial_bytes_acked>>
             half == Max2(grown[1] \div 2, 4 * MTU)
         IN  /\ cum' = m.cum
             /\ acked' = (acked \cup Gapped(m)) \ Popped(m)
             /\ retransmit' = retransmit \ (Popped(m) \cup Gapped(m))
             /\ resent' = resent \ Popped(m)
             /\ miss' = [t \in TSN |-> IF t \in Missed(m, htna) THEN miss[t] + 1 ELSE miss[t]]
             /\ rwnd' = Max2(0, m.a_rwnd - Cardinality(Remaining(m) \ acked'))
             /\ t3' = (Remaining(m) # {} \/ (t3 /\ ~advanced))
             /\ n_rtos' = IF \/ cum + 1 \in Popped(m) \ acked
                             \/ advanced /\ Remaining(m) = {}
                          THEN 0 ELSE n_rtos
             /\ in_fast_recovery' = (Recovering(m) \/ enters)
             /\ exit_point' = IF enters THEN htna ELSE exit_point
             /\ cwnd' = IF enters THEN half ELSE grown[1]
             /\ ssthresh' = IF enters THEN half ELSE ssthresh
             /\ partial_bytes_acked' = IF enters THEN 0 ELSE grown[2]
             /\ will_retransmit_fast' = (\/ will_retransmit_fast \/ enters
                                         \/ (Recovering(m) /\ advanced))
      /\ UNCHANGED <<written, next_tsn, closed>>

HandleSack(m) ==
    /\ ~closed
    /\ \/ StaleSack(m) /\ UNCHANGED sender
       \/ /\ ~StaleSack(m) /\ BadSack(m)
          /\ closed' = TRUE
          /\ UNCHANGED <<written, next_tsn, cum, acked, retransmit, resent, miss, congestion,
                         rwnd, will_retransmit_fast, t3, n_rtos>>
       \/ ~StaleSack(m) /\ ~BadSack(m) /\ ApplySack(m)
    /\ UNCHANGED receiver

MarkedFault == Inflight
\* mark_all_to_retrasmit.
Marked == Inflight \ acked

\* on_retransmission_timeout and on_retransmission_failure for T3RTX.
T3Timeout ==
    /\ t3 /\ ~closed
    /\ Timely => ~Outbound /\ data \cap Inflight = {} /\ sacks = {} /\ ack_state = "Idle"
    /\ n_rtos' = Min2(n_rtos + 1, MaxT3 + 1)
    /\ IF n_rtos + 1 > MaxT3
       THEN t3' = FALSE /\ UNCHANGED <<cwnd, ssthresh, retransmit>>
       ELSE /\ ssthresh' = Max2(cwnd \div 2, 4 * MTU)
            /\ cwnd' = MTU
            /\ retransmit' = Marked
            /\ UNCHANGED t3
    /\ UNCHANGED <<written, next_tsn, cum, acked, resent, miss, partial_bytes_acked, rwnd,
                   in_fast_recovery, exit_point, will_retransmit_fast, closed,
                   receiver, network>>

-----------------------------------------------------------------------------
(***************************************************************************)
(* The receiver.                                                           *)
(***************************************************************************)

\* can_push, and room for the chunk: credit, or a hole below the highest TSN.
Accepts(t) ==
    /\ t > last_tsn /\ t \notin payload_queue
    /\ Credit > 0 \/ \E u \in payload_queue : t < u

\* The Readable event: the chunk completes a message and the stream is_readable.
Announces(t) == Accepts(t) /\ read + 1 \in Received'

\* handle_data, handle_peer_last_tsn_and_acknowledgement and handle_chunk_end.
HandleData(t) ==
    LET queue == IF Accepts(t) THEN payload_queue \cup {t} ELSE payload_queue
    IN  /\ \E last \in last_tsn .. Messages :
             /\ \A u \in TSN : last_tsn < u /\ u <= last => u \in queue
             /\ last + 1 \notin queue
             /\ last_tsn' = last
             /\ payload_queue' = {u \in queue : u > last}
        /\ notified' = (notified \/ Announces(t))
        /\ ack_state' = IF ack_state = "Idle" /\ payload_queue' = {}
                        THEN "Delay" ELSE "Immediate"
        /\ UNCHANGED <<read, sender>>

\* on_ack_timeout.
AckTimeout ==
    /\ ack_state = "Delay"
    /\ ack_state' = "Immediate"
    /\ UNCHANGED <<sender, last_tsn, payload_queue, read, notified, network>>

\* create_selective_ack_chunk: gap ack blocks are offsets from the cumulative ack.
TheSack == [cum |-> last_tsn, gaps |-> {t - last_tsn : t \in payload_queue},
            a_rwnd |-> Credit]

\* gather_outbound_sack_packets; a network that is full loses some SACK.
SendSack ==
    /\ ack_state = "Immediate"
    /\ ack_state' = "Idle"
    /\ sacks' \in {S \in SUBSET (sacks \cup {TheSack}) :
                     Cardinality(S) = Min2(MaxSacks, Cardinality(sacks \cup {TheSack}))}
    /\ UNCHANGED <<sender, last_tsn, payload_queue, read, notified, data, losses>>

\* Stream::read_sctp on a Readable event, until it returns None.
Read ==
    /\ notified
    /\ \/ read + 1 \in Received /\ read' = read + 1 /\ UNCHANGED notified
       \/ read + 1 \notin Received /\ notified' = FALSE /\ UNCHANGED read
    /\ UNCHANGED <<sender, last_tsn, payload_queue, ack_state, network>>

-----------------------------------------------------------------------------
(***************************************************************************)
(* The network.                                                            *)
(***************************************************************************)
DeliverData(t) ==
    /\ HandleData(t)
    /\ data' = IF Duplicates THEN data ELSE data \ {t}
    /\ UNCHANGED <<sacks, losses>>

DeliverSack(m) ==
    /\ HandleSack(m)
    /\ sacks' = IF Duplicates THEN sacks ELSE sacks \ {m}
    /\ UNCHANGED <<data, losses>>

Lose ==
    /\ losses < MaxLoss
    /\ losses' = losses + 1
    /\ \/ \E t \in data : data' = data \ {t} /\ UNCHANGED sacks
       \/ \E m \in sacks : sacks' = sacks \ {m} /\ UNCHANGED data
    /\ UNCHANGED <<sender, receiver>>

Next == \/ Write \/ PollTransmit \/ T3Timeout
        \/ AckTimeout \/ SendSack \/ Read \/ Lose
        \/ \E t \in data : DeliverData(t)
        \/ \E m \in sacks : DeliverSack(m)

Spec == Init /\ [][Next]_vars

\* poll_transmit is called after every input, handle_timeout when a timer is
\* due, a Readable event is served; what is not lost arrives.
FairSpec ==
    /\ Spec
    /\ WF_vars(Write) /\ WF_vars(PollTransmit) /\ WF_vars(T3Timeout)
    /\ WF_vars(AckTimeout) /\ WF_vars(SendSack) /\ WF_vars(Read)
    /\ WF_vars(\E t \in data : DeliverData(t))
    /\ WF_vars(\E m \in sacks : DeliverSack(m))

-----------------------------------------------------------------------------
TypeOK ==
    /\ written \in 0 .. Messages /\ next_tsn \in 1 .. (Messages + 1) /\ cum \in 0 .. Messages
    /\ acked \subseteq TSN /\ retransmit \subseteq TSN /\ resent \subseteq TSN
    /\ miss \in [TSN -> 0 .. 3]
    /\ cwnd \in Nat /\ ssthresh \in Nat /\ partial_bytes_acked \in Nat /\ rwnd \in Nat
    /\ n_rtos \in Nat /\ losses \in Nat
    /\ exit_point \in 0 .. Messages
    /\ in_fast_recovery \in BOOLEAN /\ will_retransmit_fast \in BOOLEAN
    /\ t3 \in BOOLEAN /\ closed \in BOOLEAN /\ notified \in BOOLEAN
    /\ last_tsn \in 0 .. Messages /\ payload_queue \subseteq TSN
    /\ read \in 0 .. Messages /\ ack_state \in {"Idle", "Immediate", "Delay"}
    /\ data \subseteq TSN /\ sacks \subseteq Sacks

\* No chunk is released or marked acknowledged before the receiver has it, and
\* the three counters keep their order: late, repeated and reordered SACKs never
\* make handle_sack run ahead of handle_data.
AckedReceived ==
    /\ cum <= last_tsn /\ last_tsn < next_tsn
    /\ acked \subseteq Received
    /\ \A t \in retransmit : t \in Inflight /\ t \notin acked

\* Whatever the network does to the packets, handle_sack never meets a TSN that
\* is not in flight, so the association is never closed by an error of its own
\* (ErrInflightQueueTsnPop, ErrTsnRequestNotExist).
NoSackError == ~closed

\* Chunks in flight are guarded by T3-rtx as long as it has expirations left.
T3Guards == Inflight # {} => t3 \/ n_rtos > MaxT3

\* A message that can be read has been announced by a Readable event the
\* application has not yet used up: no message waits for a reader that waits.
NoLostWakeup == read + 1 \in Received => notified

\* A SACK, however late, repeated or reordered, means what it says: it releases
\* only what was received and is never an error.
SacksSound == AckedReceived /\ NoSackError

\* Neither end waits for the other for ever: what is in flight has a timer, and
\* what can be read an event.
NeverStuck == T3Guards /\ NoLostWakeup

\* Every message is read and acknowledged.
Delivered == <>(written = Messages /\ read = Messages /\ cum = Messages)
=============================================================================
