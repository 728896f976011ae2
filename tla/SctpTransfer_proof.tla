------------------------- MODULE SctpTransfer_proof -------------------------
(***************************************************************************)
(* For any number of messages, any windows and any behaviour of the        *)
(* network: acknowledgements are never ahead of the data, and no SACK of   *)
(* the peer is ever refused.                                               *)
(***************************************************************************)
EXTENDS SctpTransfer, FiniteSetTheorems, TLAPS

\* A SACK under way speaks only of chunks the receiver has accepted.
SackSound(m) ==
    /\ m.cum <= last_tsn
    /\ \A g \in m.gaps : m.cum + g \in Received

\* The chunks are where they should be: sent before received, received before
\* acknowledged, and nothing acknowledged is marked for retransmission.
Placed ==
    /\ cum <= last_tsn /\ last_tsn < next_tsn /\ next_tsn <= written + 1
    /\ read <= last_tsn
    /\ last_tsn + 1 \notin payload_queue
    /\ \A t \in payload_queue : last_tsn < t /\ t < next_tsn
    /\ \A t \in data : t < next_tsn
    /\ acked \subseteq Received
    /\ acked \subseteq Inflight
    /\ retransmit \subseteq Inflight \ acked

IInv == TypeOK /\ Placed /\ NoSackError /\ \A m \in sacks : SackSound(m)

-----------------------------------------------------------------------------
\* A part of an interval of TSNs is finite and has a natural cardinality.
LEMMA PartFinite ==
    ASSUME NEW a \in Int, NEW b \in Int, NEW S, S \subseteq a .. b
    PROVE  IsFiniteSet(S) /\ Cardinality(S) \in Nat
<1>1. IsFiniteSet(a .. b) BY FS_Interval
<1>2. IsFiniteSet(S) BY <1>1, FS_Subset
<1>. QED BY <1>2, FS_CardinalityType

\* get_my_receiver_window_credit stays within the buffer.
LEMMA CreditType == IInv => Credit \in 0 .. BufSize
<1>. USE TransferAssumption
<1>1. SUFFICES ASSUME IInv PROVE Credit \in 0 .. BufSize
  OBVIOUS
<1>2. Cardinality(payload_queue) \in Nat
  <2>1. payload_queue \subseteq 1 .. Messages
    BY <1>1 DEF IInv, TypeOK, TSN
  <2>2. 1 \in Int /\ Messages \in Int
    OBVIOUS
  <2>. QED BY <2>1, <2>2, PartFinite, Zenon
<1>3. read <= last_tsn /\ read \in Nat /\ last_tsn \in Nat
  BY <1>1 DEF IInv, TypeOK, Placed
<1>. QED BY <1>2, <1>3 DEF Credit, Max2

\* pop_pending_data_chunks_to_send takes no more than is pending and, but for
\* the probe, no more than rwnd.
LEMMA ChunksBound ==
    IInv => /\ NewChunks \in Nat /\ NewChunks <= rwnd /\ Probe \in {0, 1}
            /\ NewChunks + Probe <= written - next_tsn + 1
<1>. USE TransferAssumption
<1>1. SUFFICES ASSUME IInv PROVE /\ NewChunks \in Nat /\ NewChunks <= rwnd /\ Probe \in {0, 1}
                                 /\ NewChunks + Probe <= written - next_tsn + 1
  OBVIOUS
<1>2. /\ written \in Nat /\ next_tsn \in Nat /\ rwnd \in Nat /\ cwnd \in Nat /\ cum \in Nat
      /\ next_tsn <= written + 1
  BY <1>1 DEF IInv, TypeOK, Placed
<1>3. Cardinality(Inflight \ acked) \in Nat
  <2>1. Inflight \ acked \subseteq 1 .. Messages
    BY DEF Inflight, TSN
  <2>2. 1 \in Int /\ Messages \in Int
    OBVIOUS
  <2>. QED BY <2>1, <2>2, PartFinite, Zenon
<1>4. NewChunks \in Nat /\ NewChunks <= rwnd /\ NewChunks <= written - next_tsn + 1
  BY <1>2, <1>3 DEF NewChunks, Min2, Max2
<1>. QED BY <1>2, <1>4 DEF Probe

\* What poll_transmit sends again comes from the chunks in flight.
LEMMA AgainInflight ==
    IInv => /\ ToRetransmit \subseteq retransmit
            /\ FastRetransmit \subseteq Inflight
<1>. QED BY DEF ToRetransmit, FastRetransmit, Lowest

-----------------------------------------------------------------------------
\* poll_transmit preserves the invariant: fresh chunks get the next TSNs.
LEMMA PollTransmitInv == IInv /\ PollTransmit => IInv'
<1>. USE TransferAssumption
<1>1. SUFFICES ASSUME IInv, PollTransmit PROVE IInv'
  OBVIOUS
<1>2. /\ NewChunks \in Nat /\ NewChunks <= rwnd /\ Probe \in {0, 1}
      /\ NewChunks + Probe <= written - next_tsn + 1
  BY <1>1, ChunksBound
<1>3. /\ next_tsn' = next_tsn + NewChunks + Probe /\ rwnd' = rwnd - NewChunks
      /\ retransmit' = retransmit \ ToRetransmit
      /\ resent' = resent \cup ToRetransmit \cup FastRetransmit
      /\ data' = data \cup ToRetransmit \cup Fresh \cup FastRetransmit
      /\ will_retransmit_fast' = FALSE
      /\ UNCHANGED <<written, cum, acked, miss, cwnd, ssthresh, partial_bytes_acked,
                     in_fast_recovery, exit_point, n_rtos, closed, last_tsn,
                     payload_queue, read, notified, ack_state, sacks, losses>>
  BY <1>1 DEF PollTransmit, Spent, congestion, receiver
<1>4. t3' \in BOOLEAN
  BY <1>1, Zenon DEF PollTransmit, T3Started, IInv, TypeOK
<1>5. /\ written \in 0 .. Messages /\ next_tsn \in 1 .. (Messages + 1) /\ cum \in 0 .. Messages
      /\ last_tsn \in 0 .. Messages /\ rwnd \in Nat
      /\ cum <= last_tsn /\ last_tsn < next_tsn /\ next_tsn <= written + 1
  BY <1>1 DEF IInv, TypeOK, Placed
<1>6. next_tsn' \in 1 .. (Messages + 1) /\ next_tsn' >= next_tsn /\ next_tsn' <= written' + 1
      /\ rwnd' \in Nat
  BY <1>2, <1>3, <1>5
<1>7. ToRetransmit \subseteq Inflight /\ FastRetransmit \subseteq Inflight
  BY <1>1, AgainInflight DEF IInv, Placed
<1>8. Inflight \subseteq TSN /\ (\A t \in Inflight : t < next_tsn') /\ Inflight \subseteq Inflight'
  BY <1>3, <1>5, <1>6 DEF Inflight, TSN
<1>9. Fresh \subseteq TSN /\ \A t \in Fresh : t < next_tsn'
  BY <1>2, <1>3 DEF Fresh
<1>10. /\ \A t \in data' : t < next_tsn'
       /\ data' \subseteq TSN /\ resent' \subseteq TSN /\ retransmit' \subseteq TSN
  <2>1. \A t \in data : t < next_tsn'
    BY <1>1, <1>5, <1>6 DEF IInv, Placed, TypeOK, TSN
  <2>2. data \subseteq TSN /\ resent \subseteq TSN /\ retransmit \subseteq TSN
    BY <1>1 DEF IInv, TypeOK
  <2>. QED BY <2>1, <2>2, <1>3, <1>7, <1>8, <1>9
<1>11. TypeOK'
  <2>1. /\ written' \in 0 .. Messages /\ cum' \in 0 .. Messages /\ acked' \subseteq TSN
        /\ miss' \in [TSN -> 0 .. 3] /\ cwnd' \in Nat /\ ssthresh' \in Nat
        /\ partial_bytes_acked' \in Nat /\ n_rtos' \in Nat /\ losses' \in Nat
        /\ exit_point' \in 0 .. Messages /\ last_tsn' \in 0 .. Messages
        /\ payload_queue' \subseteq TSN /\ read' \in 0 .. Messages
        /\ ack_state' \in {"Idle", "Immediate", "Delay"} /\ sacks' \subseteq Sacks
    BY <1>1, <1>3 DEF IInv, TypeOK
  <2>2. in_fast_recovery' \in BOOLEAN /\ will_retransmit_fast' \in BOOLEAN
        /\ closed' \in BOOLEAN /\ notified' \in BOOLEAN
    <3>1. /\ in_fast_recovery' = in_fast_recovery /\ closed' = closed
          /\ notified' = notified /\ will_retransmit_fast' = FALSE
      BY <1>3
    <3>. QED BY <1>1, <3>1, Zenon DEF IInv, TypeOK
  <2>3. Sacks' = Sacks /\ TSN' = TSN
    BY DEF Sacks, TSN
  <2>. QED BY <2>1, <2>2, <2>3, <1>4, <1>6, <1>10 DEF TypeOK
<1>12. Received' = Received
  BY <1>3 DEF Received
<1>13. Placed'
  <2>1. cum' <= last_tsn' /\ last_tsn' < next_tsn' /\ read' <= last_tsn'
    BY <1>1, <1>3, <1>5, <1>6 DEF IInv, Placed
  <2>2. /\ last_tsn' + 1 \notin payload_queue'
        /\ \A t \in payload_queue' : last_tsn' < t /\ t < next_tsn'
    BY <1>1, <1>3, <1>5, <1>6 DEF IInv, Placed, TypeOK, TSN
  <2>3. acked' \subseteq Received' /\ acked' \subseteq Inflight'
        /\ retransmit' \subseteq Inflight' \ acked'
    BY <1>1, <1>3, <1>8, <1>12 DEF IInv, Placed
  <2>. QED BY <2>1, <2>2, <2>3, <1>6, <1>10 DEF Placed
<1>14. NoSackError' /\ \A m \in sacks' : SackSound(m)'
  <2>1. NoSackError'
    BY <1>1, <1>3 DEF IInv, NoSackError
  <2>2. \A m \in sacks' : SackSound(m)'
    BY <1>1, <1>3, <1>12 DEF IInv, SackSound
  <2>. QED BY <2>1, <2>2
<1>. QED BY <1>11, <1>13, <1>14 DEF IInv
\* Stream::write only adds to the pending queue.
LEMMA WriteInv == IInv /\ Write => IInv'
<1>. USE TransferAssumption
<1>1. SUFFICES ASSUME IInv, Write PROVE IInv'
  OBVIOUS
<1>2. /\ written' = written + 1 /\ written < Messages
      /\ next_tsn' = next_tsn /\ cum' = cum /\ acked' = acked /\ retransmit' = retransmit
      /\ resent' = resent /\ miss' = miss /\ cwnd' = cwnd /\ ssthresh' = ssthresh
      /\ partial_bytes_acked' = partial_bytes_acked /\ rwnd' = rwnd
      /\ exit_point' = exit_point /\ n_rtos' = n_rtos
      /\ last_tsn' = last_tsn /\ payload_queue' = payload_queue /\ read' = read
      /\ ack_state' = ack_state /\ data' = data /\ sacks' = sacks /\ losses' = losses
  BY <1>1 DEF Write, congestion, receiver, network
<1>3. /\ in_fast_recovery' = in_fast_recovery
      /\ will_retransmit_fast' = will_retransmit_fast /\ t3' = t3 /\ closed' = closed
      /\ notified' = notified
  BY <1>1 DEF Write, congestion, receiver
<1>4. /\ in_fast_recovery' \in BOOLEAN /\ will_retransmit_fast' \in BOOLEAN
      /\ t3' \in BOOLEAN /\ closed' \in BOOLEAN /\ notified' \in BOOLEAN
  BY <1>1, <1>3, Zenon DEF IInv, TypeOK
<1>5. TypeOK'
  BY <1>1, <1>2, <1>4 DEF IInv, TypeOK
<1>6. Received' = Received /\ Inflight' = Inflight
  BY <1>2 DEF Received, Inflight
<1>7. Placed'
  BY <1>1, <1>2, <1>6 DEF IInv, Placed, TypeOK
<1>8. NoSackError'
  BY <1>1, <1>3, Zenon DEF IInv, NoSackError
<1>9. \A m \in sacks' : SackSound(m)'
  BY <1>1, <1>2, <1>6 DEF IInv, SackSound
<1>. QED BY <1>5, <1>7, <1>8, <1>9 DEF IInv

\* An expiration of T3-rtx marks only what is in flight and not acknowledged.
LEMMA T3TimeoutInv == IInv /\ T3Timeout => IInv'
<1>. USE TransferAssumption
<1>1. SUFFICES ASSUME IInv, T3Timeout PROVE IInv'
  OBVIOUS
<1>2. /\ written' = written /\ next_tsn' = next_tsn /\ cum' = cum /\ acked' = acked
      /\ resent' = resent /\ miss' = miss
      /\ partial_bytes_acked' = partial_bytes_acked /\ rwnd' = rwnd
      /\ exit_point' = exit_point
      /\ last_tsn' = last_tsn /\ payload_queue' = payload_queue /\ read' = read
      /\ ack_state' = ack_state /\ data' = data /\ sacks' = sacks /\ losses' = losses
  BY <1>1 DEF T3Timeout, receiver, network
<1>3. /\ in_fast_recovery' = in_fast_recovery
      /\ will_retransmit_fast' = will_retransmit_fast /\ closed' = closed
      /\ notified' = notified
  BY <1>1 DEF T3Timeout, receiver
<1>4. t3' \in BOOLEAN
  <2>1. t3' = FALSE \/ t3' = t3
    BY <1>1 DEF T3Timeout
  <2>. QED BY <1>1, <2>1, Zenon DEF IInv, TypeOK
<1>5. /\ in_fast_recovery' \in BOOLEAN /\ will_retransmit_fast' \in BOOLEAN
      /\ closed' \in BOOLEAN /\ notified' \in BOOLEAN
  BY <1>1, <1>3, Zenon DEF IInv, TypeOK
<1>6. cwnd \in Nat /\ ssthresh \in Nat /\ n_rtos \in Nat
  BY <1>1 DEF IInv, TypeOK
<1>7. n_rtos' \in Nat
  <2>1. n_rtos' = Min2(n_rtos + 1, MaxT3 + 1)
    BY <1>1 DEF T3Timeout
  <2>. QED BY <1>6, <2>1 DEF Min2
<1>8. cwnd' \in Nat /\ ssthresh' \in Nat
  <2>1. \/ cwnd' = cwnd /\ ssthresh' = ssthresh
        \/ cwnd' = MTU /\ ssthresh' = Max2(cwnd \div 2, 4 * MTU)
    BY <1>1, Zenon DEF T3Timeout
  <2>2. MTU \in Nat /\ Max2(cwnd \div 2, 4 * MTU) \in Nat
    BY <1>6 DEF Max2, MTU
  <2>. QED BY <1>6, <2>1, <2>2
<1>9. retransmit' \subseteq Inflight \ acked
  BY <1>1 DEF T3Timeout, Marked, IInv, Placed
<1>10. Received' = Received /\ Inflight' = Inflight /\ Inflight \subseteq TSN
  BY <1>2 DEF Received, Inflight
<1>11. TypeOK'
  BY <1>1, <1>2, <1>4, <1>5, <1>7, <1>8, <1>9, <1>10 DEF IInv, TypeOK
<1>12. Placed'
  BY <1>1, <1>2, <1>9, <1>10 DEF IInv, Placed
<1>13. NoSackError'
  BY <1>1, <1>3, Zenon DEF IInv, NoSackError
<1>14. \A m \in sacks' : SackSound(m)'
  BY <1>1, <1>2, <1>10 DEF IInv, SackSound
<1>. QED BY <1>11, <1>12, <1>13, <1>14 DEF IInv
\* The receiver's own steps leave the sender and what it has accepted alone.
LEMMA AckTimeoutInv == IInv /\ AckTimeout => IInv'
<1>1. SUFFICES ASSUME IInv, AckTimeout PROVE IInv'
  OBVIOUS
<1>2. UNCHANGED <<sender, last_tsn, payload_queue, read, notified, network>>
      /\ ack_state' = "Immediate"
  BY <1>1 DEF AckTimeout
<1>3. Received' = Received /\ Inflight' = Inflight
  BY <1>2 DEF Received, Inflight, sender
<1>4. /\ in_fast_recovery' = in_fast_recovery
      /\ will_retransmit_fast' = will_retransmit_fast /\ t3' = t3 /\ closed' = closed
      /\ notified' = notified
  BY <1>2 DEF sender
<1>5. /\ in_fast_recovery' \in BOOLEAN /\ will_retransmit_fast' \in BOOLEAN
      /\ t3' \in BOOLEAN /\ closed' \in BOOLEAN /\ notified' \in BOOLEAN /\ ~closed'
  BY <1>1, <1>4, Zenon DEF IInv, TypeOK, NoSackError
<1>6. TypeOK'
  BY <1>1, <1>2, <1>5 DEF IInv, TypeOK, sender, network
<1>7. Placed'
  BY <1>1, <1>2, <1>3 DEF IInv, Placed, sender, network
<1>8. \A m \in sacks' : SackSound(m)'
  BY <1>1, <1>2, <1>3 DEF IInv, SackSound, network
<1>. QED BY <1>5, <1>6, <1>7, <1>8 DEF IInv, NoSackError

\* create_selective_ack_chunk reports exactly what has been accepted.
LEMMA TheSackSound == IInv => TheSack \in Sacks /\ SackSound(TheSack)
<1>. USE TransferAssumption
<1>1. SUFFICES ASSUME IInv PROVE TheSack \in Sacks /\ SackSound(TheSack)
  OBVIOUS
<1>2. Credit \in 0 .. BufSize
  BY <1>1, CreditType
<1>3. /\ last_tsn \in 0 .. Messages /\ payload_queue \subseteq TSN
      /\ \A t \in payload_queue : last_tsn < t
  BY <1>1 DEF IInv, TypeOK, Placed
<1>4. {t - last_tsn : t \in payload_queue} \subseteq TSN
  BY <1>3 DEF TSN
<1>5. TheSack \in Sacks
  BY <1>2, <1>3, <1>4 DEF TheSack, Sacks
<1>6. \A g \in TheSack.gaps : TheSack.cum + g \in Received
  <2>1. SUFFICES ASSUME NEW t \in payload_queue PROVE last_tsn + (t - last_tsn) \in Received
    BY DEF TheSack
  <2>2. last_tsn + (t - last_tsn) = t
    BY <1>3 DEF TSN
  <2>. QED BY <2>2 DEF Received
<1>7. TheSack.cum <= last_tsn
  BY <1>3 DEF TheSack
<1>. QED BY <1>5, <1>6, <1>7 DEF SackSound

LEMMA SendSackInv == IInv /\ SendSack => IInv'
<1>1. SUFFICES ASSUME IInv, SendSack PROVE IInv'
  OBVIOUS
<1>2. /\ UNCHANGED <<sender, last_tsn, payload_queue, read, notified, data, losses>>
      /\ ack_state' = "Idle" /\ sacks' \subseteq sacks \cup {TheSack}
  BY <1>1 DEF SendSack
<1>3. Received' = Received /\ Inflight' = Inflight
  BY <1>2 DEF Received, Inflight, sender
<1>4. /\ in_fast_recovery' = in_fast_recovery
      /\ will_retransmit_fast' = will_retransmit_fast /\ t3' = t3 /\ closed' = closed
      /\ notified' = notified
  BY <1>2 DEF sender
<1>5. /\ in_fast_recovery' \in BOOLEAN /\ will_retransmit_fast' \in BOOLEAN
      /\ t3' \in BOOLEAN /\ closed' \in BOOLEAN /\ notified' \in BOOLEAN /\ ~closed'
  BY <1>1, <1>4, Zenon DEF IInv, TypeOK, NoSackError
<1>6. TheSack \in Sacks /\ SackSound(TheSack)
  BY <1>1, TheSackSound
<1>7. sacks' \subseteq Sacks /\ \A m \in sacks' : SackSound(m)
  BY <1>1, <1>2, <1>6 DEF IInv, TypeOK
<1>8. TypeOK'
  BY <1>1, <1>2, <1>5, <1>7 DEF IInv, TypeOK, sender
<1>9. Placed'
  BY <1>1, <1>2, <1>3 DEF IInv, Placed, sender
<1>10. \A m \in sacks' : SackSound(m)'
  BY <1>2, <1>3, <1>7 DEF SackSound
<1>. QED BY <1>5, <1>8, <1>9, <1>10 DEF IInv, NoSackError

\* The reader follows the cumulative point: what lies beyond has a hole before it.
LEMMA ReadInv == IInv /\ Read => IInv'
<1>. USE TransferAssumption
<1>1. SUFFICES ASSUME IInv, Read PROVE IInv'
  OBVIOUS
<1>2. UNCHANGED <<sender, last_tsn, payload_queue, ack_state, network>>
  BY <1>1 DEF Read
<1>3. \/ read + 1 \in Received /\ read' = read + 1
      \/ read' = read
  BY <1>1 DEF Read
<1>4. read' \in 0 .. Messages /\ read' <= last_tsn
  <2>1. /\ read \in 0 .. Messages /\ last_tsn \in 0 .. Messages /\ read <= last_tsn
        /\ last_tsn + 1 \notin payload_queue
        /\ \A t \in payload_queue : last_tsn < t
    BY <1>1 DEF IInv, TypeOK, Placed
  <2>2. CASE read' = read
    BY <2>1, <2>2
  <2>3. CASE read + 1 \in Received /\ read' = read + 1
    <3>1. read + 1 <= last_tsn \/ read + 1 \in payload_queue
      BY <2>3 DEF Received
    <3>2. read + 1 <= last_tsn
      <4>1. CASE read + 1 \in payload_queue
        <5>1. last_tsn < read + 1
          BY <2>1, <4>1
        <5>2. read + 1 = last_tsn + 1
          BY <2>1, <5>1
        <5>. QED BY <2>1, <4>1, <5>2
      <4>. QED BY <3>1, <4>1
    <3>. QED BY <2>1, <2>3, <3>2
  <2>. QED BY <1>3, <2>2, <2>3
<1>5. notified' \in BOOLEAN
  BY <1>1, Zenon DEF Read, IInv, TypeOK
<1>6. Received' = Received /\ Inflight' = Inflight
  BY <1>2 DEF Received, Inflight, sender
<1>7. /\ in_fast_recovery' = in_fast_recovery
      /\ will_retransmit_fast' = will_retransmit_fast /\ t3' = t3 /\ closed' = closed
  BY <1>2 DEF sender
<1>8. /\ in_fast_recovery' \in BOOLEAN /\ will_retransmit_fast' \in BOOLEAN
      /\ t3' \in BOOLEAN /\ closed' \in BOOLEAN /\ ~closed'
  BY <1>1, <1>7, Zenon DEF IInv, TypeOK, NoSackError
<1>9. TypeOK'
  BY <1>1, <1>2, <1>4, <1>5, <1>8 DEF IInv, TypeOK, sender, network
<1>10. Placed'
  BY <1>1, <1>2, <1>4, <1>6 DEF IInv, Placed, sender, network
<1>11. \A m \in sacks' : SackSound(m)'
  BY <1>1, <1>2, <1>6 DEF IInv, SackSound, network
<1>. QED BY <1>8, <1>9, <1>10, <1>11 DEF IInv, NoSackError

\* Losing packets loses no knowledge.
LEMMA LoseInv == IInv /\ Lose => IInv'
<1>1. SUFFICES ASSUME IInv, Lose PROVE IInv'
  OBVIOUS
<1>2. /\ UNCHANGED <<sender, receiver>> /\ losses' = losses + 1
      /\ data' \subseteq data /\ sacks' \subseteq sacks
  BY <1>1 DEF Lose
<1>3. Received' = Received /\ Inflight' = Inflight
  BY <1>2 DEF Received, Inflight, sender, receiver
<1>4. /\ in_fast_recovery' = in_fast_recovery
      /\ will_retransmit_fast' = will_retransmit_fast /\ t3' = t3 /\ closed' = closed
      /\ notified' = notified
  BY <1>2 DEF sender, receiver
<1>5. /\ in_fast_recovery' \in BOOLEAN /\ will_retransmit_fast' \in BOOLEAN
      /\ t3' \in BOOLEAN /\ closed' \in BOOLEAN /\ notified' \in BOOLEAN /\ ~closed'
  BY <1>1, <1>4, Zenon DEF IInv, TypeOK, NoSackError
<1>6. TypeOK'
  BY <1>1, <1>2, <1>5 DEF IInv, TypeOK, sender, receiver
<1>7. Placed'
  BY <1>1, <1>2, <1>3 DEF IInv, Placed, sender, receiver
<1>8. \A m \in sacks' : SackSound(m)'
  BY <1>1, <1>2, <1>3 DEF IInv, SackSound, receiver
<1>. QED BY <1>5, <1>6, <1>7, <1>8 DEF IInv, NoSackError
\* handle_data: the cumulative point passes only chunks that have arrived, and
\* nothing accepted is forgotten.
LEMMA DeliverDataInv == ASSUME NEW t \in data PROVE IInv /\ DeliverData(t) => IInv'
<1>. USE TransferAssumption
<1>1. SUFFICES ASSUME IInv, DeliverData(t) PROVE IInv'
  OBVIOUS
<1>. DEFINE queue == IF Accepts(t) THEN payload_queue \cup {t} ELSE payload_queue
<1>2. PICK last \in last_tsn .. Messages :
        /\ \A u \in TSN : last_tsn < u /\ u <= last => u \in queue
        /\ last + 1 \notin queue
        /\ last_tsn' = last
        /\ payload_queue' = {u \in queue : u > last}
  BY <1>1 DEF DeliverData, HandleData
<1>3. /\ UNCHANGED <<read, sender, sacks, losses>> /\ data' \subseteq data
      /\ ack_state' \in {"Idle", "Immediate", "Delay"}
  BY <1>1 DEF DeliverData, HandleData
<1>4. /\ last_tsn \in 0 .. Messages /\ next_tsn \in 1 .. (Messages + 1)
      /\ last_tsn < next_tsn /\ payload_queue \subseteq TSN /\ data \subseteq TSN
      /\ cum <= last_tsn /\ read <= last_tsn
      /\ cum \in 0 .. Messages /\ read \in 0 .. Messages
  BY <1>1 DEF IInv, TypeOK, Placed
<1>5. queue \subseteq TSN /\ payload_queue \subseteq queue /\ \A u \in queue : u < next_tsn
  BY <1>1, <1>4 DEF IInv, Placed
<1>. HIDE DEF queue
<1>6. last \in 0 .. Messages /\ last_tsn <= last /\ last < next_tsn
  <2>1. last \in 0 .. Messages /\ last_tsn <= last
    BY <1>2, <1>4
  <2>2. CASE last = last_tsn
    BY <1>4, <2>2
  <2>3. CASE last # last_tsn
    <3>1. last \in TSN /\ last_tsn < last
      BY <1>4, <2>1, <2>3 DEF TSN
    <3>2. last \in queue
      BY <1>2, <3>1
    <3>. QED BY <1>5, <2>1, <3>2
  <2>. QED BY <2>1, <2>2, <2>3
<1>7. Received \subseteq Received'
  <2>1. SUFFICES ASSUME NEW u \in Received PROVE u \in Received'
    OBVIOUS
  <2>2. u \in TSN
    BY <1>4 DEF Received
  <2>3. CASE u <= last
    BY <1>2, <2>2, <2>3 DEF Received
  <2>4. CASE ~(u <= last)
    <3>1. u > last /\ u > last_tsn
      BY <1>4, <1>6, <2>2, <2>4 DEF TSN
    <3>2. u \in payload_queue
      BY <1>4, <2>2, <3>1 DEF Received, TSN
    <3>. QED BY <1>2, <1>5, <3>1, <3>2 DEF Received
  <2>. QED BY <2>3, <2>4
<1>8. Inflight' = Inflight
  BY <1>3 DEF Inflight, sender
<1>9. /\ last_tsn' + 1 \notin payload_queue'
      /\ \A u \in payload_queue' : last_tsn' < u /\ u < next_tsn'
      /\ payload_queue' \subseteq TSN
  BY <1>2, <1>3, <1>5, <1>6 DEF sender, TSN
<1>10. notified' \in BOOLEAN
  <2>1. notified' = (notified \/ Announces(t))
    BY <1>1, Zenon DEF DeliverData, HandleData
  <2>. QED BY <2>1, Zenon
<1>11. /\ in_fast_recovery' = in_fast_recovery
       /\ will_retransmit_fast' = will_retransmit_fast /\ t3' = t3 /\ closed' = closed
  BY <1>3 DEF sender
<1>12. /\ in_fast_recovery' \in BOOLEAN /\ will_retransmit_fast' \in BOOLEAN
       /\ t3' \in BOOLEAN /\ closed' \in BOOLEAN /\ ~closed'
  BY <1>1, <1>11, Zenon DEF IInv, TypeOK, NoSackError
<1>13. TypeOK'
  <2>1. last_tsn' \in 0 .. Messages
    BY <1>2, <1>6
  <2>. QED BY <1>1, <1>3, <1>9, <1>10, <1>12, <2>1 DEF IInv, TypeOK, sender
<1>14. Placed'
  <2>1. cum' <= last_tsn' /\ last_tsn' < next_tsn' /\ read' <= last_tsn'
    BY <1>2, <1>3, <1>4, <1>6 DEF sender
  <2>2. next_tsn' <= written' + 1
    BY <1>1, <1>3 DEF IInv, Placed, sender
  <2>3. \A u \in data' : u < next_tsn'
    BY <1>1, <1>3 DEF IInv, Placed, sender
  <2>4. acked' \subseteq Received' /\ acked' \subseteq Inflight'
        /\ retransmit' \subseteq Inflight' \ acked'
    BY <1>1, <1>3, <1>7, <1>8 DEF IInv, Placed, sender
  <2>. QED BY <1>9, <2>1, <2>2, <2>3, <2>4 DEF Placed
<1>15. \A m \in sacks' : SackSound(m)'
  <2>1. SUFFICES ASSUME NEW m \in sacks PROVE SackSound(m)'
    BY <1>3
  <2>2. m.cum \in 0 .. Messages /\ m.cum <= last_tsn
        /\ \A g \in m.gaps : m.cum + g \in Received
    BY <1>1 DEF IInv, TypeOK, Sacks, SackSound
  <2>3. m.cum <= last_tsn'
    BY <1>2, <1>4, <1>6, <2>2
  <2>. QED BY <1>7, <2>2, <2>3 DEF SackSound
<1>. QED BY <1>12, <1>13, <1>14, <1>15 DEF IInv, NoSackError

\* What has been accepted has been sent.
LEMMA ReceivedSent == IInv => \A t \in Received : t \in TSN /\ t < next_tsn
<1>1. SUFFICES ASSUME IInv PROVE \A t \in Received : t \in TSN /\ t < next_tsn
  OBVIOUS
<1>2. /\ last_tsn \in 0 .. Messages /\ next_tsn \in 1 .. (Messages + 1)
      /\ last_tsn < next_tsn /\ payload_queue \subseteq TSN
      /\ \A t \in payload_queue : t < next_tsn
  BY <1>1 DEF IInv, TypeOK, Placed
<1>. QED BY <1>2, TransferAssumption DEF Received, TSN

\* A sound SACK is never bad, and applying it keeps the acknowledgements sound.
LEMMA NeverBad == ASSUME NEW m \in sacks, IInv PROVE ~BadSack(m)
<1>1. /\ m.cum \in 0 .. Messages /\ m.cum <= last_tsn /\ last_tsn \in 0 .. Messages
      /\ next_tsn \in 1 .. (Messages + 1) /\ last_tsn < next_tsn
      /\ payload_queue \subseteq TSN
      /\ \A t \in payload_queue : t < next_tsn
      /\ \A g \in m.gaps : m.cum + g \in Received
  BY DEF IInv, TypeOK, Sacks, SackSound, Placed
<1>2. \A t \in Received : t \in TSN /\ t < next_tsn
  BY ReceivedSent
<1>3. ~(m.cum >= next_tsn)
  BY <1>1
<1>4. \A g \in m.gaps : ~(m.cum + g >= next_tsn)
  BY <1>1, <1>2 DEF TSN
<1>. QED BY <1>3, <1>4 DEF BadSack

\* The growth of cwnd stays in the naturals: partial_bytes_acked never underflows.
LEMMA GrowType ==
    ASSUME NEW bytes \in Nat, NEW recovering \in BOOLEAN, cwnd \in Nat, ssthresh \in Nat,
           partial_bytes_acked \in Nat
    PROVE  Grow(bytes, recovering)[1] \in Nat /\ Grow(bytes, recovering)[2] \in Nat
<1>. DEFINE pending == written >= next_tsn
            partial == partial_bytes_acked + bytes
<1>1. cwnd + Min2(bytes, cwnd) \in Nat /\ cwnd + MTU \in Nat /\ partial \in Nat
  BY DEF Min2, MTU
<1>2. CASE cwnd <= ssthresh /\ (~recovering /\ pending)
  <2>1. Grow(bytes, recovering) = <<cwnd + Min2(bytes, cwnd), partial_bytes_acked>>
    BY <1>2, Zenon DEF Grow
  <2>. QED BY <2>1, <1>1
<1>3. CASE cwnd <= ssthresh /\ ~(~recovering /\ pending)
  <2>1. Grow(bytes, recovering) = <<cwnd, partial_bytes_acked>>
    BY <1>3, Zenon DEF Grow
  <2>. QED BY <2>1
<1>4. CASE ~(cwnd <= ssthresh) /\ (partial >= cwnd /\ pending)
  <2>1. Grow(bytes, recovering) = <<cwnd + MTU, partial - cwnd>>
    BY <1>4, Zenon DEF Grow
  <2>2. partial - cwnd \in Nat
    BY <1>4
  <2>. HIDE DEF partial
  <2>. QED BY <2>1, <2>2, <1>1
<1>5. CASE ~(cwnd <= ssthresh) /\ ~(partial >= cwnd /\ pending)
  <2>1. Grow(bytes, recovering) = <<cwnd, partial>>
    BY <1>5, Zenon DEF Grow
  <2>. HIDE DEF partial
  <2>. QED BY <2>1, <1>1
<1>. QED BY <1>2, <1>3, <1>4, <1>5, Zenon
\* handle_sack on a sound SACK.
LEMMA ApplySackInv ==
    ASSUME NEW m \in sacks
    PROVE  IInv /\ ~StaleSack(m) /\ ApplySack(m) /\ UNCHANGED receiver
             /\ sacks' \subseteq sacks /\ UNCHANGED <<data, losses>> => IInv'
<1>. USE TransferAssumption
<1>1. SUFFICES ASSUME IInv, ~StaleSack(m), ApplySack(m), UNCHANGED receiver,
                      sacks' \subseteq sacks, UNCHANGED <<data, losses>>
               PROVE  IInv'
  OBVIOUS
<1>2. PICK htna \in {m.cum} \cup (Gapped(m) \ acked) :
        /\ cum' = m.cum
        /\ acked' = (acked \cup Gapped(m)) \ Popped(m)
        /\ retransmit' = retransmit \ (Popped(m) \cup Gapped(m))
        /\ resent' = resent \ Popped(m)
        /\ miss' = [t \in TSN |-> IF t \in Missed(m, htna) THEN miss[t] + 1 ELSE miss[t]]
        /\ rwnd' = Max2(0, m.a_rwnd - Cardinality(Remaining(m) \ acked'))
        /\ n_rtos' = 0 \/ n_rtos' = n_rtos
        /\ exit_point' = htna \/ exit_point' = exit_point
  BY <1>1, Zenon DEF ApplySack
<1>3. UNCHANGED <<written, next_tsn, closed>>
  BY <1>1 DEF ApplySack
<1>4. /\ m.cum \in 0 .. Messages /\ m.gaps \subseteq TSN /\ m.a_rwnd \in 0 .. BufSize
      /\ m.cum <= last_tsn /\ \A g \in m.gaps : m.cum + g \in Received
      /\ cum \in 0 .. Messages /\ last_tsn \in 0 .. Messages
      /\ next_tsn \in 1 .. (Messages + 1) /\ last_tsn < next_tsn
      /\ payload_queue \subseteq TSN /\ \A t \in payload_queue : t < next_tsn
      /\ acked \subseteq Received /\ acked \subseteq Inflight /\ acked \subseteq TSN
      /\ retransmit \subseteq Inflight \ acked
  BY <1>1 DEF IInv, TypeOK, Sacks, SackSound, Placed
<1>5. \A t \in Received : t \in TSN /\ t < next_tsn
  BY <1>1, ReceivedSent
<1>6. \A t \in Gapped(m) : t \in Received /\ t \in TSN /\ t < next_tsn /\ m.cum < t
  BY <1>4, <1>5 DEF Gapped, TSN
<1>7. Received' = Received
  BY <1>1 DEF Received, receiver
<1>8. Inflight' = {t \in TSN : m.cum < t /\ t < next_tsn}
  BY <1>2, <1>3 DEF Inflight
<1>9. acked' \subseteq Received' /\ acked' \subseteq TSN
  BY <1>2, <1>4, <1>6, <1>7
<1>10. acked' \subseteq Inflight' /\ retransmit' \subseteq Inflight' \ acked'
  <2>1. \A t \in TSN : cum < t /\ t \notin Popped(m) => m.cum < t
    BY <1>4 DEF Popped, TSN
  <2>2. \A t \in Inflight : t \in TSN /\ cum < t /\ t < next_tsn
    BY DEF Inflight
  <2>3. acked' \subseteq Inflight'
    BY <1>2, <1>4, <1>6, <1>8, <2>1, <2>2
  <2>4. retransmit' \subseteq Inflight' \ acked'
    BY <1>2, <1>4, <1>8, <2>1, <2>2
  <2>. QED BY <2>3, <2>4
<1>11. miss' \in [TSN -> 0 .. 3]
  <2>1. miss \in [TSN -> 0 .. 3]
    BY <1>1 DEF IInv, TypeOK
  <2>2. \A t \in Missed(m, htna) : miss[t] < 3
    BY Zenon DEF Missed
  <2>. QED BY <1>2, <2>1, <2>2
<1>12. rwnd' \in Nat
  <2>1. Remaining(m) \ acked' \subseteq 1 .. Messages /\ 1 \in Int /\ Messages \in Int
    BY DEF Remaining, TSN
  <2>2. Cardinality(Remaining(m) \ acked') \in Nat
    BY <2>1, PartFinite, Zenon
  <2>. QED BY <1>2, <1>4, <2>2 DEF Max2
<1>13. exit_point' \in 0 .. Messages /\ n_rtos' \in Nat
  <2>1. htna \in 0 .. Messages
    BY <1>2, <1>4, <1>6 DEF TSN
  <2>2. exit_point \in 0 .. Messages /\ n_rtos \in Nat
    BY <1>1 DEF IInv, TypeOK
  <2>. QED BY <1>2, <2>1, <2>2
<1>14. cwnd' \in Nat /\ ssthresh' \in Nat /\ partial_bytes_acked' \in Nat
  <2>. DEFINE bytes == Cardinality((Popped(m) \cup Gapped(m)) \ acked)
              grown == IF cum < m.cum THEN Grow(bytes, Recovering(m))
                       ELSE <<cwnd, partial_bytes_acked>>
              half == Max2(grown[1] \div 2, 4 * MTU)
  <2>1. /\ cwnd' = half \/ cwnd' = grown[1]
        /\ ssthresh' = half \/ ssthresh' = ssthresh
        /\ partial_bytes_acked' = 0 \/ partial_bytes_acked' = grown[2]
    BY <1>1, Zenon DEF ApplySack
  <2>2. cwnd \in Nat /\ ssthresh \in Nat /\ partial_bytes_acked \in Nat
    BY <1>1 DEF IInv, TypeOK
  <2>3. bytes \in Nat
    <3>1. (Popped(m) \cup Gapped(m)) \ acked \subseteq 1 .. Messages
          /\ 1 \in Int /\ Messages \in Int
      BY <1>6 DEF Popped, TSN
    <3>. QED BY <3>1, PartFinite, Zenon
  <2>4. Recovering(m) \in BOOLEAN
    BY <1>1, Zenon DEF Recovering, IInv, TypeOK
  <2>5. grown[1] \in Nat /\ grown[2] \in Nat
    <3>. HIDE DEF bytes
    <3>1. CASE cum < m.cum
      <4>1. Grow(bytes, Recovering(m))[1] \in Nat /\ Grow(bytes, Recovering(m))[2] \in Nat
        BY <2>2, <2>3, <2>4, GrowType, Zenon
      <4>. QED BY <3>1, <4>1, Zenon
    <3>2. CASE ~(cum < m.cum)
      <4>1. grown = <<cwnd, partial_bytes_acked>>
        BY <3>2, Zenon
      <4>. HIDE DEF grown
      <4>. QED BY <2>2, <4>1
    <3>. QED BY <3>1, <3>2
  <2>. HIDE DEF grown
  <2>6. half \in Nat
    BY <2>5 DEF Max2, MTU
  <2>. QED BY <2>1, <2>2, <2>5, <2>6
<1>15. /\ t3' \in BOOLEAN /\ in_fast_recovery' \in BOOLEAN
       /\ will_retransmit_fast' \in BOOLEAN
  BY <1>1, Zenon DEF ApplySack
<1>16. closed' \in BOOLEAN /\ ~closed' /\ notified' \in BOOLEAN
  <2>1. closed' = closed /\ notified' = notified
    BY <1>1, <1>3 DEF receiver
  <2>. QED BY <1>1, <2>1, Zenon DEF IInv, TypeOK, NoSackError
<1>17. TypeOK'
  <2>1. cum' \in 0 .. Messages /\ retransmit' \subseteq TSN /\ resent' \subseteq TSN
    BY <1>1, <1>2, <1>4 DEF IInv, TypeOK
  <2>2. /\ written' \in 0 .. Messages /\ next_tsn' \in 1 .. (Messages + 1)
        /\ losses' \in Nat /\ last_tsn' \in 0 .. Messages /\ payload_queue' \subseteq TSN
        /\ read' \in 0 .. Messages /\ ack_state' \in {"Idle", "Immediate", "Delay"}
        /\ data' \subseteq TSN /\ sacks' \subseteq Sacks
    BY <1>1, <1>3 DEF IInv, TypeOK, receiver
  <2>. QED BY <1>9, <1>11, <1>12, <1>13, <1>14, <1>15, <1>16, <2>1, <2>2 DEF TypeOK
<1>18. Placed'
  <2>1. cum' <= last_tsn' /\ last_tsn' < next_tsn' /\ next_tsn' <= written' + 1
        /\ read' <= last_tsn'
    BY <1>1, <1>2, <1>3, <1>4 DEF IInv, Placed, receiver
  <2>2. /\ last_tsn' + 1 \notin payload_queue'
        /\ \A t \in payload_queue' : last_tsn' < t /\ t < next_tsn'
        /\ \A t \in data' : t < next_tsn'
    BY <1>1, <1>3 DEF IInv, Placed, receiver
  <2>. QED BY <1>9, <1>10, <2>1, <2>2 DEF Placed
<1>19. \A k \in sacks' : SackSound(k)'
  BY <1>1, <1>7 DEF IInv, SackSound, receiver
<1>. QED BY <1>16, <1>17, <1>18, <1>19 DEF IInv, NoSackError

\* Whatever SACK arrives, stale or not, the invariant is preserved.
LEMMA DeliverSackInv == ASSUME NEW m \in sacks PROVE IInv /\ DeliverSack(m) => IInv'
<1>1. SUFFICES ASSUME IInv, DeliverSack(m) PROVE IInv'
  OBVIOUS
<1>2. /\ UNCHANGED receiver /\ sacks' \subseteq sacks /\ UNCHANGED <<data, losses>>
  BY <1>1 DEF DeliverSack, HandleSack
<1>3. ~BadSack(m)
  BY <1>1, NeverBad
<1>4. CASE StaleSack(m) /\ UNCHANGED sender
  <2>1. Received' = Received /\ Inflight' = Inflight
    BY <1>2, <1>4 DEF Received, Inflight, sender, receiver
  <2>2. /\ in_fast_recovery' = in_fast_recovery
        /\ will_retransmit_fast' = will_retransmit_fast /\ t3' = t3 /\ closed' = closed
        /\ notified' = notified
    BY <1>2, <1>4 DEF sender, receiver
  <2>3. /\ in_fast_recovery' \in BOOLEAN /\ will_retransmit_fast' \in BOOLEAN
        /\ t3' \in BOOLEAN /\ closed' \in BOOLEAN /\ notified' \in BOOLEAN /\ ~closed'
    BY <1>1, <2>2, Zenon DEF IInv, TypeOK, NoSackError
  <2>4. TypeOK'
    BY <1>1, <1>2, <1>4, <2>3 DEF IInv, TypeOK, sender, receiver
  <2>5. Placed'
    BY <1>1, <1>2, <1>4, <2>1 DEF IInv, Placed, sender, receiver
  <2>6. \A k \in sacks' : SackSound(k)'
    BY <1>1, <1>2, <2>1 DEF IInv, SackSound, receiver
  <2>. QED BY <2>3, <2>4, <2>5, <2>6 DEF IInv, NoSackError
<1>5. CASE ~StaleSack(m) /\ ApplySack(m)
  BY <1>1, <1>2, <1>5, ApplySackInv
<1>. QED BY <1>1, <1>3, <1>4, <1>5 DEF DeliverSack, HandleSack

-----------------------------------------------------------------------------
\* The inductive invariant holds in every state.
THEOREM Invariance == Spec => []IInv
<1>. USE TransferAssumption
<1>1. Init => IInv
  <2>1. SUFFICES ASSUME Init PROVE IInv
    OBVIOUS
  <2>2. /\ written = 0 /\ next_tsn = 1 /\ cum = 0 /\ acked = {} /\ retransmit = {}
        /\ resent = {} /\ miss = [t \in TSN |-> 0] /\ cwnd = InitCwnd
        /\ rwnd \in {0, BufSize} /\ ssthresh = rwnd /\ partial_bytes_acked = 0
        /\ exit_point = 0 /\ n_rtos = 0 /\ last_tsn = 0 /\ payload_queue = {}
        /\ read = 0 /\ ack_state = "Idle" /\ data = {} /\ sacks = {} /\ losses = 0
    BY <2>1 DEF Init
  <2>3. /\ in_fast_recovery = FALSE /\ will_retransmit_fast = FALSE /\ t3 = FALSE
        /\ closed = FALSE /\ notified = FALSE
    BY <2>1, Zenon DEF Init
  <2>4. /\ in_fast_recovery \in BOOLEAN /\ will_retransmit_fast \in BOOLEAN
        /\ t3 \in BOOLEAN /\ closed \in BOOLEAN /\ notified \in BOOLEAN /\ ~closed
    BY <2>3, Zenon
  <2>5. TypeOK
    BY <2>2, <2>4 DEF TypeOK
  <2>6. Placed
    BY <2>2 DEF Placed
  <2>. QED BY <2>2, <2>4, <2>5, <2>6 DEF IInv, NoSackError
<1>2. IInv /\ [Next]_vars => IInv'
  <2>1. SUFFICES ASSUME IInv, [Next]_vars PROVE IInv'
    OBVIOUS
  <2>2. CASE Write BY <2>1, <2>2, WriteInv
  <2>3. CASE PollTransmit BY <2>1, <2>3, PollTransmitInv
  <2>4. CASE T3Timeout BY <2>1, <2>4, T3TimeoutInv
  <2>5. CASE AckTimeout BY <2>1, <2>5, AckTimeoutInv
  <2>6. CASE SendSack BY <2>1, <2>6, SendSackInv
  <2>7. CASE Read BY <2>1, <2>7, ReadInv
  <2>8. CASE Lose BY <2>1, <2>8, LoseInv
  <2>9. ASSUME NEW t \in data, DeliverData(t) PROVE IInv'
    BY <2>1, <2>9, DeliverDataInv
  <2>10. ASSUME NEW m \in sacks, DeliverSack(m) PROVE IInv'
    BY <2>1, <2>10, DeliverSackInv
  <2>11. CASE UNCHANGED vars
    <3>1. /\ in_fast_recovery' = in_fast_recovery
          /\ will_retransmit_fast' = will_retransmit_fast /\ t3' = t3 /\ closed' = closed
          /\ notified' = notified
      BY <2>11 DEF vars, sender, receiver
    <3>2. /\ in_fast_recovery' \in BOOLEAN /\ will_retransmit_fast' \in BOOLEAN
          /\ t3' \in BOOLEAN /\ closed' \in BOOLEAN /\ notified' \in BOOLEAN /\ ~closed'
      BY <2>1, <3>1, Zenon DEF IInv, TypeOK, NoSackError
    <3>3. TypeOK'
      BY <2>1, <2>11, <3>2 DEF IInv, TypeOK, vars, sender, receiver, network
    <3>4. Received' = Received /\ Inflight' = Inflight
      BY <2>11 DEF Received, Inflight, vars, sender, receiver
    <3>5. Placed'
      BY <2>1, <2>11, <3>4 DEF IInv, Placed, vars, sender, receiver, network
    <3>6. \A m \in sacks' : SackSound(m)'
      BY <2>1, <2>11, <3>4 DEF IInv, SackSound, vars, receiver, network
    <3>. QED BY <3>2, <3>3, <3>5, <3>6 DEF IInv, NoSackError
  <2>. QED BY <2>1, <2>2, <2>3, <2>4, <2>5, <2>6, <2>7, <2>8, <2>9, <2>10, <2>11 DEF Next
<1>. QED BY <1>1, <1>2, PTL DEF Spec

\* Every variable keeps its type.
THEOREM TypeCorrect == Spec => []TypeOK
<1>1. IInv => TypeOK
  BY DEF IInv
<1>. QED BY <1>1, Invariance, PTL

\* handle_sack never releases or marks a chunk the peer has not accepted.
THEOREM AckedReceivedTheorem == Spec => []AckedReceived
<1>1. IInv => AckedReceived
  BY DEF IInv, Placed, AckedReceived
<1>. QED BY <1>1, Invariance, PTL

\* No SACK of the peer, however late, closes the association.
THEOREM NoSackErrorTheorem == Spec => []NoSackError
<1>1. IInv => NoSackError
  BY DEF IInv
<1>. QED BY <1>1, Invariance, PTL
-----------------------------------------------------------------------------
\* T3-rtx guards the chunks in flight until it has used up its expirations:
\* every step that puts a chunk in flight or leaves one there keeps it running.
THEOREM T3GuardsTheorem == Spec => []T3Guards
<1>. USE TransferAssumption
<1>1. Init => T3Guards
  <2>1. SUFFICES ASSUME Init PROVE Inflight = {}
    BY DEF T3Guards
  <2>2. cum = 0 /\ next_tsn = 1
    BY <2>1 DEF Init
  <2>. QED BY <2>2 DEF Inflight, TSN
<1>2. IInv /\ T3Guards /\ [Next]_vars => T3Guards'
  <2>1. SUFFICES ASSUME IInv, T3Guards, [Next]_vars PROVE T3Guards'
    OBVIOUS
  <2>2. ASSUME UNCHANGED <<cum, next_tsn, t3, n_rtos>> PROVE T3Guards'
    <3>1. Inflight' = Inflight /\ t3' = t3 /\ n_rtos' = n_rtos
      BY <2>2 DEF Inflight
    <3>. QED BY <2>1, <3>1, Zenon DEF T3Guards
  <2>3. CASE Write BY <2>2, <2>3 DEF Write
  <2>4. CASE PollTransmit
    <3>1. t3' = (t3 \/ Fresh # {})
      BY <2>4, Zenon DEF PollTransmit, T3Started
    <3>2. cum' = cum /\ n_rtos' = n_rtos /\ next_tsn' = next_tsn + NewChunks + Probe
      BY <2>4 DEF PollTransmit
    <3>3. CASE Fresh # {}
      BY <3>1, <3>3, Zenon DEF T3Guards
    <3>4. CASE Fresh = {}
      <4>1. NewChunks \in Nat /\ Probe \in {0, 1} /\ NewChunks + Probe <= written - next_tsn + 1
        BY <2>1, ChunksBound
      <4>2. next_tsn \in 1 .. (Messages + 1) /\ written \in 0 .. Messages
        BY <2>1 DEF IInv, TypeOK
      <4>3. NewChunks + Probe > 0 => next_tsn \in Fresh
        BY <4>1, <4>2 DEF Fresh, TSN
      <4>4. next_tsn' = next_tsn
        BY <3>2, <3>4, <4>1, <4>2, <4>3
      <4>5. Inflight' = Inflight
        BY <3>2, <4>4 DEF Inflight
      <4>6. t3' = (t3 \/ FALSE)
        BY <3>1, <3>4, Zenon
      <4>. QED BY <2>1, <3>2, <4>5, <4>6, Zenon DEF T3Guards
    <3>. QED BY <3>3, <3>4
  <2>5. CASE T3Timeout
    <3>1. n_rtos \in Nat
      BY <2>1 DEF IInv, TypeOK
    <3>2. CASE n_rtos + 1 > MaxT3
      <4>1. n_rtos' = Min2(n_rtos + 1, MaxT3 + 1)
        BY <2>5 DEF T3Timeout
      <4>2. n_rtos' > MaxT3
        BY <3>1, <3>2, <4>1 DEF Min2
      <4>. QED BY <4>2 DEF T3Guards
    <3>3. CASE ~(n_rtos + 1 > MaxT3)
      <4>1. t3 /\ t3' = t3
        BY <2>5, <3>3, Zenon DEF T3Timeout
      <4>. QED BY <4>1, Zenon DEF T3Guards
    <3>. QED BY <3>2, <3>3
  <2>6. CASE AckTimeout BY <2>2, <2>6 DEF AckTimeout, sender
  <2>7. CASE SendSack BY <2>2, <2>7 DEF SendSack, sender
  <2>8. CASE Read BY <2>2, <2>8 DEF Read, sender
  <2>9. CASE Lose BY <2>2, <2>9 DEF Lose, sender
  <2>10. ASSUME NEW t \in data, DeliverData(t) PROVE T3Guards'
    BY <2>2, <2>10 DEF DeliverData, HandleData, sender
  <2>11. ASSUME NEW m \in sacks, DeliverSack(m) PROVE T3Guards'
    <3>1. ~BadSack(m)
      BY <2>1, NeverBad
    <3>2. CASE StaleSack(m) /\ UNCHANGED sender
      BY <2>2, <3>2 DEF sender
    <3>3. CASE ApplySack(m)
      <4>1. cum' = m.cum /\ next_tsn' = next_tsn
        BY <3>3 DEF ApplySack
      <4>2. Inflight' = Remaining(m)
        BY <4>1 DEF Inflight, Remaining
      <4>3. t3' = (Remaining(m) # {} \/ (t3 /\ ~(cum < m.cum)))
        BY <3>3, Zenon DEF ApplySack
      <4>. QED BY <4>2, <4>3, Zenon DEF T3Guards
    <3>. QED BY <2>11, <3>1, <3>2, <3>3 DEF DeliverSack, HandleSack
  <2>12. CASE UNCHANGED vars BY <2>2, <2>12 DEF vars, sender
  <2>. QED BY <2>1, <2>3, <2>4, <2>5, <2>6, <2>7, <2>8, <2>9, <2>10, <2>11, <2>12 DEF Next
<1>. QED BY <1>1, <1>2, Invariance, PTL DEF Spec

\* A message that can be read has been announced and the announcement is not
\* used up: handle_data tests is_readable after every chunk that completes one.
THEOREM NoLostWakeupTheorem == Spec => []NoLostWakeup
<1>. USE TransferAssumption
<1>1. Init => NoLostWakeup
  <2>1. SUFFICES ASSUME Init PROVE 1 \notin Received /\ read = 0
    BY DEF NoLostWakeup
  <2>2. last_tsn = 0 /\ payload_queue = {} /\ read = 0
    BY <2>1 DEF Init
  <2>. QED BY <2>2 DEF Received, TSN
<1>2. IInv /\ NoLostWakeup /\ [Next]_vars => NoLostWakeup'
  <2>1. SUFFICES ASSUME IInv, NoLostWakeup, [Next]_vars PROVE NoLostWakeup'
    OBVIOUS
  <2>2. ASSUME UNCHANGED <<last_tsn, payload_queue, read, notified>> PROVE NoLostWakeup'
    <3>1. Received' = Received /\ read' = read /\ notified' = notified
      BY <2>2 DEF Received
    <3>. QED BY <2>1, <3>1, Zenon DEF NoLostWakeup
  <2>3. CASE Write BY <2>2, <2>3 DEF Write, receiver
  <2>4. CASE PollTransmit BY <2>2, <2>4 DEF PollTransmit, receiver
  <2>5. CASE T3Timeout BY <2>2, <2>5 DEF T3Timeout, receiver
  <2>6. CASE AckTimeout BY <2>2, <2>6 DEF AckTimeout
  <2>7. CASE SendSack BY <2>2, <2>7 DEF SendSack
  <2>8. CASE Read
    <3>1. Received' = Received
      BY <2>8 DEF Read, Received
    <3>2. \/ notified /\ notified' = notified
          \/ read + 1 \notin Received /\ read' = read
      BY <2>8, Zenon DEF Read
    <3>3. CASE notified /\ notified' = notified
      BY <3>3, Zenon DEF NoLostWakeup
    <3>4. CASE read + 1 \notin Received /\ read' = read
      BY <3>1, <3>4, Zenon DEF NoLostWakeup
    <3>. QED BY <3>2, <3>3, <3>4
  <2>9. CASE Lose BY <2>2, <2>9 DEF Lose, receiver
  <2>10. ASSUME NEW t \in data, DeliverData(t) PROVE NoLostWakeup'
    <3>1. notified' = (notified \/ Announces(t)) /\ read' = read
      BY <2>10, Zenon DEF DeliverData, HandleData
    <3>2. CASE Accepts(t)
      BY <3>1, <3>2, Zenon DEF Announces, NoLostWakeup
    <3>3. CASE ~Accepts(t)
      <4>1. PICK last \in last_tsn .. Messages :
              /\ \A u \in TSN : last_tsn < u /\ u <= last => u \in payload_queue
              /\ last_tsn' = last
              /\ payload_queue' = {u \in payload_queue : u > last}
        BY <2>10, <3>3 DEF DeliverData, HandleData
      <4>2. last_tsn \in 0 .. Messages
        BY <2>1 DEF IInv, TypeOK
      <4>3. Received' \subseteq Received
        BY <4>1, <4>2 DEF Received, TSN
      <4>4. read' + 1 \in Received' => read + 1 \in Received
        BY <3>1, <4>3, Zenon
      <4>5. notified => notified'
        BY <3>1, Zenon
      <4>. QED BY <2>1, <4>4, <4>5, Zenon DEF NoLostWakeup
    <3>. QED BY <3>2, <3>3
  <2>11. ASSUME NEW m \in sacks, DeliverSack(m) PROVE NoLostWakeup'
    BY <2>2, <2>11 DEF DeliverSack, HandleSack, receiver
  <2>12. CASE UNCHANGED vars BY <2>2, <2>12 DEF vars, receiver
  <2>. QED BY <2>1, <2>3, <2>4, <2>5, <2>6, <2>7, <2>8, <2>9, <2>10, <2>11, <2>12 DEF Next
<1>. QED BY <1>1, <1>2, Invariance, PTL DEF Spec

\* A SACK, however late, repeated or reordered, releases only what was received
\* and closes nothing.
THEOREM SacksSoundTheorem == Spec => []SacksSound
<1>1. AckedReceived /\ NoSackError => SacksSound
  BY DEF SacksSound
<1>. QED BY <1>1, AckedReceivedTheorem, NoSackErrorTheorem, PTL

\* Neither end waits for ever: chunks in flight have their timer, a message that
\* can be read its event.
THEOREM NeverStuckTheorem == Spec => []NeverStuck
<1>1. T3Guards /\ NoLostWakeup => NeverStuck
  BY DEF NeverStuck
<1>. QED BY <1>1, T3GuardsTheorem, NoLostWakeupTheorem, PTL
=============================================================================
