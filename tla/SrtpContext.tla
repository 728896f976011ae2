---------------------------- MODULE SrtpContext ----------------------------
(***************************************************************************)
(* One RTP stream (SSRC) protected by SRTP: the packetizer's sequencer,    *)
(* the encrypting context, the network, and the decrypting context with    *)
(* its replay detector (rtc-rtp/src/sequence.rs,                           *)
(* rtc-srtp/src/context/{mod,srtp}.rs).                                    *)
(*                                                                         *)
(* A packet carries 16 bits of a number whose upper part, the rollover     *)
(* counter (ROC), both sides estimate.  The ROC is part of what the cipher *)
(* authenticates, so decryption succeeds exactly when both sides agree on  *)
(* it and the packet arrives undamaged.                                    *)
(***************************************************************************)
EXTENDS WrappedSlidingWindowDetector

CONSTANTS MAX_ROC_DISORDER,
          Cycles,      \* bound: times the sequence number wraps
          MaxLag,      \* a packet is under way until this many newer ones were sent
          MaxGap,      \* the newest packet is at most this far from the last one accepted
          Damage       \* TRUE: a packet may arrive damaged

M == max_seq + 1

ASSUME SrtpAssumption ==
    /\ MAX_ROC_DISORDER \in Nat \ {0} /\ M > 3 * MAX_ROC_DISORDER
    /\ Cycles \in Nat /\ MaxLag \in Nat \ {0} /\ MaxGap \in Nat \ {0}
    /\ Damage \in BOOLEAN

\* A packet is neither so late nor so far ahead that the shorter way around is
\* the wrong one (64 and 2^15 in the code), and a shift keeps the whole window.
ASSUME WindowFits ==
    /\ window_size <= max_seq \div 2 /\ MaxLag <= max_seq \div 2 /\ MaxGap <= max_seq \div 2
    /\ KeptBits(window_size) >= window_size

VARIABLES
    sequence_number,   \* the sequencer's
    wraps,        \* its wraps since the first packet
    out,          \* SrtpSsrcState of the encrypting context
    in,           \* SrtpSsrcState of the decrypting context
    detector,     \* its replay_detector
    net,          \* packets that may still arrive, once or more often
    last,         \* the packet accepted last; before the first, the one before it
    newest,       \* the newest packet accepted
    taken,        \* packets accepted, of those that may still arrive
    repeated,     \* packets accepted more than once
    crossed,      \* packets accepted late from before a wrap
    misplaced     \* the head of the window is that of a packet that was refused

sender == <<sequence_number, wraps, out>>
receiver == <<in, detector, last, newest>>
history == <<taken, repeated, crossed, misplaced>>
vars == <<sender, receiver, net, history>>

SsrcState == [rollover_counter : Int, rollover_has_processed : BOOLEAN,
              last_sequence_number : 0 .. max_seq]
NewState == [rollover_counter |-> 0, rollover_has_processed |-> FALSE,
             last_sequence_number |-> 0]

\* A packet: its place in the stream, and the ROC it was encrypted with.
Packets == [cycle : Int, seq : 0 .. max_seq, roc : Int]
Place(c, s) == [cycle |-> c, seq |-> s]
Distance(p, q) == (p.cycle - q.cycle) * M + p.seq - q.seq

NextRolloverFault(state, seq) ==
    state.rollover_counter +
      CASE ~state.rollover_has_processed -> 0
        [] state.rollover_has_processed /\ seq < state.last_sequence_number -> 1
        [] OTHER -> 0
\* next_rollover_count.
NextRollover(state, seq) ==
    LET l == state.last_sequence_number
    IN  state.rollover_counter +
          IF ~state.rollover_has_processed THEN 0
          ELSE IF seq = 0 THEN (IF l > MAX_ROC_DISORDER THEN 1 ELSE 0)
          ELSE IF l < MAX_ROC_DISORDER /\ seq > max_seq - MAX_ROC_DISORDER THEN -1
          ELSE IF seq < MAX_ROC_DISORDER /\ l > max_seq - MAX_ROC_DISORDER THEN 1
          ELSE 0

\* update_rollover_count repeats the cases of next_rollover_count.
Update(state, seq) ==
    [rollover_counter |-> NextRollover(state, seq),
     rollover_has_processed |-> TRUE,
     last_sequence_number |-> seq]

\* new_random_sequencer: the first number sent is any number; get_srtp_ssrc_state
\* makes the state of an SSRC when it is first met.
Init ==
    /\ sequence_number \in 0 .. max_seq
    /\ wraps = IF sequence_number = max_seq THEN -1 ELSE 0
    /\ out = NewState /\ in = NewState /\ detector = NewDetector
    /\ net = {} /\ taken = {} /\ repeated = {} /\ crossed = {} /\ misplaced = FALSE
    /\ last = Place(wraps, sequence_number)
    /\ newest = last

\* next_sequence_number.
NextNumber ==
    IF sequence_number = max_seq THEN Place(wraps + 1, 0)
                                 ELSE Place(wraps, sequence_number + 1)

\* Packetizer::packetize and encrypt_rtp_with_header.
Send ==
    LET p == NextNumber
        m == [cycle |-> p.cycle, seq |-> p.seq, roc |-> NextRollover(out, p.seq)]
    IN  /\ p.cycle <= Cycles
        /\ Distance(p, last) <= MaxGap
        /\ sequence_number' = p.seq /\ wraps' = p.cycle
        /\ out' = Update(out, p.seq)
        /\ net' = {q \in net \cup {m} : Distance(p, q) < MaxLag}
        /\ taken' = {q \in taken : Distance(p, q) < MaxLag}
        /\ repeated' = repeated \cap taken'
        /\ crossed' = crossed \cap taken'
        /\ UNCHANGED <<receiver, misplaced>>

\* Cipher::decrypt_rtp authenticates the packet together with the ROC.
Authentic(m, roc, damaged) == ~damaged /\ m.roc = roc

\* decrypt_rtp_with_header.
Decrypt(m, damaged) ==
    LET d == Checked(detector, m.seq)
        p == Place(m.cycle, m.seq)
    IN  IF Passes(d, m.seq) /\ Authentic(m, NextRollover(in, m.seq), damaged)
        THEN /\ detector' = Accepted(d, m.seq)
             /\ in' = Update(in, m.seq)
             /\ last' = p
             /\ newest' = IF Distance(p, newest) > 0 THEN p ELSE newest
             /\ taken' = taken \cup {p}
             /\ repeated' = IF p \in taken THEN repeated \cup {p} ELSE repeated
             /\ crossed' = IF Behind(d.latest_seq, m.seq) >= 0 /\ m.seq > d.latest_seq
                           THEN crossed \cup {p} ELSE crossed
             /\ misplaced' = (misplaced /\ Behind(d.latest_seq, m.seq) >= 0)
        ELSE /\ detector' = d
             /\ misplaced' = (misplaced \/ ~detector.init)
             /\ UNCHANGED <<in, last, newest, taken, repeated, crossed>>

Receive(m) ==
    /\ \E damaged \in (IF Damage THEN BOOLEAN ELSE {FALSE}) : Decrypt(m, damaged)
    /\ UNCHANGED <<sender, net>>

Next == Send \/ \E m \in net : Receive(m)

Spec == Init /\ [][Next]_vars

-----------------------------------------------------------------------------
TypeOK ==
    /\ sequence_number \in 0 .. max_seq /\ wraps \in Int
    /\ out \in SsrcState /\ in \in SsrcState
    /\ detector \in Detector /\ misplaced \in BOOLEAN
    /\ net \subseteq Packets

\* The encrypting context counts the wraps of the sequencer: every packet is
\* encrypted with the number of wraps so far as its ROC, whatever random number
\* the stream began with.
SenderExact ==
    \A m \in net : m.roc = m.cycle

\* The decrypting context never loses count: the ROC of the next packet is
\* estimated correctly whenever it lies no further than MAX_ROC_DISORDER from
\* the packet accepted last, before or after it and across a wrap or not, also
\* after late packets moved last_sequence_number back.
EstimateExact ==
    in.rollover_has_processed =>
        \A m \in net : Distance(m, last) \in -MAX_ROC_DISORDER .. MAX_ROC_DISORDER
                         => NextRollover(in, m.seq) = m.roc

\* Both contexts of a stream count its rollovers exactly.
RolloverExact == SenderExact /\ EstimateExact

\* Once a first packet was accepted, check passes every packet not yet accepted
\* that is less than a window behind and less than half the range ahead of the
\* newest accepted one, across a wrap or not.  The exception is a window that the
\* first check placed for a packet that then failed to decrypt (check sets
\* latest_seq before accept), until a packet newer than that is accepted.
FreshPasses ==
    in.rollover_has_processed /\ ~misplaced =>
        \A m \in net : /\ Place(m.cycle, m.seq) \notin taken
                       /\ Distance(newest, m) \in -(max_seq \div 2) + 1 .. window_size - 1
                      => Passes(detector, m.seq)

\* The only packets ever accepted twice are those that were first accepted late
\* from before a wrap, whose bit accept does not set.
RepeatsOnlyAcrossWrap == repeated \subseteq crossed
=============================================================================
