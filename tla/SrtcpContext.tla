---------------------------- MODULE SrtcpContext ----------------------------
(***************************************************************************)
(* The RTCP packets of one SSRC protected by SRTCP: the encrypting         *)
(* context, the network and the decrypting context with its replay         *)
(* detector (rtc-srtp/src/context/{mod,srtcp}.rs).  Every packet carries   *)
(* its whole index, so nothing is estimated; the index is authenticated    *)
(* with the packet, but the detector looks at it before.                   *)
(***************************************************************************)
EXTENDS WrappedSlidingWindowDetector

CONSTANTS ControlPackets,  \* bound: packets sent
          ControlGap,      \* bound: packets lost in a row once one was accepted
          ControlLag       \* a packet is under way until this many newer ones were sent

\* A packet under way is within the shorter way around of the window's head (64
\* and 2^30 in the code), and a shift keeps the whole window.
ASSUME ControlAssumption ==
    /\ ControlPackets \in Nat /\ ControlGap \in Nat /\ ControlLag \in Nat
    /\ window_size + ControlLag <= max_seq \div 2 + 2 /\ ControlGap <= max_seq \div 2
    /\ KeptBits(window_size) >= window_size

VARIABLES
    srtcp_index,       \* of the encrypting context
    controlSent,       \* packets encrypted
    controlNet,        \* packets under way, which may arrive once or more often
    controlDetector,   \* replay_detector of the decrypting context
    controlNewest,     \* place of the newest packet accepted, 0 before the first
    controlTaken,      \* packets accepted, of those under way
    controlRepeated,   \* packets accepted more than once
    controlCrossed,    \* packets accepted late from before the index began anew
    controlMisplaced   \* the head of the window is that of a packet that was refused

controlReceiver == <<controlDetector, controlNewest, controlTaken, controlRepeated, controlCrossed, controlMisplaced>>

controlVars == <<srtcp_index, controlSent, controlNet, controlReceiver>>

\* get_srtcp_ssrc_state makes the state of an SSRC when it is first met.
ControlInit ==
    /\ srtcp_index = 0 /\ controlSent = 0 /\ controlNet = {}
    /\ controlDetector = NewDetector /\ controlNewest = 0
    /\ controlTaken = {} /\ controlRepeated = {} /\ controlCrossed = {} /\ controlMisplaced = FALSE

\* max_seq is MAX_SRTCP_INDEX here.
NextIndex == IF srtcp_index + 1 > max_seq THEN 0 ELSE srtcp_index + 1

\* encrypt_rtcp.  A packet: its place in the stream, and its index.
EncryptRtcp ==
    /\ controlSent < ControlPackets
    /\ controlNewest # 0 => controlSent - controlNewest < ControlGap
    /\ controlSent' = controlSent + 1
    /\ srtcp_index' = NextIndex
    /\ controlNet' = {m \in controlNet \cup {[place |-> controlSent', index |-> NextIndex]} :
                          controlSent' - m.place < ControlLag}
    /\ controlTaken' = controlTaken \cap controlNet'
    /\ controlRepeated' = controlRepeated \cap controlNet'
    /\ controlCrossed' = controlCrossed \cap controlNet'
    /\ UNCHANGED <<controlDetector, controlNewest, controlMisplaced>>

\* A packet that does not authenticate leaves the detector as check left it.
Refused(d, index) == d

\* decrypt_rtcp: check, decrypt, accept.  The packet authenticates if it
\* arrives with the index it was sent with.
DecryptRtcp(m, index) ==
    LET d == Checked(controlDetector, index)
    IN IF Passes(d, index) /\ index = m.index
       THEN /\ controlDetector' = Accepted(d, index)
            /\ controlNewest' = IF m.place > controlNewest THEN m.place ELSE controlNewest
            /\ controlTaken' = controlTaken \cup {m}
            /\ controlRepeated' = IF m \in controlTaken THEN controlRepeated \cup {m} ELSE controlRepeated
            /\ controlCrossed' = IF Behind(d.latest_seq, index) >= 0 /\ index > d.latest_seq
                                 THEN controlCrossed \cup {m} ELSE controlCrossed
            /\ controlMisplaced' = (controlMisplaced /\ Behind(d.latest_seq, index) >= 0)
       ELSE /\ controlDetector' = Refused(d, index)
            /\ controlMisplaced' = (controlMisplaced \/ ~controlDetector.init)
            /\ UNCHANGED <<controlNewest, controlTaken, controlRepeated, controlCrossed>>

\* A packet arrives, perhaps with its index damaged.
ReceiveRtcp ==
    /\ \E m \in controlNet : \E index \in {m.index, (m.index + max_seq \div 2) % (max_seq + 1)} : DecryptRtcp(m, index)
    /\ UNCHANGED <<srtcp_index, controlSent, controlNet>>

ControlNext == EncryptRtcp \/ ReceiveRtcp
-----------------------------------------------------------------------------
\* A packet that was not accepted yet and is inside the window passes the
\* detector, whatever damaged packets came before, unless the first of all
\* packets was refused and its index is still the head of the window; and the
\* only packets accepted twice are those first accepted late from before the
\* index began anew.
ControlWindow ==
    /\ controlRepeated \subseteq controlCrossed
    /\ controlNewest # 0 /\ ~controlMisplaced =>
          \A m \in controlNet \ controlTaken :
              controlNewest - m.place \in (1 - (max_seq \div 2))..(window_size - 1) => Passes(controlDetector, m.index)
=============================================================================
