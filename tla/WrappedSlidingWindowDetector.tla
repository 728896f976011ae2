-------------------- MODULE WrappedSlidingWindowDetector --------------------
(***************************************************************************)
(* The replay detector for counters that wrap, which SRTP and SRTCP use    *)
(* (rtc-shared/src/replay_detector/mod.rs).  A detector is a record; check *)
(* and accept are operators on it, since their callers use them with the   *)
(* decryption of a packet in between (see SrtpContext).  The mask is the   *)
(* set of its bits that are 1.                                             *)
(***************************************************************************)
EXTENDS FixedBigInt

CONSTANTS max_seq, window_size

ASSUME DetectorAssumption ==
    max_seq \in Nat \ {0} /\ window_size \in Nat \ {0} /\ WORD \in Nat \ {0}

Detector == [latest_seq : 0 .. max_seq, mask : SUBSET (0 .. KeptBits(window_size) - 1),
             init : BOOLEAN]

NewDetector == [latest_seq |-> 0, mask |-> {}, init |-> FALSE]

\* How far seq lies behind latest, the shorter way around; negative when ahead.
Behind(latest, seq) ==
    LET diff == latest - seq
    IN  CASE diff > max_seq \div 2    -> diff - (max_seq + 1)
          [] diff <= -(max_seq \div 2) -> diff + (max_seq + 1)
          [] OTHER                    -> diff

\* check, the state it leaves: the first number checked places the window.
Checked(d, seq) ==
    IF d.init THEN d
    ELSE [d EXCEPT !.init = TRUE,
                   !.latest_seq = IF seq = 0 THEN max_seq ELSE seq - 1]

PassesFault(d, seq) == TRUE
\* check, its answer, on the state Checked leaves.
Passes(d, seq) ==
    LET diff == Behind(d.latest_seq, seq)
    IN  diff < window_size /\ ~(diff >= 0 /\ MaskBit(d.mask, window_size, diff))

\* accept: the head of the window moves up to a newer number.  The bit of an
\* older one is found by a plain difference, which a number from before the
\* wrap makes negative: as usize it is beyond the mask and nothing is set.
Accepted(d, seq) ==
    IF Behind(d.latest_seq, seq) < 0
    THEN [d EXCEPT !.latest_seq = seq,
                   !.mask = MaskSetBit(MaskLsh(@, window_size, -Behind(d.latest_seq, seq)),
                                       window_size, 0)]
    ELSE IF seq > d.latest_seq THEN d
         ELSE [d EXCEPT !.mask = MaskSetBit(@, window_size, d.latest_seq - seq)]
=============================================================================
