----------------------- MODULE SlidingWindowDetector -----------------------
(***************************************************************************)
(* The non-wrapping replay detector of the DTLS record layer               *)
(* (rtc-shared/src/replay_detector/mod.rs, SlidingWindowDetector) and the  *)
(* one way its caller uses it: DTLSConn::handle_incoming_packet calls      *)
(* check(seq), and calls accept() only if the record then authenticates.   *)
(***************************************************************************)
EXTENDS FixedBigInt, FiniteSets

CONSTANTS WindowSize,  \* window_size of SlidingWindowDetector::new
          MaxSeq       \* max_seq, the largest sequence number (2^48 - 1 in DTLS)

ASSUME WindowAssumption ==
  /\ WindowSize \in Nat \ {0}
  /\ MaxSeq \in Nat \ {0}
  \* The window never reaches the modulus of accept() (64 and 2^48 - 1 in DTLS).
  /\ WindowSize <= MaxSeq
  \* A shift keeps every bit of the window (n % 64 <= 32, see FixedBigInt).
  /\ KeptBits(WindowSize) >= WindowSize

VARIABLES accepted,    \* the last check() said yes
          seq,         \* the number that check() saw
          latest_seq,  \* head of the window
          mask,        \* bit i: latest_seq - i has been accepted
          pending,     \* the caller holds a checked record it has not accepted
          delivered    \* history: how often each number was checked, then accepted

detectorVars == <<accepted, seq, latest_seq, mask, pending, delivered>>

DetectorInit ==
  /\ accepted = FALSE
  /\ seq = 0
  /\ latest_seq = 0
  /\ mask = {}
  /\ pending = FALSE
  /\ delivered = [s \in 0 .. MaxSeq |-> 0]

\* The answer of check(s).
CheckOk(s) ==
  /\ s <= MaxSeq
  /\ s <= latest_seq =>
       /\ latest_seq < WindowSize + s
       /\ ~MaskBit(mask, WindowSize, latest_seq - s)

\* A record with number s arrives (numbers above MaxSeq can be on the wire).
Check(s) ==
  /\ accepted' = CheckOk(s)
  /\ pending' = CheckOk(s)
  /\ seq' = IF CheckOk(s) THEN s ELSE seq
  /\ UNCHANGED <<latest_seq, mask, delivered>>

\* Faulty variant: the head moves but the bits are not shifted with it.
AcceptFault ==
  /\ pending
  /\ latest_seq' = IF seq > latest_seq THEN seq ELSE latest_seq
  /\ mask' = MaskSetBit(mask, WindowSize, (latest_seq' - seq) % MaxSeq)
  /\ delivered' = [delivered EXCEPT ![seq] = @ + 1]
  /\ pending' = FALSE
  /\ UNCHANGED <<accepted, seq>>

\* The record just checked authenticated: accept().  A record that does not
\* authenticate is dropped and followed by the Check of the next record.
Accept ==
  /\ pending
  /\ latest_seq' = IF accepted /\ seq > latest_seq THEN seq ELSE latest_seq
  /\ mask' = LET shifted == IF seq > latest_seq
                              THEN MaskLsh(mask, WindowSize, seq - latest_seq)
                              ELSE mask
             IN IF accepted
                  THEN MaskSetBit(shifted, WindowSize, (latest_seq' - seq) % MaxSeq)
                  ELSE mask
  /\ delivered' = [delivered EXCEPT ![seq] = @ + 1]
  /\ pending' = FALSE
  /\ UNCHANGED <<accepted, seq>>

DetectorNext ==
  \/ \E s \in 0 .. MaxSeq + 1 : Check(s)
  \/ Accept

DetectorSpec == DetectorInit /\ [][DetectorNext]_detectorVars

-----------------------------------------------------------------------------
DetectorTypeOK ==
  /\ accepted \in BOOLEAN
  /\ seq \in 0 .. MaxSeq
  /\ latest_seq \in 0 .. MaxSeq
  /\ mask \subseteq Nat
  /\ pending \in BOOLEAN
  /\ delivered \in [0 .. MaxSeq -> Nat]

\* "Check returns true if given sequence number is not replayed": no record
\* number is handed to the application twice.
NoReplay == \A s \in 0 .. MaxSeq : delivered[s] <= 1

\* A number that was never accepted and is not older than the window is
\* always let through: losing and reordering records costs no fresh record.
FreshAccepted ==
  \A s \in 0 .. MaxSeq :
    (delivered[s] = 0 /\ latest_seq - s < WindowSize) => CheckOk(s)

\* What DTLS relies on: the detector lets no record through twice and costs no
\* fresh one.
DetectorSound == NoReplay /\ FreshAccepted

-----------------------------------------------------------------------------
(* The inductive invariant: the window's bits are exactly the accepted     *)
(* numbers, and the number that is pending is still fresh.                 *)

\* Bits of the window that stand for an accepted number, and vice versa;
\* nothing above the head of the window was ever accepted.
WindowExact ==
  \A s \in 0 .. MaxSeq :
    /\ delivered[s] > 0 => s <= latest_seq
    /\ (s <= latest_seq /\ latest_seq - s < WindowSize) =>
         ((latest_seq - s) \in mask <=> delivered[s] > 0)

PendingFresh ==
  pending => /\ accepted
             /\ delivered[seq] = 0
             /\ latest_seq - seq < WindowSize

IInv == DetectorTypeOK /\ WindowExact /\ PendingFresh /\ NoReplay
=============================================================================
