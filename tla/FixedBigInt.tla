---------------------------- MODULE FixedBigInt ----------------------------
(***************************************************************************)
(* The fixed-size multi-word integer behind the replay windows             *)
(* (rtc-shared/src/replay_detector/fixed_big_int/mod.rs).                  *)
(*                                                                         *)
(* A word is the set of the positions of its 1 bits, a number is the       *)
(* function from word index to word.  WORD is the width of a machine word  *)
(* (64 in the code).                                                       *)
(***************************************************************************)
EXTENDS Integers

CONSTANT WORD

ASSUME WordAssumption == WORD \in Nat \ {0}

Chunks(n) == IF n = 0 THEN 1 ELSE (n + WORD - 1) \div WORD

\* The number of low bits that msb_mask keeps in the last word: all of them
\* when n is a multiple of the word, (1 << (64 - n % 64)) - 1 otherwise.
MsbMaskBits(n) == IF n % WORD = 0 THEN WORD ELSE WORD - (n % WORD)

New(n) == [i \in 0 .. Chunks(n) - 1 |-> {}]

WordShl(w, k) == {p + k : p \in w} \cap (0 .. WORD - 1)
WordShr(w, k) == {p - k : p \in {q \in w : q >= k}}

\* Faulty variant: no carry from the next lower word.
ShiftedWordFault(b, k, i) ==
  LET nChunk == k \div WORD
  IN (IF i - nChunk >= 0 THEN WordShl(b[i - nChunk], k % WORD) ELSE {})

\* What lsh leaves in word i before the last word is masked.  The loop runs
\* from the last word down, so every word it reads still has its old value.
ShiftedWord(b, k, i) ==
  LET nChunk == k \div WORD
      nN     == k % WORD
      carry  == (IF i - nChunk >= 0 THEN WordShl(b[i - nChunk], nN) ELSE {})
                \cup
                (IF i - nChunk > 0 /\ nN # 0
                   THEN WordShr(b[i - nChunk - 1], WORD - nN) ELSE {})
  IN IF k >= WORD THEN carry ELSE WordShl(b[i], k) \cup carry

Lsh(b, n, k) ==
  IF k = 0
    THEN b
    ELSE [i \in DOMAIN b |->
            IF i = Chunks(n) - 1
              THEN ShiftedWord(b, k, i) \cap (0 .. MsbMaskBits(n) - 1)
              ELSE ShiftedWord(b, k, i)]

Bit(b, n, i) == i < n /\ (i % WORD) \in b[i \div WORD]

SetBit(b, n, i) ==
  IF i >= n THEN b ELSE [b EXCEPT ![i \div WORD] = @ \cup {i % WORD}]

-----------------------------------------------------------------------------
(* The same integer as the set of its 1 bits: what the replay detectors    *)
(* are specified with.  SlidingWindowWords checks that the words hold it.    *)

\* The bits that survive a shift: the whole words and the masked last one.
KeptBits(n) == (Chunks(n) - 1) * WORD + MsbMaskBits(n)

MaskLsh(mask, n, k) ==
  IF k = 0 THEN mask ELSE {b + k : b \in mask} \cap (0 .. KeptBits(n) - 1)

MaskSetBit(mask, n, i) == IF i >= n THEN mask ELSE mask \cup {i}

\* Bit i of the set representation; i >= n reads as 0.
MaskBit(mask, n, i) == i < n /\ i \in mask
=============================================================================
