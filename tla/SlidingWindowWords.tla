------------------------- MODULE SlidingWindowWords -------------------------
(***************************************************************************)
(* The replay detector of SlidingWindowDetector as the code stores it: the *)
(* bits of the window are in the words of a FixedBigInt, and shifting and  *)
(* reading them is what FixedBigInt does.                                  *)
(***************************************************************************)
EXTENDS SlidingWindowDetector

VARIABLE words  \* mask, the FixedBigInt of the code

wordVars == <<detectorVars, words>>

WordsInit == DetectorInit /\ words = New(WindowSize)

\* check reads the words and changes none.
WordsCheck(s) == Check(s) /\ UNCHANGED words

\* accept: shift to the new head of the window, then set the bit of the number.
WordsAccept ==
  /\ Accept
  /\ words' = LET shifted == IF seq > latest_seq
                               THEN Lsh(words, WindowSize, seq - latest_seq)
                               ELSE words
              IN SetBit(shifted, WindowSize, (latest_seq' - seq) % MaxSeq)

WordsNext ==
  \/ \E s \in 0 .. MaxSeq + 1 : WordsCheck(s)
  \/ WordsAccept

WordsSpec == WordsInit /\ [][WordsNext]_wordVars

-----------------------------------------------------------------------------
\* The words hold exactly the bits of the window, and reading one is reading the
\* window: the carries of lsh lose and invent no bit between words, for every
\* sequence of shifts the detector asks for (fixed_big_int/mod.rs).
WordsAgree ==
  /\ mask = UNION {{i * WORD + p : p \in words[i]} : i \in DOMAIN words}
  /\ \A i \in 0 .. WindowSize + WORD : Bit(words, WindowSize, i) <=> MaskBit(mask, WindowSize, i)
=============================================================================
