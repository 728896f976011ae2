---------------------------- MODULE Replay_proof ----------------------------
(***************************************************************************)
(* The replay detectors and the streams they protect, for every window,    *)
(* every range of numbers and every width of a word.                       *)
(***************************************************************************)
EXTENDS MCReplay, TLAPS

-----------------------------------------------------------------------------
(***************************************************************************)
(* The detector of DTLS records.                                           *)
(***************************************************************************)
\* The two set operations on a mask, at the positions that are read: a shift by k
\* moves bit b to b + k, set_bit adds one bit.
LEMMA MaskOps ==
    ASSUME NEW n \in Nat, KeptBits(n) >= n, NEW m \in SUBSET Nat, NEW k \in Nat,
           NEW i \in Nat, i < n
    PROVE  /\ MaskLsh(m, n, k) \subseteq Nat
           /\ i \in MaskLsh(m, n, k) <=> (i >= k /\ i - k \in m)
<1>1. KeptBits(n) \in Int
  BY WordAssumption DEF KeptBits, Chunks, MsbMaskBits
<1>2. CASE k = 0
  BY <1>2 DEF MaskLsh
<1>3. CASE k # 0
  <2>1. MaskLsh(m, n, k) = {b + k : b \in m} \cap (0 .. KeptBits(n) - 1)
    BY <1>3 DEF MaskLsh
  <2>2. i \in 0 .. KeptBits(n) - 1
    BY <1>1
  <2>3. i \in {b + k : b \in m} <=> (i >= k /\ i - k \in m)
    <3>1. ASSUME NEW b \in m, i = b + k PROVE i >= k /\ i - k = b
      BY <3>1
    <3>2. ASSUME i - k \in m PROVE i = (i - k) + k
      OBVIOUS
    <3> QED BY <3>1, <3>2
  <2> QED BY <2>1, <2>2, <2>3
<1> QED BY <1>2, <1>3

\* At the start nothing was delivered and nothing is pending.
LEMMA InitIInv == DetectorInit => IInv
<1> SUFFICES ASSUME DetectorInit PROVE IInv
  OBVIOUS
<1>1. \A s \in 0 .. MaxSeq : delivered[s] = 0
  BY DEF DetectorInit
<1>2. DetectorTypeOK
  <2>1. accepted \in BOOLEAN /\ pending \in BOOLEAN
    BY Zenon DEF DetectorInit
  <2>2. seq \in 0 .. MaxSeq /\ latest_seq \in 0 .. MaxSeq
    BY WindowAssumption DEF DetectorInit
  <2>3. mask \subseteq Nat /\ delivered \in [0 .. MaxSeq -> Nat]
    BY DEF DetectorInit
  <2> QED BY <2>1, <2>2, <2>3 DEF DetectorTypeOK
<1>3. WindowExact /\ NoReplay
  BY <1>1 DEF DetectorInit, WindowExact, NoReplay
<1> QED BY <1>2, <1>3 DEF DetectorInit, IInv, PendingFresh

\* check changes no bit, and a number it passes was not delivered.
LEMMA CheckIInv ==
  ASSUME IInv, NEW s \in 0 .. MaxSeq + 1, Check(s)
  PROVE  IInv'
<1> USE WindowAssumption
<1>1. CASE CheckOk(s)
  <2>1. s \in 0 .. MaxSeq /\ seq' = s /\ accepted' = TRUE /\ pending' = TRUE
    BY <1>1 DEF Check, CheckOk
  <2>2. UNCHANGED <<latest_seq, mask, delivered>>
    BY DEF Check
  <2>3. delivered[s] = 0 /\ latest_seq - s < WindowSize
    BY <1>1, <2>1 DEF IInv, DetectorTypeOK, WindowExact, CheckOk, MaskBit
  <2> QED BY <2>1, <2>2, <2>3, Zenon DEF IInv, DetectorTypeOK, WindowExact, PendingFresh, NoReplay
<1>2. CASE ~CheckOk(s)
  <2>1. UNCHANGED <<seq, latest_seq, mask, delivered>>
    BY <1>2 DEF Check
  <2>2. accepted' = FALSE /\ pending' = FALSE
    BY <1>2 DEF Check
  <2>3. DetectorTypeOK' /\ PendingFresh'
    BY <2>1, <2>2, Zenon DEF IInv, DetectorTypeOK, PendingFresh
  <2>4. WindowExact' /\ NoReplay'
    BY <2>1 DEF IInv, WindowExact, NoReplay
  <2> QED BY <2>3, <2>4 DEF IInv
<1> QED BY <1>1, <1>2

\* accept moves the head of the window and sets the bit of the number pending.
LEMMA AcceptIInv ==
  ASSUME IInv, Accept
  PROVE  IInv'
<1> USE WindowAssumption
<1>1. /\ accepted /\ delivered[seq] = 0 /\ latest_seq - seq < WindowSize
      /\ seq \in 0 .. MaxSeq /\ latest_seq \in 0 .. MaxSeq /\ mask \subseteq Nat
      /\ delivered \in [0 .. MaxSeq -> Nat]
  BY DEF Accept, IInv, PendingFresh, DetectorTypeOK
<1>2. delivered' \in [0 .. MaxSeq -> Nat] /\ NoReplay'
  <2>1. delivered' = [delivered EXCEPT ![seq] = 1]
    BY <1>1 DEF Accept
  <2>2. delivered' \in [0 .. MaxSeq -> Nat]
    BY <1>1, <2>1
  <2>3. \A s \in 0 .. MaxSeq : delivered'[s] <= 1
    BY <1>1, <2>1 DEF IInv, NoReplay
  <2> QED BY <2>2, <2>3 DEF NoReplay
<1>3. \A s \in 0 .. MaxSeq : delivered'[s] > 0 <=> (s = seq \/ delivered[s] > 0)
  BY <1>1 DEF Accept
<1>4. CASE seq > latest_seq
  <2>1. latest_seq' = seq /\ (latest_seq' - seq) % MaxSeq = 0
    BY <1>1, <1>4 DEF Accept
  <2>2. mask' = MaskLsh(mask, WindowSize, seq - latest_seq) \cup {0}
    BY <1>1, <1>4, <2>1 DEF Accept, MaskSetBit
  <2>3. seq - latest_seq \in Nat
    BY <1>1, <1>4
  <2>4. mask' \subseteq Nat
    <3>1. 0 \in Nat /\ 0 < WindowSize
      OBVIOUS
    <3>2. MaskLsh(mask, WindowSize, seq - latest_seq) \subseteq Nat
      BY <1>1, <2>3, <3>1, MaskOps, WindowAssumption, Zenon
    <3> QED BY <2>2, <3>2
  <2>5. ASSUME NEW s \in 0 .. MaxSeq, s <= seq, seq - s < WindowSize
        PROVE  (seq - s) \in mask' <=> delivered'[s] > 0
    <3>1. seq - s \in Nat /\ seq - s < WindowSize
      BY <1>1, <2>5
    <3>2. (seq - s) \in MaskLsh(mask, WindowSize, seq - latest_seq)
            <=> (s <= latest_seq /\ latest_seq - s \in mask)
      <4>1. (seq - s) \in MaskLsh(mask, WindowSize, seq - latest_seq)
              <=> (/\ seq - s >= seq - latest_seq
                   /\ (seq - s) - (seq - latest_seq) \in mask)
        BY <1>1, <2>3, <3>1, MaskOps, WindowAssumption, Zenon
      <4>2. (seq - s) - (seq - latest_seq) = latest_seq - s
        BY <1>1
      <4> QED BY <1>1, <4>1, <4>2
    <3>3. seq - s = 0 <=> s = seq
      BY <1>1
    <3>4. s <= latest_seq => latest_seq - s < WindowSize
      BY <1>1, <1>4, <2>5
    <3>5. s <= latest_seq => ((latest_seq - s) \in mask <=> delivered[s] > 0)
      BY <3>4 DEF IInv, WindowExact
    <3>6. delivered[s] > 0 => s <= latest_seq
      BY DEF IInv, WindowExact
    <3> QED BY <1>3, <2>2, <3>2, <3>3, <3>5, <3>6
  <2>6. \A s \in 0 .. MaxSeq : delivered'[s] > 0 => s <= latest_seq'
    BY <1>1, <1>3, <1>4, <2>1 DEF IInv, WindowExact
  <2>7. WindowExact'
    BY <2>1, <2>5, <2>6 DEF WindowExact
  <2> QED BY <1>1, <1>2, <2>1, <2>4, <2>7, Zenon DEF Accept, IInv, DetectorTypeOK, PendingFresh
<1>5. CASE ~(seq > latest_seq)
  <2>1. latest_seq' = latest_seq /\ (latest_seq - seq) % MaxSeq = latest_seq - seq
    <3>1. latest_seq - seq \in 0 .. MaxSeq - 1
      BY <1>1, <1>5
    <3>2. latest_seq' = latest_seq
      BY <1>5 DEF Accept
    <3> QED BY <3>1, <3>2
  <2>2. mask' = mask \cup {latest_seq - seq}
    BY <1>1, <1>5, <2>1 DEF Accept, MaskSetBit
  <2>3. mask' \subseteq Nat
    BY <1>1, <1>5, <2>2
  <2>4. WindowExact'
    BY <1>1, <1>3, <1>5, <2>1, <2>2 DEF IInv, WindowExact
  <2> QED BY <1>1, <1>2, <2>1, <2>3, <2>4, Zenon DEF Accept, IInv, DetectorTypeOK, PendingFresh
<1> QED BY <1>4, <1>5

-----------------------------------------------------------------------------
(***************************************************************************)
(* The words of FixedBigInt hold the mask.                                 *)
(***************************************************************************)
Words(n) == [0 .. Chunks(n) - 1 -> SUBSET (0 .. WORD - 1)]

BitsOf(w) == UNION {{i * WORD + p : p \in w[i]} : i \in DOMAIN w}

\* Bit k is bit k % WORD of word k \div WORD.
LEMMA Position ==
    ASSUME NEW k \in Nat
    PROVE  k \div WORD \in Nat /\ k % WORD \in 0 .. WORD - 1 /\ k = (k \div WORD) * WORD + (k % WORD)
BY WordAssumption

\* A bit has one position.
LEMMA OnePosition ==
    ASSUME NEW i \in Int, NEW j \in Int, NEW p \in 0 .. WORD - 1, NEW q \in 0 .. WORD - 1,
           i * WORD + p = j * WORD + q
    PROVE  i = j /\ p = q
<1> DEFINE c == i - j
<1>1. WORD \in Nat /\ WORD > 0 /\ c \in Int /\ c * WORD \in Int /\ c * WORD = i * WORD - j * WORD
  BY WordAssumption
<1>2. c * WORD = q - p
  BY <1>1
<1> HIDE DEF c
<1>3. (c >= 1 => c * WORD >= WORD) /\ (c <= -1 => c * WORD <= -WORD)
  BY <1>1
<1>4. c = 0
  BY <1>1, <1>2, <1>3
<1>5. p = q
  BY <1>2, <1>4, <1>1
<1>6. i = j
  BY <1>4 DEF c
<1> QED BY <1>5, <1>6

\* The sizes of a number of n bits: its words, and the bits a shift keeps.
LEMMA WordSizes ==
    ASSUME NEW n \in Nat \ {0}
    PROVE  /\ Chunks(n) \in Nat \ {0} /\ MsbMaskBits(n) \in 1 .. WORD
           /\ KeptBits(n) = (Chunks(n) - 1) * WORD + MsbMaskBits(n)
           /\ \A k \in Nat : k < n => k \div WORD \in 0 .. Chunks(n) - 1
<1> DEFINE c == (n + WORD - 1) \div WORD
<1>1. n + WORD - 1 \in Nat /\ n + WORD - 1 >= WORD /\ WORD \in Nat /\ WORD > 0
  BY WordAssumption
<1>2. c \in Nat /\ n + WORD - 1 = c * WORD + ((n + WORD - 1) % WORD)
      /\ (n + WORD - 1) % WORD \in 0 .. WORD - 1
  BY <1>1, Position
<1>3. Chunks(n) = c
  BY DEF Chunks
<1> HIDE DEF c
<1>4. c * WORD >= n /\ c * WORD \in Nat
  BY <1>1, <1>2
<1>5. c # 0
  BY <1>1, <1>4
<1>6. ASSUME NEW k \in Nat, k < n PROVE k \div WORD \in 0 .. c - 1
  <2> DEFINE d == k \div WORD
  <2>1. d \in Nat /\ k % WORD \in 0 .. WORD - 1 /\ k = d * WORD + (k % WORD)
    BY Position
  <2> HIDE DEF d
  <2>2. d * WORD < c * WORD
    BY <1>1, <1>4, <1>6, <2>1
  <2>3. d >= c => d * WORD >= c * WORD
    BY <1>1, <1>2, <2>1
  <2>4. d < c
    BY <1>1, <1>2, <1>4, <2>1, <2>2, <2>3
  <2> QED BY <1>2, <2>1, <2>4 DEF d
<1>7. MsbMaskBits(n) \in 1 .. WORD
  <2>1. n % WORD \in 0 .. WORD - 1
    BY Position
  <2> QED BY <1>1, <2>1 DEF MsbMaskBits
<1> QED BY <1>2, <1>3, <1>5, <1>6, <1>7 DEF KeptBits

\* A bit of a number, by its position.
LEMMA BitAt ==
    ASSUME NEW n \in Nat \ {0}, NEW w \in Words(n), NEW i \in Int, NEW p \in 0 .. WORD - 1
    PROVE  i * WORD + p \in BitsOf(w) <=> i \in 0 .. Chunks(n) - 1 /\ p \in w[i]
<1>1. DOMAIN w = 0 .. Chunks(n) - 1 /\ \A j \in 0 .. Chunks(n) - 1 : w[j] \subseteq 0 .. WORD - 1
  BY DEF Words
<1>2. ASSUME i \in 0 .. Chunks(n) - 1, p \in w[i] PROVE i * WORD + p \in BitsOf(w)
  BY <1>1, <1>2 DEF BitsOf
<1>3. ASSUME i * WORD + p \in BitsOf(w) PROVE i \in 0 .. Chunks(n) - 1 /\ p \in w[i]
  <2>1. PICK j \in 0 .. Chunks(n) - 1 : \E q \in w[j] : i * WORD + p = j * WORD + q
    BY <1>1, <1>3, Zenon DEF BitsOf
  <2>2. PICK q \in w[j] : i * WORD + p = j * WORD + q
    BY <2>1, Zenon
  <2>3. j \in Int /\ q \in 0 .. WORD - 1
    BY <1>1, WordSizes
  <2>4. i = j /\ p = q
    BY <2>2, <2>3, OnePosition
  <2> QED BY <2>4, Zenon
<1> QED BY <1>2, <1>3, Zenon

\* Bits are natural numbers.
LEMMA BitsNat ==
    ASSUME NEW n \in Nat \ {0}, NEW w \in Words(n)
    PROVE  BitsOf(w) \subseteq Nat
<1>1. DOMAIN w = 0 .. Chunks(n) - 1 /\ \A j \in 0 .. Chunks(n) - 1 : w[j] \subseteq 0 .. WORD - 1
  BY DEF Words
<1>2. ASSUME NEW j \in 0 .. Chunks(n) - 1, NEW q \in w[j] PROVE j * WORD + q \in Nat
  <2>1. j \in Nat /\ WORD \in Nat /\ q \in Nat
    BY <1>1, WordSizes, WordAssumption
  <2> QED BY <2>1
<1> QED BY <1>1, <1>2 DEF BitsOf

\* set_bit adds one bit.
LEMMA SetBitBits ==
    ASSUME NEW n \in Nat \ {0}, NEW w \in Words(n), NEW k \in Nat
    PROVE  SetBit(w, n, k) \in Words(n) /\ BitsOf(SetBit(w, n, k)) = MaskSetBit(BitsOf(w), n, k)
<1>1. CASE k >= n
  BY <1>1 DEF SetBit, MaskSetBit
<1>2. CASE ~(k >= n)
  <2> DEFINE i == k \div WORD
             p == k % WORD
             v == w[i] \cup {p}
             e == SetBit(w, n, k)
  <2>1. i \in 0 .. Chunks(n) - 1 /\ p \in 0 .. WORD - 1 /\ k = i * WORD + p
    BY <1>2, Position, WordSizes
  <2>2. e = [w EXCEPT ![i] = v] /\ MaskSetBit(BitsOf(w), n, k) = BitsOf(w) \cup {k}
    BY <1>2, Zenon DEF SetBit, MaskSetBit
  <2> HIDE DEF i, p, e
  <2>3. DOMAIN w = 0 .. Chunks(n) - 1 /\ \A j \in 0 .. Chunks(n) - 1 : w[j] \subseteq 0 .. WORD - 1
    BY DEF Words
  <2>4. v \subseteq 0 .. WORD - 1
    BY <2>1, <2>3, Zenon
  <2>5. e \in Words(n)
    BY <2>1, <2>2, <2>4 DEF Words
  <2>6. DOMAIN e = DOMAIN w /\ \A j \in 0 .. Chunks(n) - 1 : e[j] = IF j = i THEN w[j] \cup {p} ELSE w[j]
    BY <2>2, <2>3
  <2>7. BitsOf(e) = BitsOf(w) \cup {i * WORD + p}
    <3>1. ASSUME NEW j \in 0 .. Chunks(n) - 1, NEW q \in e[j]
          PROVE  j * WORD + q \in BitsOf(w) \cup {i * WORD + p}
      <4>1. q \in w[j] \/ (j = i /\ q = p)
        BY <2>6, Zenon
      <4> QED BY <2>3, <4>1 DEF BitsOf
    <3>2. ASSUME NEW j \in 0 .. Chunks(n) - 1, NEW q \in w[j] PROVE j * WORD + q \in BitsOf(e)
      <4>1. q \in e[j]
        BY <2>6, Zenon
      <4> QED BY <2>3, <2>6, <4>1 DEF BitsOf
    <3>3. i * WORD + p \in BitsOf(e)
      <4>1. p \in e[i]
        BY <2>1, <2>6, Zenon
      <4> QED BY <2>1, <2>3, <2>6, <4>1 DEF BitsOf
    <3> QED BY <2>3, <2>6, <3>1, <3>2, <3>3 DEF BitsOf
  <2> QED BY <2>1, <2>2, <2>5, <2>7, Zenon DEF e
<1> QED BY <1>1, <1>2, Zenon

\* A word of a number that is shifted holds the bits k places below its own.
LEMMA ShiftedBit ==
    ASSUME NEW n \in Nat \ {0}, NEW w \in Words(n), NEW k \in Nat \ {0},
           NEW i \in 0 .. Chunks(n) - 1, NEW p \in 0 .. WORD - 1
    PROVE  p \in ShiftedWord(w, k, i) <=> i * WORD + p - k \in BitsOf(w)
<1> DEFINE c == k \div WORD
           r == k % WORD
           j == i - c
           low == IF j >= 0 THEN WordShl(w[j], r) ELSE {}
           high == IF j > 0 /\ r # 0 THEN WordShr(w[j - 1], WORD - r) ELSE {}
<1>1. c \in Nat /\ r \in 0 .. WORD - 1 /\ k = c * WORD + r
  BY Position
<1>2. Chunks(n) \in Nat /\ i \in Int /\ j \in Int /\ j <= Chunks(n) - 1 /\ WORD \in Nat
  BY <1>1, WordSizes, WordAssumption
<1>3. \A q \in 0 .. Chunks(n) - 1 : w[q] \subseteq 0 .. WORD - 1
  BY DEF Words
<1>4. p \in ShiftedWord(w, k, i) <=> p \in low \cup high
  <2>1. CASE k >= WORD
    BY <2>1, Zenon DEF ShiftedWord
  <2>2. CASE ~(k >= WORD)
    <3>1. ShiftedWord(w, k, i) = WordShl(w[i], k) \cup (low \cup high)
      BY <2>2, Zenon DEF ShiftedWord
    <3>2. c = 0
      <4>1. c >= 1 => c * WORD >= WORD
        BY <1>1, <1>2
      <4> QED BY <1>1, <1>2, <2>2, <4>1
    <3> HIDE DEF c, r
    <3>3. r = k /\ j = i /\ i >= 0
      BY <1>1, <1>2, <3>2
    <3>4. low = WordShl(w[i], k)
      BY <3>3, Zenon
    <3> QED BY <3>1, <3>4, Zenon
  <2> QED BY <2>1, <2>2, Zenon
<1> HIDE DEF c, r
<1>5. i * WORD + p - k = j * WORD + (p - r) /\ (j - 1) * WORD + (p - r + WORD) = j * WORD + (p - r)
  <2>1. i * WORD \in Int /\ c * WORD \in Int /\ j * WORD = i * WORD - c * WORD
        /\ (j - 1) * WORD = j * WORD - WORD
    BY <1>1, <1>2
  <2> HIDE DEF j
  <2> QED BY <1>1, <1>2, <2>1
<1> HIDE DEF j
<1>6. CASE p >= r
  <2>1. p \in low <=> j >= 0 /\ p - r \in w[j]
    <3>1. j >= 0 => (p \in WordShl(w[j], r) <=> p - r \in w[j])
      <4> SUFFICES ASSUME j >= 0 PROVE p \in WordShl(w[j], r) <=> p - r \in w[j]
        OBVIOUS
      <4>1. w[j] \subseteq 0 .. WORD - 1
        BY <1>2, <1>3
      <4>2. \A q \in w[j] : p = q + r <=> q = p - r
        BY <1>1, <4>1
      <4> QED BY <4>2, Zenon DEF WordShl
    <3> QED BY <3>1, Zenon
  <2>2. p \notin high
    <3> SUFFICES ASSUME j > 0, NEW q \in w[j - 1], q >= WORD - r, p = q - (WORD - r) PROVE FALSE
      BY Zenon DEF WordShr
    <3>1. q \in 0 .. WORD - 1
      BY <1>2, <1>3
    <3> QED BY <1>1, <1>2, <1>6, <3>1
  <2>3. p - r \in 0 .. WORD - 1
    BY <1>1, <1>2, <1>6
  <2>4. i * WORD + p - k \in BitsOf(w) <=> j \in 0 .. Chunks(n) - 1 /\ p - r \in w[j]
    BY <1>2, <1>5, <2>3, BitAt, Zenon
  <2>5. j \in 0 .. Chunks(n) - 1 <=> j >= 0
    BY <1>2
  <2> QED BY <1>4, <2>1, <2>2, <2>4, <2>5, Zenon
<1>7. CASE ~(p >= r)
  <2>1. p \in high <=> j > 0 /\ p - r + WORD \in w[j - 1]
    <3>0. r # 0 /\ r > p
      BY <1>1, <1>7
    <3>1. j > 0 => (p \in WordShr(w[j - 1], WORD - r) <=> p - r + WORD \in w[j - 1])
      <4> SUFFICES ASSUME j > 0 PROVE p \in WordShr(w[j - 1], WORD - r) <=> p - r + WORD \in w[j - 1]
        OBVIOUS
      <4>1. w[j - 1] \subseteq 0 .. WORD - 1
        BY <1>2, <1>3
      <4>2. \A q \in w[j - 1] : q >= WORD - r /\ p = q - (WORD - r) <=> q = p - r + WORD
        BY <1>1, <1>2, <4>1
      <4> QED BY <4>2, Zenon DEF WordShr
    <3> QED BY <3>0, <3>1, Zenon
  <2>2. p \notin low
    <3> SUFFICES ASSUME j >= 0, NEW q \in w[j], p = q + r PROVE FALSE
      BY Zenon DEF WordShl
    <3>1. q \in 0 .. WORD - 1
      BY <1>2, <1>3
    <3> QED BY <1>1, <1>2, <1>7, <3>1
  <2>3. p - r + WORD \in 0 .. WORD - 1 /\ j - 1 \in Int
    BY <1>1, <1>2, <1>7
  <2>4. i * WORD + p - k \in BitsOf(w) <=> j - 1 \in 0 .. Chunks(n) - 1 /\ p - r + WORD \in w[j - 1]
    BY <1>5, <2>3, BitAt, Zenon
  <2>5. j - 1 \in 0 .. Chunks(n) - 1 <=> j > 0
    BY <1>2
  <2> QED BY <1>4, <2>1, <2>2, <2>4, <2>5, Zenon
<1> QED BY <1>6, <1>7, Zenon

\* lsh shifts the bits, and drops those that the last word does not keep.
LEMMA LshBits ==
    ASSUME NEW n \in Nat \ {0}, NEW w \in Words(n), NEW k \in Nat
    PROVE  Lsh(w, n, k) \in Words(n) /\ BitsOf(Lsh(w, n, k)) = MaskLsh(BitsOf(w), n, k)
<1>1. CASE k = 0
  BY <1>1 DEF Lsh, MaskLsh
<1>2. CASE k # 0
  <2> DEFINE e == Lsh(w, n, k)
             D == 0 .. Chunks(n) - 1
             kept(i) == IF i = Chunks(n) - 1 THEN ShiftedWord(w, k, i) \cap (0 .. MsbMaskBits(n) - 1)
                                             ELSE ShiftedWord(w, k, i)
  <2>1. DOMAIN w = D /\ \A j \in D : w[j] \subseteq 0 .. WORD - 1
    BY DEF Words
  <2>2. e = [i \in D |-> kept(i)]
    BY <1>2, <2>1, Zenon DEF Lsh
  <2>3. \A i \in D : ShiftedWord(w, k, i) \subseteq 0 .. WORD - 1
    <3> SUFFICES ASSUME NEW i \in D, NEW p \in ShiftedWord(w, k, i) PROVE p \in 0 .. WORD - 1
      BY Zenon
    <3> DEFINE c == k \div WORD
               r == k % WORD
    <3>1. c \in Nat /\ r \in 0 .. WORD - 1 /\ i \in Int /\ Chunks(n) \in Nat /\ WORD \in Nat
      BY Position, WordSizes, WordAssumption
    <3> HIDE DEF c, r
    <3>2. \/ \E v : p \in WordShl(v, k) \/ p \in WordShl(v, r)
          \/ i - c > 0 /\ p \in WordShr(w[i - c - 1], WORD - r)
      BY Zenon DEF ShiftedWord, c, r
    <3>3. CASE \E v : p \in WordShl(v, k) \/ p \in WordShl(v, r)
      BY <3>3, Zenon DEF WordShl
    <3>4. CASE i - c > 0 /\ p \in WordShr(w[i - c - 1], WORD - r)
      <4>1. i - c - 1 \in D
        BY <3>1, <3>4
      <4>2. PICK q \in w[i - c - 1] : q >= WORD - r /\ p = q - (WORD - r)
        BY <3>4, Zenon DEF WordShr
      <4>3. q \in 0 .. WORD - 1
        BY <2>1, <4>1, Zenon
      <4> QED BY <3>1, <4>2, <4>3
    <3> QED BY <3>2, <3>3, <3>4, Zenon
  <2>4. \A i \in D : kept(i) \subseteq 0 .. WORD - 1
    BY <2>3, Zenon
  <2>5. e \in Words(n)
    <3> HIDE DEF e, kept
    <3> QED BY <2>2, <2>4, Zenon DEF Words
  <2>6. \A i \in D : e[i] = kept(i)
    <3> HIDE DEF e, kept, D
    <3> QED BY <2>2, Zenon
  <2> HIDE DEF e
  <2>7. ASSUME NEW x \in Nat
        PROVE  x \in BitsOf(e) <=> x \in MaskLsh(BitsOf(w), n, k)
    <3> DEFINE i == x \div WORD
               p == x % WORD
               l == Chunks(n) - 1
    <3>1. i \in Nat /\ p \in 0 .. WORD - 1 /\ x = i * WORD + p /\ WORD \in Nat /\ i \in Int
      BY Position, WordAssumption
    <3>2. l \in Nat /\ MsbMaskBits(n) \in 1 .. WORD /\ KeptBits(n) = l * WORD + MsbMaskBits(n)
      BY WordSizes
    <3> HIDE DEF i, p, l
    <3>3. x \in BitsOf(e) <=> i \in D /\ p \in e[i]
      BY <2>5, <3>1, BitAt, Zenon
    <3>4. i \in D => (p \in e[i] <=> x - k \in BitsOf(w) /\ (i = l => p < MsbMaskBits(n)))
      <4> SUFFICES ASSUME i \in D
                   PROVE  p \in e[i] <=> x - k \in BitsOf(w) /\ (i = l => p < MsbMaskBits(n))
        OBVIOUS
      <4>1. p \in ShiftedWord(w, k, i) <=> x - k \in BitsOf(w)
        <5>1. k \in Nat \ {0}
          BY <1>2
        <5>2. p \in ShiftedWord(w, k, i) <=> i * WORD + p - k \in BitsOf(w)
          BY <3>1, <5>1, ShiftedBit, Zenon
        <5>3. i * WORD + p - k = x - k
          BY <3>1
        <5> QED BY <5>2, <5>3
      <4>2. p \in 0 .. MsbMaskBits(n) - 1 <=> p < MsbMaskBits(n)
        BY <3>1, <3>2
      <4> QED BY <2>6, <4>1, <4>2, Zenon DEF l
    <3>5. i \in D /\ (i = l => p < MsbMaskBits(n)) <=> x < KeptBits(n)
      <4>1. l * WORD \in Nat /\ i * WORD \in Nat /\ (l + 1) * WORD = l * WORD + WORD
        BY <3>1, <3>2
      <4>2. i < l => i * WORD <= l * WORD - WORD
        <5>1. i < l => (l - 1 - i) * WORD \in Nat /\ (l - 1 - i) * WORD = l * WORD - WORD - i * WORD
          BY <3>1, <3>2
        <5> QED BY <3>1, <4>1, <5>1
      <4>3. i > l => i * WORD >= l * WORD + WORD
        <5>1. i > l => (i - l - 1) * WORD \in Nat /\ (i - l - 1) * WORD = i * WORD - l * WORD - WORD
          BY <3>1, <3>2
        <5> QED BY <3>1, <4>1, <5>1
      <4>4. D = 0 .. l
        BY DEF l
      <4> HIDE DEF D
      <4>5. CASE i < l
        BY <3>1, <3>2, <4>1, <4>2, <4>4, <4>5
      <4>6. CASE i = l
        BY <3>1, <3>2, <4>1, <4>4, <4>6
      <4>7. CASE i > l
        BY <3>1, <3>2, <4>1, <4>3, <4>4, <4>7
      <4> QED BY <3>1, <3>2, <4>5, <4>6, <4>7
    <3>6. x \in MaskLsh(BitsOf(w), n, k) <=> x - k \in BitsOf(w) /\ x < KeptBits(n)
      <4>1. \A b \in BitsOf(w) : x = b + k <=> b = x - k
        BY BitsNat
      <4>2. l * WORD \in Int /\ KeptBits(n) \in Int
        BY <3>1, <3>2
      <4>3. x \in 0 .. KeptBits(n) - 1 <=> x < KeptBits(n)
        BY <4>2
      <4> QED BY <1>2, <4>1, <4>3, Zenon DEF MaskLsh
    <3> QED BY <3>3, <3>4, <3>5, <3>6, Zenon
  <2>8. BitsOf(e) \subseteq Nat /\ MaskLsh(BitsOf(w), n, k) \subseteq Nat
    <3>1. \A b \in BitsOf(w) : b + k \in Nat
      BY BitsNat
    <3> QED BY <1>2, <2>5, <3>1, BitsNat, Zenon DEF MaskLsh
  <2> QED BY <2>5, <2>7, <2>8, Zenon DEF e
<1> QED BY <1>1, <1>2, Zenon

\* The words are those of a number of WindowSize bits, and hold the mask.
WordsInv == IInv /\ words \in Words(WindowSize) /\ mask = BitsOf(words)

\* The words are empty at the start.
LEMMA WordsInitial == WordsInit => WordsInv
<1> SUFFICES ASSUME WordsInit PROVE WordsInv
  OBVIOUS
<1>1. IInv /\ mask = {} /\ words = New(WindowSize)
  BY InitIInv DEF WordsInit, DetectorInit
<1>2. words \in Words(WindowSize)
  BY <1>1 DEF New, Words
<1>3. \A i \in DOMAIN words : words[i] = {}
  BY <1>1 DEF New
<1>4. BitsOf(words) = {}
  BY <1>3, Zenon DEF BitsOf
<1> QED BY <1>1, <1>2, <1>4, Zenon DEF WordsInv

\* accept does the same to the words and to the mask.
LEMMA WordsStep == WordsInv /\ [WordsNext]_wordVars => WordsInv'
<1> SUFFICES ASSUME WordsInv, [WordsNext]_wordVars PROVE WordsInv'
  OBVIOUS
<1>1. IInv /\ words \in Words(WindowSize) /\ mask = BitsOf(words)
  BY Zenon DEF WordsInv
<1>2. ASSUME NEW s \in 0 .. MaxSeq + 1, WordsCheck(s) PROVE WordsInv'
  <2>1. Check(s) /\ words' = words /\ mask' = mask
    BY <1>2, Zenon DEF WordsCheck, Check
  <2> QED BY <1>1, <2>1, CheckIInv, Zenon DEF WordsInv
<1>3. CASE WordsAccept
  <2> DEFINE k == seq - latest_seq
             r == (latest_seq' - seq) % MaxSeq
             v == IF seq > latest_seq THEN Lsh(words, WindowSize, k) ELSE words
             u == IF seq > latest_seq THEN MaskLsh(mask, WindowSize, k) ELSE mask
  <2>1. Accept /\ accepted
    BY <1>1, <1>3, Zenon DEF WordsAccept, Accept, IInv, PendingFresh
  <2>2. words' = SetBit(v, WindowSize, r) /\ mask' = MaskSetBit(u, WindowSize, r)
    BY <1>3, <2>1, Zenon DEF WordsAccept, Accept
  <2>3. seq \in Nat /\ latest_seq \in Nat /\ latest_seq' \in Nat /\ r \in Nat
        /\ WindowSize \in Nat \ {0}
    <3>1. seq \in Nat /\ latest_seq \in Nat
      BY <1>1 DEF IInv, DetectorTypeOK
    <3>2. latest_seq' \in Nat
      BY <2>1, <3>1 DEF Accept
    <3>3. latest_seq' - seq \in Int /\ MaxSeq \in Nat \ {0}
      BY <3>1, <3>2, WindowAssumption
    <3>4. r \in Nat
      BY <3>3
    <3> QED BY <3>1, <3>2, <3>4, WindowAssumption, Zenon
  <2>4. v \in Words(WindowSize) /\ BitsOf(v) = u
    <3>1. seq > latest_seq => k \in Nat
      BY <2>3
    <3> HIDE DEF k
    <3> QED BY <1>1, <2>3, <3>1, LshBits, Zenon
  <2> HIDE DEF v, u, r
  <2>5. words' \in Words(WindowSize) /\ mask' = BitsOf(words')
    BY <2>2, <2>3, <2>4, SetBitBits, Zenon
  <2>6. IInv'
    BY <1>1, <2>1, AcceptIInv, Zenon
  <2> QED BY <2>5, <2>6, Zenon DEF WordsInv
<1>4. CASE UNCHANGED wordVars
  <2>1. /\ UNCHANGED <<accepted, seq, latest_seq, mask, pending, delivered, words>>
    BY <1>4 DEF wordVars, detectorVars
  <2>2. IInv'
    BY <1>1, <2>1 DEF IInv, DetectorTypeOK, WindowExact, PendingFresh, NoReplay
  <2> QED BY <1>1, <2>1, <2>2, Zenon DEF WordsInv
<1> QED BY <1>2, <1>3, <1>4, Zenon DEF WordsNext

\* What the invariant says of the words and of the detector.
LEMMA WordsHold == WordsInv => WordsAgree /\ DetectorSound
<1> SUFFICES ASSUME WordsInv PROVE WordsAgree /\ DetectorSound
  OBVIOUS
<1>1. IInv /\ words \in Words(WindowSize) /\ mask = BitsOf(words)
  BY Zenon DEF WordsInv
<1>2. NoReplay /\ FreshAccepted
  BY <1>1, WindowAssumption
  DEF IInv, DetectorTypeOK, WindowExact, NoReplay, FreshAccepted, CheckOk, MaskBit
<1>3. ASSUME NEW i \in 0 .. WindowSize + WORD
      PROVE  Bit(words, WindowSize, i) <=> MaskBit(mask, WindowSize, i)
  <2>1. i \in Nat /\ WindowSize \in Nat \ {0}
    BY WindowAssumption, WordAssumption
  <2>2. i \div WORD \in Nat /\ i % WORD \in 0 .. WORD - 1 /\ i = (i \div WORD) * WORD + (i % WORD)
    BY <2>1, Position, Zenon
  <2>3. i < WindowSize => i \div WORD \in 0 .. Chunks(WindowSize) - 1
    BY <2>1, WordSizes, Zenon
  <2>4. i \div WORD \in Int
    BY <2>2
  <2> DEFINE a == i \div WORD
             b == i % WORD
  <2>5. a * WORD + b \in BitsOf(words) <=> a \in 0 .. Chunks(WindowSize) - 1 /\ b \in words[a]
    BY <1>1, <2>1, <2>2, <2>4, BitAt, Zenon
  <2>6. i = a * WORD + b /\ (i < WindowSize => a \in 0 .. Chunks(WindowSize) - 1)
    BY <2>2, <2>3, Zenon
  <2> QED BY <1>1, <2>5, <2>6, Zenon DEF Bit, MaskBit
<1> QED BY <1>1, <1>2, <1>3, Zenon DEF WordsAgree, DetectorSound, BitsOf
-----------------------------------------------------------------------------
(***************************************************************************)
(* The window of the wrapping detector.  Packets have places in a stream   *)
(* without end; a number stands for the places that are congruent to it.   *)
(***************************************************************************)
Half == max_seq \div 2

Stands(l, x) == \E k \in Int : x = k * M + l

\* The head of the window is at place h.  Of the places N that can arrive, those
\* of T were accepted, those of C without a bit being set; the bits of the window
\* are the accepted places.
Window(d, h, N, T, C) ==
    /\ d \in Detector /\ Stands(d.latest_seq, h)
    /\ C \subseteq T /\ T \subseteq N
    /\ \A x \in T : x <= h
    /\ \A x \in N : h - x \in 0 .. window_size - 1 =>
        /\ h - x \in d.mask => x \in T
        /\ x \in T \ C => h - x \in d.mask

\* Facts of arithmetic about the sizes.
LEMMA Sizes ==
    /\ max_seq \in Nat /\ M \in Nat /\ max_seq = M - 1 /\ M > 1
    /\ Half \in Nat /\ 2 * Half <= max_seq /\ 2 * Half >= max_seq - 1
    /\ window_size \in Nat /\ window_size > 0 /\ window_size <= Half
BY DetectorAssumption, SrtpAssumption, WindowFits DEF M, Half

\* Numbers that stand for places less than a cycle apart differ as those do, or by
\* a cycle more or less.
LEMMA Differ ==
    ASSUME NEW l \in 0 .. max_seq, NEW s \in 0 .. max_seq, NEW h \in Int, NEW x \in Int,
           Stands(l, h), Stands(s, x), h - x \in -M .. M
    PROVE  l - s \in {h - x, h - x + M, h - x - M}
<1>1. PICK j \in Int : h = j * M + l
  BY DEF Stands
<1>2. PICK k \in Int : x = k * M + s
  BY DEF Stands
<1> DEFINE c == j - k
<1>3. c \in Int /\ c * M \in Int /\ c * M = j * M - k * M
  BY Sizes
<1>4. h - x = c * M + l - s
  BY <1>1, <1>2, <1>3, Sizes
<1> HIDE DEF c
<1>5. (c >= 2 => c * M >= 2 * M) /\ (c <= -2 => c * M <= -2 * M)
  BY <1>3, Sizes
<1>6. c \in {-1, 0, 1}
  BY <1>3, <1>4, <1>5, Sizes
<1> QED BY <1>3, <1>4, <1>6, Sizes

\* What check computes is how far the place lies behind the head, where it lies
\* within half the range; ahead by exactly half of it, the number may look far behind.
LEMMA BehindIs ==
    ASSUME NEW l \in 0 .. max_seq, NEW s \in 0 .. max_seq, NEW h \in Int, NEW x \in Int,
           Stands(l, h), Stands(s, x), h - x \in -Half .. Half
    PROVE  /\ Behind(l, s) \in {h - x, M - Half}
           /\ h - x # -Half => Behind(l, s) = h - x
           /\ M - Half > Half
<1>1. l - s \in {h - x, h - x + M, h - x - M}
  BY Differ, Sizes
<1> QED BY <1>1, Sizes DEF Behind, Half

\* Where check passes a number, it stands for the place that far from the head.
LEMMA BehindStands ==
    ASSUME NEW l \in 0 .. max_seq, NEW s \in 0 .. max_seq, NEW x \in Int, Stands(s, x)
    PROVE  /\ Behind(l, s) \in Int /\ Behind(l, s) \in {l - s, l - s + M, l - s - M}
           /\ Behind(l, s) \in -Half - 1 .. M - Half
           /\ Stands(l, x + Behind(l, s))
<1> DEFINE b == Behind(l, s)
<1>1. b \in Int /\ b \in {l - s, l - s + M, l - s - M} /\ b \in -Half - 1 .. M - Half
  BY Sizes DEF Behind, Half
<1>2. PICK k \in Int : x = k * M + s
  BY DEF Stands
<1> HIDE DEF b
<1>3. CASE b = l - s
  <2>1. x + b = k * M + l
    BY <1>1, <1>2, <1>3, Sizes
  <2> QED BY <1>1, <2>1 DEF Stands, b
<1>4. CASE b = l - s + M
  <2>1. k + 1 \in Int /\ (k + 1) * M = k * M + M
    BY Sizes
  <2>2. x + b = (k + 1) * M + l
    BY <1>1, <1>2, <1>4, <2>1, Sizes
  <2> QED BY <1>1, <2>1, <2>2 DEF Stands, b
<1>5. CASE b = l - s - M
  <2>1. k - 1 \in Int /\ (k - 1) * M = k * M - M
    BY Sizes
  <2>2. x + b = (k - 1) * M + l
    BY <1>1, <1>2, <1>5, <2>1, Sizes
  <2> QED BY <1>1, <2>1, <2>2 DEF Stands, b
<1> QED BY <1>1, <1>3, <1>4, <1>5

\* accept returns a detector.
LEMMA AcceptedType ==
    ASSUME NEW d \in Detector, NEW s \in 0 .. max_seq, Behind(d.latest_seq, s) < window_size
    PROVE  /\ Accepted(d, s) \in Detector /\ Accepted(d, s).init = d.init
           /\ d.latest_seq \in 0 .. max_seq /\ d.mask \in SUBSET Nat /\ Behind(d.latest_seq, s) \in Int
           /\ Behind(d.latest_seq, s) < 0 =>
                /\ Accepted(d, s).latest_seq = s
                /\ Accepted(d, s).mask = MaskLsh(d.mask, window_size, -Behind(d.latest_seq, s)) \cup {0}
           /\ Behind(d.latest_seq, s) >= 0 =>
                /\ Accepted(d, s).latest_seq = d.latest_seq
                /\ Accepted(d, s).mask = IF s > d.latest_seq THEN d.mask
                                         ELSE d.mask \cup {d.latest_seq - s}
<1> DEFINE b == Behind(d.latest_seq, s)
           K == KeptBits(window_size)
<1>1. d.latest_seq \in 0 .. max_seq /\ d.mask \in SUBSET (0 .. K - 1) /\ d.init \in BOOLEAN
  BY Zenon DEF Detector
<1>2. K \in Int /\ K >= window_size
  BY WordAssumption, WindowFits, Sizes DEF KeptBits, Chunks, MsbMaskBits
<1>3. b \in Int /\ b \in {d.latest_seq - s, d.latest_seq - s + M, d.latest_seq - s - M}
  BY <1>1, Sizes DEF Behind
<1>4. s <= d.latest_seq /\ b >= 0 => d.latest_seq - s \in 0 .. window_size - 1
  BY <1>1, <1>3, Sizes DEF Behind
<1> HIDE DEF b, K
<1>5. CASE b < 0
  <2> DEFINE m == MaskLsh(d.mask, window_size, -b) \cup {0}
  <2>1. m \in SUBSET (0 .. K - 1)
    BY <1>2, <1>3, <1>5, Sizes DEF MaskLsh, K
  <2>0. MaskSetBit(MaskLsh(d.mask, window_size, -b), window_size, 0) = m
    BY Sizes DEF MaskSetBit
  <2>2. Accepted(d, s) = [d EXCEPT !.latest_seq = s, !.mask = m]
    BY <1>5, <2>0, Zenon DEF Accepted, b
  <2> HIDE DEF m
  <2>3. /\ Accepted(d, s) \in Detector /\ Accepted(d, s).init = d.init
        /\ Accepted(d, s).latest_seq = s /\ Accepted(d, s).mask = m
    BY <2>1, <2>2, Zenon DEF Detector, K
  <2> QED BY <1>1, <1>2, <1>3, <1>5, <2>3 DEF b, m
<1>6. CASE b >= 0 /\ s > d.latest_seq
  <2>1. Accepted(d, s) = d
    BY <1>1, <1>3, <1>6 DEF Accepted, b
  <2> QED BY <1>1, <1>2, <1>3, <1>6, <2>1 DEF b
<1>7. CASE b >= 0 /\ ~(s > d.latest_seq)
  <2> DEFINE m == d.mask \cup {d.latest_seq - s}
  <2>1. d.latest_seq - s \in 0 .. window_size - 1
    BY <1>1, <1>4, <1>7
  <2>0. MaskSetBit(d.mask, window_size, d.latest_seq - s) = m /\ ~(b < 0)
    BY <1>1, <1>3, <1>7, <2>1, Sizes DEF MaskSetBit
  <2>2. Accepted(d, s) = [d EXCEPT !.mask = m]
    BY <1>7, <2>0, Zenon DEF Accepted, b
  <2>3. m \in SUBSET (0 .. K - 1)
    BY <1>1, <1>2, <2>1, Sizes
  <2> HIDE DEF m
  <2>4. /\ Accepted(d, s) \in Detector /\ Accepted(d, s).init = d.init
        /\ Accepted(d, s).latest_seq = d.latest_seq /\ Accepted(d, s).mask = m
    BY <2>2, <2>3 DEF Detector, K
  <2> QED BY <1>1, <1>2, <1>3, <1>7, <2>4 DEF b, m
<1> QED BY <1>3, <1>5, <1>6, <1>7

\* The head of the window after x was accepted, and the packets accepted late.
Moved(h, x) == IF x > h THEN x ELSE h
Late(C, x, late) == IF late THEN C \cup {x} ELSE C
Once(T, C, x) == x \in T => x \in C

\* Accepting the number s of place x, which passed the check, keeps the window: its
\* head is where it was or at x, and x had not been accepted unless no bit was set.
LEMMA AcceptWindow ==
    ASSUME NEW d, NEW h \in Int, NEW N \in SUBSET Int, NEW T, NEW C, Window(d, h, N, T, C),
           NEW x \in N, NEW s \in 0 .. max_seq, Stands(s, x), Passes(d, s),
           Behind(d.latest_seq, s) = h - x,
           NEW C2, C2 = Late(C, x, h - x >= 0 /\ s > d.latest_seq)
    PROVE  Window(Accepted(d, s), Moved(h, x), N, T \cup {x}, C2) /\ Once(T, C2, x)
<1> DEFINE e == Accepted(d, s)
<1>1. /\ d \in Detector /\ h - x < window_size /\ x \in Int
      /\ h - x >= 0 => h - x \notin d.mask
  BY Sizes, Zenon DEF Window, Passes, MaskBit
<1>2. /\ e \in Detector /\ d.latest_seq \in 0 .. max_seq /\ d.mask \in SUBSET Nat
      /\ h - x < 0 => /\ e.latest_seq = s
                      /\ e.mask = MaskLsh(d.mask, window_size, -(h - x)) \cup {0}
      /\ h - x >= 0 => /\ e.latest_seq = d.latest_seq
                       /\ e.mask = IF s > d.latest_seq THEN d.mask
                                   ELSE d.mask \cup {d.latest_seq - s}
  <2> DEFINE b == Behind(d.latest_seq, s)
  <2>1. b = h - x /\ b < window_size
    BY <1>1
  <2>2. /\ e \in Detector /\ d.latest_seq \in 0 .. max_seq /\ d.mask \in SUBSET Nat
        /\ b < 0 => e.latest_seq = s /\ e.mask = MaskLsh(d.mask, window_size, -b) \cup {0}
        /\ b >= 0 => /\ e.latest_seq = d.latest_seq
                     /\ e.mask = IF s > d.latest_seq THEN d.mask
                                 ELSE d.mask \cup {d.latest_seq - s}
    BY <1>1, <2>1, AcceptedType, Zenon
  <2> HIDE DEF b
  <2> QED BY <2>1, <2>2, Zenon
<1> HIDE DEF e
<1>3. /\ C \subseteq T /\ T \subseteq N /\ \A y \in T : y <= h
      /\ \A y \in N : h - y \in 0 .. window_size - 1 =>
            (h - y \in d.mask => y \in T) /\ (y \in T \ C => h - y \in d.mask)
  BY Zenon DEF Window
<1>4. C2 \subseteq T \cup {x} /\ T \cup {x} \subseteq N /\ C \subseteq C2
  BY <1>3, Zenon DEF Late
<1>5. CASE x > h
  <2>1. Stands(e.latest_seq, x) /\ \A y \in T \cup {x} : y <= x
    BY <1>1, <1>2, <1>3, <1>5
  <2>2. ASSUME NEW y \in N, x - y \in 0 .. window_size - 1
        PROVE  /\ x - y \in e.mask => y \in T \cup {x}
               /\ y \in (T \cup {x}) \ C2 => x - y \in e.mask
    <3>0. y \in Int /\ x - h \in Nat /\ x - y \in Nat /\ x - y < window_size
      BY <1>1, <1>5, <2>2, Sizes
    <3>1. x - y \in MaskLsh(d.mask, window_size, x - h) <=> x - y >= x - h /\ x - y - (x - h) \in d.mask
      BY <1>2, <3>0, MaskOps, WindowFits, Sizes, Zenon
    <3>2. x - y - (x - h) = h - y /\ (x - y >= x - h <=> h - y >= 0)
      BY <3>0, <1>1
    <3>3. x - y \in e.mask <=> x = y \/ (h - y >= 0 /\ h - y \in d.mask)
      BY <1>1, <1>2, <1>5, <3>0, <3>1, <3>2
    <3>4. h - y >= 0 => h - y \in 0 .. window_size - 1
      BY <1>5, <3>0, Sizes
    <3>5. y \in T => h - y >= 0
      BY <1>3, <3>0
    <3> QED BY <1>3, <1>4, <3>3, <3>4, <3>5
  <2>3. Window(e, x, N, T \cup {x}, C2)
    BY <1>2, <1>4, <2>1, <2>2, Zenon DEF Window
  <2>4. x \notin T
    BY <1>1, <1>3, <1>5
  <2> QED BY <1>5, <2>3, <2>4 DEF e, Moved, Once
<1>6. CASE ~(x > h) /\ s > d.latest_seq
  <2>1. C2 = C \cup {x} /\ e.latest_seq = d.latest_seq /\ e.mask = d.mask
    BY <1>1, <1>2, <1>6 DEF Late
  <2>2. Stands(e.latest_seq, h) /\ \A y \in T \cup {x} : y <= h
    BY <1>1, <1>3, <1>6, <2>1 DEF Window
  <2>3. \A y \in N : h - y \in 0 .. window_size - 1 =>
            (h - y \in e.mask => y \in T \cup {x}) /\ (y \in (T \cup {x}) \ C2 => h - y \in e.mask)
    BY <1>3, <2>1, Zenon
  <2>4. Window(e, h, N, T \cup {x}, C2)
    BY <1>2, <1>4, <2>2, <2>3, Zenon DEF Window
  <2> QED BY <1>6, <2>1, <2>4 DEF e, Moved, Once
<1>7. CASE ~(x > h) /\ ~(s > d.latest_seq)
  <2>1. C2 = C /\ e.latest_seq = d.latest_seq /\ e.mask = d.mask \cup {h - x}
    <3>1. d.latest_seq - s = h - x
      BY <1>1, <1>2, <1>7, Sizes DEF Behind
    <3> QED BY <1>1, <1>2, <1>7, <3>1 DEF Late
  <2>2. Stands(e.latest_seq, h) /\ \A y \in T \cup {x} : y <= h
    BY <1>1, <1>3, <1>7, <2>1 DEF Window
  <2>3. ASSUME NEW y \in N, h - y \in 0 .. window_size - 1
        PROVE  (h - y \in e.mask => y \in T \cup {x}) /\ (y \in (T \cup {x}) \ C2 => h - y \in e.mask)
    <3>1. h - y = h - x <=> y = x
      BY <1>1
    <3> QED BY <1>3, <2>1, <2>3, <3>1, Zenon
  <2>4. Window(e, h, N, T \cup {x}, C2)
    BY <1>2, <1>4, <2>2, <2>3, Zenon DEF Window
  <2>5. x \in T => x \in C2
    <3>1. h - x \in 0 .. window_size - 1 /\ h - x \notin d.mask
      BY <1>1, <1>7, Sizes
    <3> QED BY <1>3, <2>1, <3>1, Zenon
  <2> QED BY <1>7, <2>4, <2>5 DEF e, Moved, Once
<1> QED BY <1>5, <1>6, <1>7

-----------------------------------------------------------------------------
(***************************************************************************)
(* The rollover counters of both SRTP contexts.                            *)
(***************************************************************************)
Places == [cycle : Int, seq : 0 .. max_seq]

\* The encrypting context has the place of the packet sent last.
OutTracks ==
    IF out.rollover_has_processed
    THEN out.rollover_counter = wraps /\ out.last_sequence_number = sequence_number
    ELSE /\ out.rollover_counter = 0
         /\ wraps = IF sequence_number = max_seq THEN -1 ELSE 0

\* The decrypting context has the place of the packet accepted last.
InTracks ==
    in.rollover_has_processed =>
        in.rollover_counter = last.cycle /\ in.last_sequence_number = last.seq

RolloverInv ==
    /\ sequence_number \in 0 .. max_seq /\ wraps \in Int
    /\ out \in SsrcState /\ in \in SsrcState
    /\ net \subseteq Packets /\ last \in Places
    /\ OutTracks /\ InTracks /\ SenderExact

\* next_rollover_count keeps the type of the state.
LEMMA NextType ==
    ASSUME NEW st \in SsrcState, NEW s \in 0 .. max_seq
    PROVE  NextRollover(st, s) \in Int /\ Update(st, s) \in SsrcState
<1> USE DetectorAssumption, SrtpAssumption DEF M
<1>1. st.rollover_counter \in Int /\ st.last_sequence_number \in 0 .. max_seq
  BY DEF SsrcState
<1>2. NextRollover(st, s) \in Int
  BY <1>1 DEF NextRollover
<1> QED BY <1>1, <1>2 DEF Update, SsrcState

\* In order, without a gap, next_rollover_count counts the wraps exactly.
LEMMA InOrder ==
    ASSUME sequence_number \in 0 .. max_seq, wraps \in Int, out \in SsrcState, OutTracks
    PROVE  /\ NextNumber \in Places
           /\ NextRollover(out, NextNumber.seq) = NextNumber.cycle
<1> USE DetectorAssumption, SrtpAssumption DEF M
<1>1. NextNumber \in Places
  BY DEF NextNumber, Place, Places
<1>2. CASE ~out.rollover_has_processed
  BY <1>1, <1>2 DEF OutTracks, NextRollover, NextNumber, Place, SsrcState
<1>3. CASE out.rollover_has_processed /\ sequence_number = max_seq
  BY <1>1, <1>3 DEF OutTracks, NextRollover, NextNumber, Place, SsrcState
<1>4. CASE out.rollover_has_processed /\ sequence_number # max_seq
  BY <1>1, <1>4 DEF OutTracks, NextRollover, NextNumber, Place, SsrcState
<1> QED BY <1>2, <1>3, <1>4

\* Two places no further apart than MAX_ROC_DISORDER are at most one wrap apart.
LEMMA OneWrap ==
    ASSUME NEW c \in Int, NEW d \in Int, NEW s \in 0 .. max_seq, NEW t \in 0 .. max_seq,
           (c - d) * M + s - t \in -MAX_ROC_DISORDER .. MAX_ROC_DISORDER
    PROVE  c - d \in {-1, 0, 1}
<1> USE DetectorAssumption, SrtpAssumption
<1> DEFINE k == c - d
<1>1. M \in Nat /\ max_seq = M - 1 /\ M > 3 * MAX_ROC_DISORDER /\ k \in Int
  BY DEF M
<1> HIDE DEF k
<1>2. k >= 2 => k * M >= 2 * M
  BY <1>1
<1>3. k <= -2 => k * M <= -2 * M
  BY <1>1
<1>4. k * M \in Int
  BY <1>1
<1>5. k * M + s - t \in -MAX_ROC_DISORDER .. MAX_ROC_DISORDER
  BY DEF k
<1>6. k < 2 /\ k > -2
  BY <1>1, <1>2, <1>3, <1>4, <1>5
<1> QED BY <1>1, <1>6 DEF k

\* The estimate of a context that has the place q is exact for every packet at
\* most MAX_ROC_DISORDER away from q.
LEMMA Estimate ==
    ASSUME NEW st \in SsrcState, NEW q \in Places, NEW m \in Packets,
           st.rollover_has_processed,
           st.rollover_counter = q.cycle, st.last_sequence_number = q.seq,
           Distance(m, q) \in -MAX_ROC_DISORDER .. MAX_ROC_DISORDER
    PROVE  NextRollover(st, m.seq) = m.cycle
<1> USE DetectorAssumption, SrtpAssumption
<1>1. /\ q.cycle \in Int /\ q.seq \in 0 .. max_seq
      /\ m.cycle \in Int /\ m.seq \in 0 .. max_seq
  BY DEF Places, Packets
<1>2. (m.cycle - q.cycle) * M + m.seq - q.seq \in -MAX_ROC_DISORDER .. MAX_ROC_DISORDER
  BY DEF Distance
<1>3. m.cycle - q.cycle \in {-1, 0, 1}
  BY <1>1, <1>2, OneWrap, Zenon
<1> DEFINE D == MAX_ROC_DISORDER
<1>4. CASE m.cycle - q.cycle = 0
  <2>1. m.seq - q.seq \in -D .. D
    BY <1>1, <1>2, <1>4 DEF M
  <2> QED BY <1>1, <1>4, <2>1 DEF NextRollover, M
<1>5. CASE m.cycle - q.cycle = 1
  <2>1. M + m.seq - q.seq \in -D .. D
    BY <1>1, <1>2, <1>5 DEF M
  <2> QED BY <1>1, <1>5, <2>1 DEF NextRollover, M
<1>6. CASE m.cycle - q.cycle = -1
  <2>1. -M + m.seq - q.seq \in -D .. D
    BY <1>1, <1>2, <1>6 DEF M
  <2> QED BY <1>1, <1>6, <2>1 DEF NextRollover, M
<1> QED BY <1>3, <1>4, <1>5, <1>6

\* Send keeps both contexts on their places.
LEMMA SendInv ==
    ASSUME RolloverInv, Send
    PROVE  RolloverInv'
<1> DEFINE p == NextNumber
            m == [cycle |-> p.cycle, seq |-> p.seq, roc |-> NextRollover(out, p.seq)]
<1>1. p \in Places /\ NextRollover(out, p.seq) = p.cycle
  BY InOrder DEF RolloverInv
<1>2. p.cycle \in Int /\ p.seq \in 0 .. max_seq
  BY <1>1 DEF Places
<1>3. /\ sequence_number' = p.seq /\ wraps' = p.cycle
      /\ out' = Update(out, p.seq)
      /\ net' \subseteq net \cup {m}
      /\ in' = in /\ last' = last
  BY DEF Send, receiver
<1>4. m \in Packets /\ m.roc = m.cycle
  BY <1>1, <1>2, Zenon DEF Packets
<1> HIDE DEF p, m
<1>5. out' \in SsrcState
  BY <1>2, <1>3, NextType DEF RolloverInv
<1>6. OutTracks'
  BY <1>1, <1>3 DEF OutTracks, Update
<1>7. InTracks'
  BY <1>3 DEF InTracks, RolloverInv
<1>8. net' \subseteq Packets /\ SenderExact'
  BY <1>3, <1>4 DEF RolloverInv, SenderExact
<1> QED BY <1>2, <1>3, <1>5, <1>6, <1>7, <1>8 DEF RolloverInv

\* So does decrypting: a packet whose estimate is wrong changes nothing.
LEMMA ReceiveInv ==
    ASSUME RolloverInv, NEW m \in net, Receive(m)
    PROVE  RolloverInv'
<1>1. m \in Packets /\ m.roc = m.cycle
  BY DEF RolloverInv, SenderExact
<1>2. m.cycle \in Int /\ m.seq \in 0 .. max_seq
  BY <1>1 DEF Packets
<1>3. /\ sequence_number' = sequence_number /\ wraps' = wraps /\ out' = out /\ net' = net
  BY DEF Receive, sender
<1>4. PICK damaged \in BOOLEAN : Decrypt(m, damaged)
  BY Zenon DEF Receive
<1>5. CASE in' = in /\ last' = last
  BY <1>3, <1>5 DEF RolloverInv, InTracks, OutTracks, SenderExact
<1>6. CASE /\ in' = Update(in, m.seq) /\ last' = Place(m.cycle, m.seq)
           /\ m.roc = NextRollover(in, m.seq)
  <2>1. in' \in SsrcState
    BY <1>2, <1>6, NextType DEF RolloverInv
  <2>2. last' \in Places
    BY <1>2, <1>6 DEF Place, Places
  <2>3. InTracks'
    BY <1>1, <1>6 DEF InTracks, Update, Place
  <2> QED BY <1>3, <2>1, <2>2, <2>3 DEF RolloverInv, OutTracks, SenderExact
<1>7. \/ in' = in /\ last' = last
      \/ /\ in' = Update(in, m.seq) /\ last' = Place(m.cycle, m.seq)
         /\ m.roc = NextRollover(in, m.seq)
  BY <1>4 DEF Decrypt, Authentic
<1> QED BY <1>5, <1>6, <1>7

\* At the start both contexts stand before the first packet.
LEMMA RolloverInit == Init => RolloverInv
<1> SUFFICES ASSUME Init PROVE RolloverInv
  OBVIOUS
<1> USE DetectorAssumption
<1>1. sequence_number \in 0 .. max_seq /\ wraps \in Int /\ last \in Places
  BY DEF Init, Places, Place
<1>2. out \in SsrcState /\ in \in SsrcState
  BY DEF Init, NewState, SsrcState
<1>3. OutTracks /\ InTracks
  BY <1>1 DEF Init, NewState, OutTracks, InTracks
<1> QED BY <1>1, <1>2, <1>3 DEF Init, RolloverInv, SenderExact

\* Every step keeps the places of both contexts.
LEMMA RolloverStep == RolloverInv /\ [Next]_vars => RolloverInv'
<1> SUFFICES ASSUME RolloverInv, [Next]_vars PROVE RolloverInv'
  OBVIOUS
<1>1. CASE UNCHANGED vars
  BY <1>1 DEF vars, sender, receiver, RolloverInv, OutTracks, InTracks, SenderExact
<1> QED BY <1>1, SendInv, ReceiveInv DEF Next

\* What the invariant says of the counts of rollovers.
LEMMA RolloverCounts == RolloverInv => RolloverExact
<1> SUFFICES ASSUME RolloverInv, in.rollover_has_processed, NEW m \in net,
                    Distance(m, last) \in -MAX_ROC_DISORDER .. MAX_ROC_DISORDER
             PROVE  NextRollover(in, m.seq) = m.roc
  BY DEF RolloverExact, EstimateExact, RolloverInv
<1>1. m \in Packets /\ m.roc = m.cycle
  BY DEF RolloverInv, SenderExact
<1> QED BY <1>1, Estimate DEF RolloverInv, InTracks
-----------------------------------------------------------------------------
(***************************************************************************)
(* The window and the packets of a stream.                                 *)
(***************************************************************************)

\* Where packets leave and one joins whose bit is not set, the window stays exact.
LEMMA WindowMoves ==
    ASSUME NEW d, NEW h \in Int, NEW N \in SUBSET Int, NEW T, NEW C, Window(d, h, N, T, C),
           NEW x \in Int, x > h \/ h - x \notin d.mask, NEW N2, N2 \subseteq N \cup {x}
    PROVE  Window(d, h, N2, T \cap N2, C \cap N2)
<1>1. \A y \in N2 : h - y \in 0 .. window_size - 1 => y \in N \/ (y = x /\ h - y \notin d.mask)
  BY Sizes
<1> QED BY <1>1, Zenon DEF Window

\* The first check places the window just before the packet checked.
LEMMA WindowPlaced ==
    ASSUME NEW d \in Detector, ~d.init, d.mask = {}, NEW s \in 0 .. max_seq,
           NEW x \in Int, Stands(s, x), NEW N
    PROVE  /\ Checked(d, s).init /\ Checked(d, s).mask = {}
           /\ Window(Checked(d, s), x - 1, N, {}, {})
<1> DEFINE l == IF s = 0 THEN max_seq ELSE s - 1
           e == Checked(d, s)
<1>1. l \in 0 .. max_seq
  BY Sizes
<1>2. e = [d EXCEPT !.init = TRUE, !.latest_seq = l]
  BY Zenon DEF Checked
<1> HIDE DEF l
<1>3. e \in Detector /\ e.init /\ e.latest_seq = l /\ e.mask = {}
  BY <1>1, <1>2, Zenon DEF Detector
<1>4. Stands(l, x - 1)
  <2>1. PICK k \in Int : x = k * M + s
    BY DEF Stands
  <2>2. CASE s = 0
    <3>1. k - 1 \in Int /\ (k - 1) * M = k * M - M
      BY Sizes
    <3>2. x - 1 = (k - 1) * M + l
      BY <2>1, <2>2, <3>1, Sizes DEF l
    <3> QED BY <3>1, <3>2, Zenon DEF Stands
  <2>3. CASE s # 0
    <3>1. k * M \in Int /\ x - 1 = k * M + l
      BY <2>1, <2>3, Sizes DEF l
    <3> QED BY <3>1, Zenon DEF Stands
  <2> QED BY <2>2, <2>3, Zenon
<1> HIDE DEF e
<1>5. Window(e, x - 1, N, {}, {})
  BY <1>3, <1>4, Zenon DEF Window
<1> QED BY <1>3, <1>5, Zenon DEF e

\* The place of a packet in the stream.
At(p) == p.cycle * M + p.seq
Ats(X) == {At(p) : p \in X}
Sent == wraps * M + sequence_number

\* Packets and their places correspond.
LEMMA AtFacts ==
    ASSUME NEW p, NEW q, p.cycle \in Int, p.seq \in 0 .. max_seq, q.cycle \in Int, q.seq \in 0 .. max_seq
    PROVE  /\ At(p) \in Int /\ At(q) \in Int /\ Stands(p.seq, At(p))
           /\ Distance(p, q) = At(p) - At(q)
           /\ At(p) = At(q) => p.cycle = q.cycle /\ p.seq = q.seq
<1> DEFINE a == p.cycle
           b == q.cycle
           c == a - b
<1>1. a * M \in Int /\ b * M \in Int /\ c \in Int /\ c * M \in Int /\ c * M = a * M - b * M
  BY Sizes
<1>2. /\ At(p) \in Int /\ At(q) \in Int /\ At(p) = a * M + p.seq /\ At(q) = b * M + q.seq
      /\ Distance(p, q) = c * M + p.seq - q.seq
  BY <1>1, Sizes DEF At, Distance
<1>3. Stands(p.seq, At(p))
  BY <1>2, Zenon DEF Stands
<1>4. Distance(p, q) = At(p) - At(q)
  <2> HIDE DEF a, b, c
  <2> QED BY <1>1, <1>2, Sizes
<1>5. ASSUME At(p) = At(q) PROVE a = b /\ p.seq = q.seq
  <2> HIDE DEF a, b, c
  <2>1. c * M + p.seq - q.seq = 0
    BY <1>1, <1>2, <1>5, Sizes
  <2>2. (c >= 1 => c * M >= M) /\ (c <= -1 => c * M <= -M)
    BY <1>1, Sizes
  <2>3. c = 0
    BY <1>1, <2>1, <2>2, Sizes
  <2>4. c * M = 0
    BY <2>3, Sizes
  <2>5. p.seq = q.seq
    BY <2>1, <2>4, Sizes
  <2>6. a = b
    BY <2>3 DEF c, a, b
  <2> QED BY <2>5, <2>6, Zenon
<1> QED BY <1>2, <1>3, <1>4, <1>5

\* The packets accepted are of those that may still arrive, which lie close behind
\* the one sent last, and so does the packet accepted last.
Nearby ==
    /\ detector \in Detector /\ misplaced \in BOOLEAN /\ newest \in Places
    /\ taken \subseteq {Place(m.cycle, m.seq) : m \in net}
    /\ crossed \subseteq taken /\ repeated \subseteq crossed
    /\ \A m \in net : Sent - At(m) \in 0 .. MaxLag - 1
    /\ At(last) <= At(newest) /\ At(newest) <= Sent /\ Sent - At(last) <= Half

\* The head of the window d is at h, not before the newest packet accepted.
HeadAt(d, h) ==
    /\ At(newest) <= h /\ h <= Sent
    /\ Window(d, h, Ats(net), Ats(taken), Ats(crossed))
    /\ ~misplaced => h = At(newest)

\* Before the first check nothing was accepted, and every packet is still ahead.
Unplaced ==
    /\ ~in.rollover_has_processed /\ ~misplaced /\ taken = {} /\ detector.mask = {}
    /\ \A m \in net : At(m) > At(newest)

StreamInv ==
    /\ RolloverInv /\ Nearby
    /\ IF detector.init THEN \E h \in Int : HeadAt(detector, h) ELSE Unplaced

\* The places of the packets of a stream.
LEMMA StreamPlaces ==
    ASSUME RolloverInv, Nearby
    PROVE  /\ \A m \in net : /\ m.cycle \in Int /\ m.seq \in 0 .. max_seq /\ At(m) \in Int
                             /\ Stands(m.seq, At(m))
                             /\ Place(m.cycle, m.seq) \in Places /\ At(Place(m.cycle, m.seq)) = At(m)
           /\ \A p \in taken : /\ p \in Places /\ p.cycle \in Int /\ p.seq \in 0 .. max_seq
                               /\ At(p) \in Int /\ At(p) \in Ats(net)
           /\ newest.cycle \in Int /\ newest.seq \in 0 .. max_seq /\ At(newest) \in Int
           /\ last.cycle \in Int /\ last.seq \in 0 .. max_seq /\ At(last) \in Int
           /\ Sent \in Int /\ Ats(net) \in SUBSET Int
<1>1. ASSUME NEW m \in net
      PROVE  /\ m.cycle \in Int /\ m.seq \in 0 .. max_seq /\ At(m) \in Int /\ Stands(m.seq, At(m))
             /\ Place(m.cycle, m.seq) \in Places /\ At(Place(m.cycle, m.seq)) = At(m)
  <2>1. m.cycle \in Int /\ m.seq \in 0 .. max_seq
    BY DEF RolloverInv, Packets
  <2>2. At(m) \in Int /\ Stands(m.seq, At(m))
    BY <2>1, AtFacts, Zenon
  <2>3. Place(m.cycle, m.seq) \in Places /\ At(Place(m.cycle, m.seq)) = At(m)
    BY <2>1 DEF Place, Places, At
  <2> QED BY <2>1, <2>2, <2>3, Zenon
<1>2. ASSUME NEW p \in Places
      PROVE  p.cycle \in Int /\ p.seq \in 0 .. max_seq /\ At(p) \in Int
  <2>1. p.cycle \in Int /\ p.seq \in 0 .. max_seq
    BY DEF Places
  <2> QED BY <2>1, AtFacts, Zenon
<1>3. ASSUME NEW p \in taken PROVE p \in Places /\ At(p) \in Ats(net)
  <2>1. PICK m \in net : p = Place(m.cycle, m.seq)
    BY Zenon DEF Nearby
  <2> QED BY <1>1, <2>1, Zenon DEF Ats
<1>4. Ats(net) \in SUBSET Int
  BY <1>1, Zenon DEF Ats
<1>5. Sent \in Int
  BY Sizes DEF RolloverInv, Sent
<1>6. newest \in Places /\ last \in Places
  BY Zenon DEF RolloverInv, Nearby
<1> QED BY <1>1, <1>2, <1>3, <1>4, <1>5, <1>6, Zenon

\* Sending moves the stream by one place, ahead of the window.
LEMMA SendStream ==
    ASSUME StreamInv, Send
    PROVE  Nearby' /\ IF detector'.init THEN \E h \in Int : HeadAt(detector, h)' ELSE Unplaced'
<1> DEFINE p == NextNumber
           m == [cycle |-> p.cycle, seq |-> p.seq, roc |-> NextRollover(out, p.seq)]
           x == At(p)
<1>1. RolloverInv /\ Nearby
  BY Zenon DEF StreamInv
<1>2. p \in Places /\ p.cycle \in Int /\ p.seq \in 0 .. max_seq
  <2>1. p \in Places
    BY <1>1, InOrder DEF RolloverInv
  <2> QED BY <2>1 DEF Places
<1>3. x \in Int /\ x = Sent + 1
  <2>1. sequence_number \in 0 .. max_seq /\ wraps \in Int /\ wraps * M \in Int /\ (wraps + 1) * M = wraps * M + M
    BY <1>1, Sizes DEF RolloverInv
  <2> QED BY <2>1, Sizes DEF NextNumber, Place, At, Sent
<1>4. /\ sequence_number' = p.seq /\ wraps' = p.cycle /\ Distance(p, last) <= MaxGap
      /\ net' = {q \in net \cup {m} : Distance(p, q) < MaxLag}
      /\ taken' = {q \in taken : Distance(p, q) < MaxLag}
      /\ repeated' = repeated \cap taken' /\ crossed' = crossed \cap taken'
      /\ detector' = detector /\ in' = in /\ last' = last /\ newest' = newest /\ misplaced' = misplaced
  BY Zenon DEF Send, receiver
<1>5. Sent' = x
  BY <1>4, Zenon DEF Sent, At
<1>6. m.cycle = p.cycle /\ m.seq = p.seq /\ At(m) = x
  BY Zenon DEF At
<1> HIDE DEF m, p, x
<1>7. /\ \A q \in net : q.cycle \in Int /\ q.seq \in 0 .. max_seq /\ At(q) \in Int
      /\ \A q \in taken : q.cycle \in Int /\ q.seq \in 0 .. max_seq /\ At(q) \in Int
      /\ newest.cycle \in Int /\ newest.seq \in 0 .. max_seq /\ At(newest) \in Int
      /\ last.cycle \in Int /\ last.seq \in 0 .. max_seq /\ At(last) \in Int
      /\ Ats(net) \in SUBSET Int /\ Sent \in Int
  BY <1>1, StreamPlaces, Zenon
<1>8. /\ \A q \in net \cup {m} : Distance(p, q) = x - At(q)
      /\ \A q \in taken : Distance(p, q) = x - At(q)
      /\ Distance(p, last) = x - At(last)
  BY <1>2, <1>6, <1>7, AtFacts, Zenon DEF x
<1>9. /\ net' = {q \in net \cup {m} : x - At(q) < MaxLag}
      /\ taken' = {q \in taken : x - At(q) < MaxLag}
  BY <1>4, <1>8
<1>10. Nearby'
  <2>1. taken' \subseteq {Place(q.cycle, q.seq) : q \in net'}
    <3> SUFFICES ASSUME NEW t \in taken' PROVE \E q \in net' : t = Place(q.cycle, q.seq)
      BY Zenon
    <3>1. t \in taken /\ x - At(t) < MaxLag
      BY <1>9, Zenon
    <3>2. PICK q \in net : t = Place(q.cycle, q.seq)
      BY <1>1, <3>1, Zenon DEF Nearby
    <3>3. At(q) = At(t)
      BY <1>1, <3>2, StreamPlaces, Zenon
    <3> QED BY <1>9, <3>1, <3>2, <3>3, Zenon
  <2>2. crossed' \subseteq taken' /\ repeated' \subseteq crossed'
    BY <1>1, <1>4, Zenon DEF Nearby
  <2>3. \A q \in net' : x - At(q) \in 0 .. MaxLag - 1
    BY <1>1, <1>3, <1>6, <1>7, <1>9, SrtpAssumption DEF Nearby
  <2>4. At(last) <= At(newest) /\ At(newest) <= x /\ x - At(last) <= Half
    BY <1>1, <1>3, <1>4, <1>7, <1>8, SrtpAssumption, WindowFits, Sizes DEF Nearby, Half
  <2> QED BY <1>1, <1>4, <1>5, <2>1, <2>2, <2>3, <2>4, Zenon DEF Nearby, At
<1>11. CASE detector.init
  <2>1. PICK h \in Int : HeadAt(detector, h)
    BY <1>11, Zenon DEF StreamInv
  <2> DEFINE N2 == Ats(net)'
             T2 == Ats(taken)'
             C2 == Ats(crossed)'
  <2>2. N2 \subseteq Ats(net) \cup {x}
    BY <1>6, <1>9, Zenon DEF Ats, At
  <2>3. ASSUME NEW y \in Ats(net), x - y < MaxLag PROVE y \in N2
    BY <1>9, <2>3, Zenon DEF Ats, At
  <2>4. T2 = Ats(taken) \cap N2
    <3>1. ASSUME NEW y \in T2 PROVE y \in Ats(taken) /\ y \in N2
      <4>1. PICK q \in taken' : y = At(q)
        BY Zenon DEF Ats, At
      <4>2. q \in taken /\ x - At(q) < MaxLag /\ At(q) \in Ats(net)
        BY <1>1, <1>9, StreamPlaces, Zenon
      <4> QED BY <4>1, <4>2, <2>3, Zenon DEF Ats
    <3>2. ASSUME NEW y \in Ats(taken), y \in N2 PROVE y \in T2
      <4>1. PICK q \in taken : y = At(q)
        BY Zenon DEF Ats
      <4>2. x - y < MaxLag
        BY <1>9, <3>2, Zenon DEF Ats, At
      <4> QED BY <1>9, <4>1, <4>2, Zenon DEF Ats, At
    <3> QED BY <3>1, <3>2, Zenon
  <2>5. C2 = Ats(crossed) \cap N2
    <3>1. ASSUME NEW y \in C2 PROVE y \in Ats(crossed) /\ y \in N2
      <4>1. y \in T2 /\ y \in Ats(crossed)
        BY <1>4, Zenon DEF Ats, At
      <4> QED BY <2>4, <4>1, Zenon
    <3>2. ASSUME NEW y \in Ats(crossed), y \in N2 PROVE y \in C2
      <4>1. PICK q \in crossed : y = At(q)
        BY Zenon DEF Ats
      <4>2. q \in taken /\ x - y < MaxLag
        BY <1>1, <1>9, <3>2, Zenon DEF Ats, At, Nearby
      <4> QED BY <1>4, <1>9, <4>1, <4>2, Zenon DEF Ats, At
    <3> QED BY <3>1, <3>2, Zenon
  <2>6. Window(detector, h, Ats(net), Ats(taken), Ats(crossed)) /\ x > h
    BY <1>3, <1>7, <2>1 DEF HeadAt
  <2> HIDE DEF N2, T2, C2
  <2>7. Window(detector, h, N2, T2, C2)
    BY <1>3, <1>7, <2>2, <2>4, <2>5, <2>6, WindowMoves, Zenon
  <2>8. At(newest) <= h /\ h <= x
    BY <1>3, <1>7, <2>1 DEF HeadAt
  <2>9. HeadAt(detector, h)'
    BY <1>4, <1>5, <2>1, <2>7, <2>8, Zenon DEF HeadAt, N2, T2, C2, At
  <2> QED BY <1>4, <1>10, <1>11, <2>9, Zenon
<1>12. CASE ~detector.init
  <2>1. Unplaced
    BY <1>12, Zenon DEF StreamInv
  <2>2. \A q \in net' : At(q) > At(newest)
    BY <1>1, <1>3, <1>6, <1>7, <1>9, <2>1 DEF Unplaced, Nearby
  <2>3. Unplaced'
    BY <1>4, <2>1, <2>2, Zenon DEF Unplaced, At
  <2> QED BY <1>4, <1>10, <1>12, <2>3, Zenon
<1> QED BY <1>11, <1>12, Zenon

\* check leaves the head of the window where it was, or places it.
LEMMA CheckedStream ==
    ASSUME StreamInv, NEW m \in net
    PROVE  /\ Checked(detector, m.seq) \in Detector /\ Checked(detector, m.seq).init
           /\ \E h \in Int : /\ At(newest) <= h /\ h <= Sent
                             /\ Window(Checked(detector, m.seq), h, Ats(net), Ats(taken), Ats(crossed))
                             /\ detector.init /\ ~misplaced => h = At(newest)
                             /\ ~detector.init => h = At(m) - 1
<1>1. RolloverInv /\ Nearby /\ detector \in Detector
  BY Zenon DEF StreamInv, Nearby
<1>2. CASE detector.init
  BY <1>1, <1>2, Zenon DEF StreamInv, HeadAt, Checked
<1>3. CASE ~detector.init
  <2>1. Unplaced
    BY <1>3, Zenon DEF StreamInv
  <2>2. /\ m.seq \in 0 .. max_seq /\ At(m) \in Int /\ Stands(m.seq, At(m)) /\ At(newest) \in Int
        /\ Sent \in Int
    BY <1>1, StreamPlaces, Zenon
  <2>3. Checked(detector, m.seq).init /\ Window(Checked(detector, m.seq), At(m) - 1, Ats(net), {}, {})
    BY <1>1, <1>3, <2>1, <2>2, WindowPlaced, Zenon DEF Unplaced
  <2>4. Ats(taken) = {} /\ Ats(crossed) = {}
    BY <1>1, <2>1, Zenon DEF Ats, Nearby, Unplaced
  <2>5. At(newest) <= At(m) - 1 /\ At(m) - 1 <= Sent /\ At(m) - 1 \in Int
    BY <1>1, <2>1, <2>2, SrtpAssumption DEF Unplaced, Nearby
  <2> QED BY <1>3, <2>3, <2>4, <2>5, Zenon DEF Window
<1> QED BY <1>2, <1>3, Zenon

\* Decrypting keeps the window: a packet that is accepted is marked in it, or
\* recorded as accepted late from before a wrap.
LEMMA ReceiveStream ==
    ASSUME StreamInv, NEW m \in net, Receive(m)
    PROVE  Nearby' /\ detector'.init /\ \E h \in Int : HeadAt(detector, h)'
<1> DEFINE d == Checked(detector, m.seq)
           p == Place(m.cycle, m.seq)
           x == At(m)
           b == Behind(d.latest_seq, m.seq)
<1>1. RolloverInv /\ Nearby
  BY Zenon DEF StreamInv
<1>2. /\ sequence_number' = sequence_number /\ wraps' = wraps /\ net' = net /\ Sent' = Sent
      /\ \E damaged \in BOOLEAN : Decrypt(m, damaged)
  BY Zenon DEF Receive, sender, Sent
<1>3. d \in Detector /\ d.init
  BY CheckedStream, Zenon
<1>4. PICK h \in Int : /\ At(newest) <= h /\ h <= Sent
                       /\ Window(d, h, Ats(net), Ats(taken), Ats(crossed))
                       /\ detector.init /\ ~misplaced => h = At(newest)
                       /\ ~detector.init => h = x - 1
  BY CheckedStream, Zenon
<1>5. /\ m.cycle \in Int /\ m.seq \in 0 .. max_seq /\ x \in Int /\ Stands(m.seq, x)
      /\ p \in Places /\ At(p) = x /\ x \in Ats(net) /\ Ats(net) \in SUBSET Int
      /\ At(newest) \in Int /\ At(last) \in Int /\ Sent \in Int
      /\ newest.cycle \in Int /\ newest.seq \in 0 .. max_seq
      /\ p.cycle \in Int /\ p.seq \in 0 .. max_seq
      /\ \A q \in taken : q \in Places /\ q.cycle \in Int /\ q.seq \in 0 .. max_seq /\ At(q) \in Int
  <2>1. p.cycle = m.cycle /\ p.seq = m.seq
    BY Zenon DEF Place
  <2> QED BY <1>1, <2>1, StreamPlaces, Zenon DEF Ats
<1> HIDE DEF d, p, x
<1>6. CASE /\ detector' = d /\ misplaced' = (misplaced \/ ~detector.init)
           /\ UNCHANGED <<in, last, newest, taken, repeated, crossed>>
  <2>1. misplaced' \in BOOLEAN /\ (~misplaced' => detector.init /\ ~misplaced)
    BY <1>1, <1>6, Zenon DEF Nearby
  <2>2. Nearby'
    BY <1>1, <1>2, <1>3, <1>6, <2>1, Zenon DEF Nearby, At
  <2>3. HeadAt(detector, h)'
    BY <1>2, <1>4, <1>6, <2>1, Zenon DEF HeadAt, Ats, At
  <2> QED BY <1>3, <1>6, <2>2, <2>3, Zenon
<1>7. CASE /\ Passes(d, m.seq) /\ detector' = Accepted(d, m.seq) /\ in' = Update(in, m.seq)
           /\ last' = p /\ newest' = IF Distance(p, newest) > 0 THEN p ELSE newest
           /\ taken' = taken \cup {p}
           /\ repeated' = IF p \in taken THEN repeated \cup {p} ELSE repeated
           /\ crossed' = IF b >= 0 /\ m.seq > d.latest_seq THEN crossed \cup {p} ELSE crossed
           /\ misplaced' = (misplaced /\ b >= 0)
  <2>1. d.latest_seq \in 0 .. max_seq /\ Stands(d.latest_seq, h)
    BY <1>3, <1>4, Zenon DEF Detector, Window
  <2>2. Sent - x \in 0 .. MaxLag - 1 /\ h - x \in -Half .. Half
    BY <1>1, <1>4, <1>5, SrtpAssumption, WindowFits, Sizes DEF Nearby, Half, x
  <2>3. b = h - x /\ b \in Int
    <3>1. b < window_size
      BY <1>7, Zenon DEF Passes
    <3>2. b \in {h - x, M - Half} /\ M - Half > Half
      BY <1>5, <2>1, <2>2, BehindIs, Zenon
    <3> QED BY <1>5, <3>1, <3>2, Sizes
  <2> HIDE DEF b
  <2>4. Ats(taken') = Ats(taken) \cup {x} /\ Ats(net)' = Ats(net) /\ Ats(taken)' = Ats(taken')
        /\ Ats(crossed)' = Ats(crossed')
    BY <1>2, <1>5, <1>7, Zenon DEF Ats, At
  <2> DEFINE C2 == Late(Ats(crossed), x, h - x >= 0 /\ m.seq > d.latest_seq)
             g == Moved(h, x)
  <2>5. Ats(crossed') = C2
    BY <1>5, <1>7, <2>3, Zenon DEF Ats, Late
  <2>6. Window(detector', g, Ats(net), Ats(taken) \cup {x}, C2) /\ Once(Ats(taken), C2, x)
    <3>1. Behind(d.latest_seq, m.seq) = h - x
      BY <2>3, Zenon DEF b
    <3>2. detector' = Accepted(d, m.seq) /\ Passes(d, m.seq)
      BY <1>7, Zenon
    <3>3. C2 = Late(Ats(crossed), x, h - x >= 0 /\ m.seq > d.latest_seq)
      OBVIOUS
    <3>4. Window(d, h, Ats(net), Ats(taken), Ats(crossed))
      BY <1>4, Zenon
    <3> HIDE DEF C2
    <3> QED BY <1>5, <3>1, <3>2, <3>3, <3>4, AcceptWindow, Zenon
  <2> HIDE DEF C2
  <2>7. detector' \in Detector /\ detector'.init
    <3>1. Behind(d.latest_seq, m.seq) < window_size
      BY <1>7, Zenon DEF Passes
    <3> QED BY <1>3, <1>5, <1>7, <3>1, AcceptedType, Zenon
  <2>8. At(newest') = (IF x > At(newest) THEN x ELSE At(newest)) /\ newest' \in Places
    <3>1. Distance(p, newest) = x - At(newest)
      BY <1>5, AtFacts, Zenon
    <3> QED BY <1>1, <1>5, <1>7, <3>1 DEF Nearby
  <2>9. Nearby'
    <3>1. taken' \subseteq {Place(q.cycle, q.seq) : q \in net'} /\ crossed' \subseteq taken'
      BY <1>1, <1>2, <1>7, Zenon DEF Nearby, p
    <3>2. repeated' \subseteq crossed'
      <4>1. ASSUME p \in taken PROVE p \in crossed'
        <5>1. x \in C2
          BY <1>5, <2>6, <4>1, Zenon DEF Ats, Once
        <5>2. PICK q \in crossed' : At(q) = x
          BY <2>5, <5>1, Zenon DEF Ats
        <5>3. q \in taken \/ q = p
          BY <1>1, <1>7, Zenon DEF Nearby
        <5>4. CASE q \in taken
          <6>1. q \in Places /\ q.cycle = p.cycle /\ q.seq = p.seq
            BY <1>5, <5>2, <5>4, AtFacts, Zenon
          <6>2. q = p
            BY <1>5, <6>1 DEF Places
          <6> QED BY <5>2, <6>2, Zenon
        <5> QED BY <5>2, <5>3, <5>4, Zenon
      <4> QED BY <1>1, <1>7, <4>1, Zenon DEF Nearby
    <3>3. At(last') = x /\ At(last') <= At(newest') /\ At(newest') <= Sent /\ Sent - At(last') <= Half
      BY <1>1, <1>5, <1>7, <2>2, <2>8, SrtpAssumption, WindowFits, Sizes DEF Nearby, Half
    <3>4. misplaced' \in BOOLEAN
      BY <1>7, Zenon
    <3> QED BY <1>1, <1>2, <2>7, <2>8, <3>1, <3>2, <3>3, <3>4, Zenon DEF Nearby, At
  <2>10. HeadAt(detector, g)'
    <3>1. At(newest') <= g /\ g <= Sent /\ g \in Int
      BY <1>4, <1>5, <2>2, <2>8, SrtpAssumption DEF Moved
    <3>2. ~misplaced' => g = At(newest')
      <4>1. CASE x > h
        BY <1>4, <1>5, <2>8, <4>1 DEF Moved
      <4>2. CASE ~(x > h)
        <5>1. b >= 0
          BY <1>5, <2>3, <4>2
        <5> HIDE DEF g
        <5>2. ~misplaced' => ~misplaced
          BY <1>1, <1>7, <5>1, Zenon DEF Nearby
        <5>3. detector.init
          BY <1>4, <1>5, <4>2
        <5>4. SUFFICES ASSUME h = At(newest) PROVE g = At(newest')
          BY <1>4, <5>2, <5>3, Zenon
        <5>5. g = h
          BY <4>2, Zenon DEF g, Moved
        <5> QED BY <2>8, <4>2, <5>4, <5>5, Zenon
      <4> QED BY <4>1, <4>2, Zenon
    <3> HIDE DEF g
    <3> QED BY <1>2, <2>4, <2>5, <2>6, <3>1, <3>2, Zenon DEF HeadAt, At
  <2>11. g \in Int
    BY <1>5 DEF Moved
  <2> QED BY <2>7, <2>9, <2>10, <2>11, Zenon
<1>8. QED
  BY <1>2, <1>6, <1>7, Zenon DEF Decrypt, d, p

\* At the start the window is not placed.
LEMMA StreamInit == Init => StreamInv
<1> SUFFICES ASSUME Init PROVE StreamInv
  OBVIOUS
<1>1. RolloverInv
  BY RolloverInit
<1>2. /\ net = {} /\ taken = {} /\ repeated = {} /\ crossed = {} /\ misplaced = FALSE
      /\ last = Place(wraps, sequence_number) /\ newest = last /\ in = NewState /\ detector = NewDetector
  BY Zenon DEF Init
<1>3. detector \in Detector /\ ~detector.init /\ detector.mask = {} /\ ~in.rollover_has_processed
  BY <1>2, Sizes DEF NewDetector, NewState, Detector
<1>4. last \in Places /\ At(last) = Sent /\ Sent \in Int
  <2>1. sequence_number \in 0 .. max_seq /\ wraps \in Int /\ wraps * M \in Int
    BY <1>1, Sizes DEF RolloverInv
  <2> QED BY <1>2, <2>1, Sizes DEF Place, Places, At, Sent
<1>5. Nearby
  <2>1. At(last) <= At(newest) /\ At(newest) <= Sent /\ Sent - At(last) <= Half
    BY <1>2, <1>4, Sizes
  <2> QED BY <1>2, <1>3, <1>4, <2>1, Zenon DEF Nearby
<1> QED BY <1>1, <1>2, <1>3, <1>5, Zenon DEF StreamInv, Unplaced

\* Every step of the stream keeps the window and the packets together.
LEMMA StreamStep == StreamInv /\ [Next]_vars => StreamInv'
<1> SUFFICES ASSUME StreamInv, [Next]_vars PROVE StreamInv'
  OBVIOUS
<1>1. RolloverInv'
  BY RolloverStep, Zenon DEF StreamInv
<1>2. CASE Send
  BY <1>1, <1>2, SendStream, Zenon DEF StreamInv
<1>3. ASSUME NEW m \in net, Receive(m) PROVE StreamInv'
  BY <1>1, <1>3, ReceiveStream, Zenon DEF StreamInv
<1>4. CASE UNCHANGED vars
  <2>1. /\ UNCHANGED <<sequence_number, wraps, in, detector, last, newest, net>>
        /\ UNCHANGED <<taken, repeated, crossed, misplaced>>
    BY <1>4 DEF vars, sender, receiver, history
  <2>2. Nearby'
    BY <2>1, Zenon DEF StreamInv, Nearby, Sent, At
  <2>3. ASSUME detector.init PROVE \E h \in Int : HeadAt(detector, h)'
    BY <2>1, <2>3, Zenon DEF StreamInv, HeadAt, Sent, At, Ats
  <2>4. ASSUME ~detector.init PROVE Unplaced'
    BY <2>1, <2>4, Zenon DEF StreamInv, Unplaced, At
  <2> QED BY <1>1, <2>1, <2>2, <2>3, <2>4, Zenon DEF StreamInv
<1> QED BY <1>2, <1>3, <1>4, Zenon DEF Next

\* What the invariant says of fresh packets and of repeated ones.
LEMMA StreamSound == StreamInv => FreshPasses /\ RepeatsOnlyAcrossWrap
<1> SUFFICES ASSUME StreamInv PROVE FreshPasses /\ RepeatsOnlyAcrossWrap
  OBVIOUS
<1>1. RepeatsOnlyAcrossWrap
  BY Zenon DEF StreamInv, Nearby, RepeatsOnlyAcrossWrap
<1>2. ASSUME in.rollover_has_processed, ~misplaced, NEW m \in net, Place(m.cycle, m.seq) \notin taken,
             Distance(newest, m) \in -Half + 1 .. window_size - 1
      PROVE  Passes(detector, m.seq)
  <2> DEFINE h == At(newest)
             x == At(m)
             l == detector.latest_seq
  <2>1. detector.init
    BY <1>2, Zenon DEF StreamInv, Unplaced
  <2>2. Window(detector, h, Ats(net), Ats(taken), Ats(crossed))
    BY <1>2, <2>1, Zenon DEF StreamInv, HeadAt
  <2>3. /\ h \in Int /\ x \in Int /\ m.seq \in 0 .. max_seq /\ Stands(m.seq, x) /\ x \in Ats(net)
        /\ m.cycle \in Int /\ newest.cycle \in Int /\ newest.seq \in 0 .. max_seq
        /\ \A q \in taken : q \in Places /\ q.cycle \in Int /\ q.seq \in 0 .. max_seq
    BY StreamPlaces, Zenon DEF StreamInv, Ats
  <2>4. h - x \in -Half + 1 .. window_size - 1
    BY <1>2, <2>3, AtFacts, Zenon
  <2>5. l \in 0 .. max_seq /\ Stands(l, h)
    BY <2>2 DEF Window, Detector
  <2>6. x \notin Ats(taken)
    <3> SUFFICES ASSUME NEW q \in taken, x = At(q) PROVE FALSE
      BY Zenon DEF Ats
    <3>1. q.cycle = m.cycle /\ q.seq = m.seq
      BY <2>3, AtFacts, Zenon
    <3>2. q = Place(m.cycle, m.seq)
      BY <2>3, <3>1 DEF Places, Place
    <3> QED BY <1>2, <3>2, Zenon
  <2> HIDE DEF h, x, l
  <2>7. Behind(l, m.seq) = h - x
    <3>1. h - x \in -Half .. Half /\ h - x # -Half
      BY <2>3, <2>4, Sizes
    <3> QED BY <2>3, <2>5, <3>1, BehindIs, Zenon
  <2>8. h - x < window_size /\ ~(h - x >= 0 /\ h - x \in detector.mask)
    <3>1. h - x < window_size /\ (h - x >= 0 => h - x \in 0 .. window_size - 1)
      BY <2>3, <2>4, Sizes
    <3>2. h - x \in 0 .. window_size - 1 => h - x \notin detector.mask
      BY <2>2, <2>3, <2>6, Zenon DEF Window
    <3> QED BY <3>1, <3>2, Zenon
  <2> QED BY <2>7, <2>8, Zenon DEF Passes, MaskBit, l
<1> QED BY <1>1, <1>2, Zenon DEF FreshPasses, Half
-----------------------------------------------------------------------------
(***************************************************************************)
(* SRTCP: the packets carry their index, and a packet whose index was      *)
(* damaged under way may place the window anywhere.                        *)
(***************************************************************************)
ControlPacket == [place : Nat \ {0}, index : 0 .. max_seq]

Ranks(X) == {m.place : m \in X}

\* The head of the window is at h, less than a window ahead of the newest packet
\* accepted, and no bit is set for a place in between.
ControlHead(h) ==
    /\ controlNewest <= h /\ h <= controlNewest + window_size - 1
    /\ Window(controlDetector, h, Ranks(controlNet), Ranks(controlTaken), Ranks(controlCrossed))
    /\ ~controlMisplaced => h = controlNewest
    /\ \A b \in controlDetector.mask : b >= h - controlNewest

ControlNearby ==
    /\ controlDetector \in Detector /\ controlMisplaced \in BOOLEAN
    /\ srtcp_index \in 0 .. max_seq /\ controlSent \in Nat /\ Stands(srtcp_index, controlSent)
    /\ controlNewest \in 0 .. controlSent
    /\ \A m \in controlNet : /\ m \in ControlPacket /\ Stands(m.index, m.place)
                             /\ controlSent - m.place \in 0 .. ControlLag - 1
    /\ controlTaken \subseteq controlNet
    /\ controlCrossed \subseteq controlTaken /\ controlRepeated \subseteq controlCrossed

ControlInv ==
    /\ ControlNearby
    /\ ~controlDetector.init => controlNewest = 0 /\ ~controlMisplaced
    /\ IF controlNewest = 0
       THEN /\ controlTaken = {} /\ controlDetector.mask = {}
            /\ controlDetector.init => controlMisplaced
       ELSE controlSent - controlNewest <= Half /\ \E h \in Int : ControlHead(h)

\* A place and its number determine the packet.
LEMMA SameRank ==
    ASSUME NEW p \in ControlPacket, NEW q \in ControlPacket, Stands(p.index, p.place),
           Stands(q.index, q.place), p.place = q.place
    PROVE  p = q
<1>1. /\ p.index \in 0 .. max_seq /\ q.index \in 0 .. max_seq
      /\ p.place \in Int /\ q.place \in Int /\ p.place - q.place = 0
  BY DEF ControlPacket
<1>2. p.index - q.index \in {0, M, -M}
  <2>1. p.place - q.place \in -M .. M
    BY <1>1, Sizes
  <2>2. p.index - q.index \in {p.place - q.place, p.place - q.place + M, p.place - q.place - M}
    BY <1>1, <2>1, Differ, Zenon
  <2> QED BY <1>1, <2>2, Sizes
<1>3. p.index = q.index
  BY <1>1, <1>2, Sizes
<1> QED BY <1>3 DEF ControlPacket

\* At the start the window is not placed.
LEMMA ControlInitial == ControlInit => ControlInv
<1> SUFFICES ASSUME ControlInit PROVE ControlInv
  OBVIOUS
<1>1. controlDetector \in Detector /\ ~controlDetector.init /\ controlDetector.mask = {}
  BY Sizes DEF ControlInit, NewDetector, Detector
<1>2. Stands(0, 0)
  <2>1. 0 = 0 * M + 0
    BY Sizes
  <2> QED BY <2>1 DEF Stands
<1>3. srtcp_index \in 0 .. max_seq /\ controlSent \in Nat /\ controlNewest \in 0 .. controlSent
  BY Sizes DEF ControlInit
<1>4. ControlNearby
  BY <1>1, <1>2, <1>3, Zenon DEF ControlInit, ControlNearby
<1> QED BY <1>1, <1>4, Zenon DEF ControlInit, ControlInv

\* Encrypting adds the next packet, whose bit is not set even where the window was
\* placed ahead of it.
LEMMA EncryptControl ==
    ASSUME ControlInv, EncryptRtcp
    PROVE  ControlInv'
<1> DEFINE x == controlSent + 1
           m == [place |-> x, index |-> NextIndex]
<1>1. /\ ControlNearby /\ controlSent \in Nat /\ srtcp_index \in 0 .. max_seq
      /\ controlNewest \in 0 .. controlSent /\ Stands(srtcp_index, controlSent) /\ x \in Nat \ {0}
  BY DEF ControlInv, ControlNearby
<1>2. /\ controlNewest # 0 => controlSent - controlNewest < ControlGap
      /\ controlSent' = x /\ srtcp_index' = NextIndex
      /\ controlNet' = {q \in controlNet \cup {m} : x - q.place < ControlLag}
      /\ controlTaken' = controlTaken \cap controlNet'
      /\ controlRepeated' = controlRepeated \cap controlNet'
      /\ controlCrossed' = controlCrossed \cap controlNet'
      /\ controlDetector' = controlDetector /\ controlNewest' = controlNewest
      /\ controlMisplaced' = controlMisplaced
  BY Zenon DEF EncryptRtcp
<1>3. NextIndex \in 0 .. max_seq /\ Stands(NextIndex, x)
  <2>1. PICK k \in Int : controlSent = k * M + srtcp_index
    BY <1>1 DEF Stands
  <2>2. CASE srtcp_index = max_seq
    <3>1. NextIndex = 0
      BY <2>2, Sizes DEF NextIndex
    <3>2. k + 1 \in Int /\ (k + 1) * M = k * M + M
      BY Sizes
    <3>3. x = (k + 1) * M + 0
      BY <2>1, <2>2, <3>2, Sizes
    <3>4. Stands(0, x)
      BY <3>2, <3>3, Zenon DEF Stands
    <3> QED BY <3>1, <3>4, Sizes
  <2>3. CASE srtcp_index # max_seq
    <3>1. NextIndex = srtcp_index + 1 /\ NextIndex \in 0 .. max_seq
      BY <1>1, <2>3, Sizes DEF NextIndex
    <3>2. k * M \in Int /\ x = k * M + NextIndex
      BY <1>1, <2>1, <3>1, Sizes
    <3> QED BY <3>1, <3>2, Zenon DEF Stands
  <2> QED BY <2>2, <2>3, Zenon
<1>4. m \in ControlPacket /\ m.place = x /\ m.index = NextIndex
  BY <1>1, <1>3 DEF ControlPacket
<1> HIDE DEF m, x
<1>5. x = controlSent + 1
  BY DEF x
<1>6. \A q \in controlNet : q.place \in Nat \ {0}
  BY <1>1 DEF ControlNearby, ControlPacket
<1>7. ControlNearby'
  <2>1. ASSUME NEW q \in controlNet'
        PROVE  q \in ControlPacket /\ Stands(q.index, q.place) /\ x - q.place \in 0 .. ControlLag - 1
    <3>1. q \in controlNet \cup {m} /\ x - q.place < ControlLag
      BY <1>2, Zenon
    <3>2. q \in ControlPacket /\ Stands(q.index, q.place)
      BY <1>1, <1>3, <1>4, <3>1, Zenon DEF ControlNearby
    <3>3. q.place <= x /\ q.place \in Nat
      BY <1>1, <1>4, <1>5, <1>6, <3>1 DEF ControlNearby
    <3> QED BY <1>1, <3>1, <3>2, <3>3, ControlAssumption
  <2>2. controlNewest \in 0 .. x
    BY <1>1, <1>5
  <2> QED BY <1>1, <1>2, <1>3, <2>1, <2>2 DEF ControlNearby
<1>8. CASE controlNewest = 0
  BY <1>2, <1>7, <1>8, Zenon DEF ControlInv
<1>9. CASE controlNewest # 0
  <2>1. PICK h \in Int : ControlHead(h)
    BY <1>9, Zenon DEF ControlInv
  <2>2. Ranks(controlNet) \in SUBSET Int /\ Ranks(controlNet') \subseteq Ranks(controlNet) \cup {x}
    BY <1>2, <1>4, <1>6 DEF Ranks
  <2>3. ASSUME NEW X, X \subseteq controlNet
        PROVE  Ranks(X \cap controlNet') = Ranks(X) \cap Ranks(controlNet')
    <3> SUFFICES ASSUME NEW q \in X, NEW r \in controlNet', q.place = r.place
                 PROVE  q \in controlNet'
      BY Zenon DEF Ranks
    <3>1. x - q.place < ControlLag /\ q \in controlNet
      BY <1>2, <2>3, Zenon
    <3> QED BY <1>2, <3>1, Zenon
  <2>4. /\ Ranks(controlTaken') = Ranks(controlTaken) \cap Ranks(controlNet')
        /\ Ranks(controlCrossed') = Ranks(controlCrossed) \cap Ranks(controlNet')
    BY <1>1, <1>2, <2>3, Zenon DEF ControlNearby
  <2>5. h - x \notin controlDetector.mask
    <3>1. ~(h - x >= h - controlNewest)
      BY <1>1, <1>5
    <3> QED BY <2>1, <3>1, Zenon DEF ControlHead
  <2>6. Window(controlDetector, h, Ranks(controlNet'), Ranks(controlTaken'), Ranks(controlCrossed'))
    <3>1. Window(controlDetector, h, Ranks(controlNet), Ranks(controlTaken), Ranks(controlCrossed))
      BY <2>1, Zenon DEF ControlHead
    <3>2. x \in Int
      BY <1>1
    <3>3. Window(controlDetector, h, Ranks(controlNet'), Ranks(controlTaken) \cap Ranks(controlNet'),
                 Ranks(controlCrossed) \cap Ranks(controlNet'))
      BY <2>2, <2>5, <3>1, <3>2, WindowMoves, Zenon
    <3> QED BY <2>4, <3>3, Zenon
  <2>7. ControlHead(h)'
    BY <1>2, <2>1, <2>6, Zenon DEF ControlHead, Ranks
  <2>8. x - controlNewest <= Half
    BY <1>1, <1>2, <1>5, <1>9, ControlAssumption, Sizes DEF Half
  <2> QED BY <1>2, <1>7, <1>9, <2>7, <2>8, Zenon DEF ControlInv
<1> QED BY <1>8, <1>9, Zenon

\* What accept leaves: the bits stay at the places up to the newest one accepted.
LEMMA AcceptedBits ==
    ASSUME NEW d \in Detector, NEW s \in 0 .. max_seq, Passes(d, s), NEW h \in Int, NEW x \in Int,
           Behind(d.latest_seq, s) = h - x, NEW n \in Int, h < x => n < x, \A b \in d.mask : b >= h - n,
           NEW t, t = Moved(n, x)
    PROVE  \A b \in Accepted(d, s).mask : b >= Moved(h, x) - t
<1> DEFINE e == Accepted(d, s)
<1>1. h - x < window_size
  BY DEF Passes
<1>2. /\ e \in Detector /\ d.latest_seq \in 0 .. max_seq /\ d.mask \in SUBSET Nat
      /\ h - x >= 0 => e.mask = IF s > d.latest_seq THEN d.mask ELSE d.mask \cup {d.latest_seq - s}
  <2> DEFINE c == Behind(d.latest_seq, s)
  <2>1. c = h - x /\ c < window_size
    BY <1>1
  <2>2. /\ e \in Detector /\ d.latest_seq \in 0 .. max_seq /\ d.mask \in SUBSET Nat
        /\ c >= 0 => e.mask = IF s > d.latest_seq THEN d.mask ELSE d.mask \cup {d.latest_seq - s}
    BY <2>1, AcceptedType, Zenon
  <2> HIDE DEF c
  <2> QED BY <2>1, <2>2, Zenon
<1> HIDE DEF e
<1>3. e.mask \in SUBSET Nat
  BY <1>2 DEF Detector
<1>4. CASE h - x >= 0 /\ ~(s > d.latest_seq)
  <2>1. d.latest_seq - s = h - x
    BY <1>1, <1>2, <1>4, Sizes DEF Behind
  <2>2. e.mask = d.mask \cup {h - x} /\ Moved(h, x) = h /\ t \in Int /\ t >= n /\ t >= x
    BY <1>2, <1>4, <2>1 DEF Moved
  <2> QED BY <1>2, <2>2 DEF e
<1>5. CASE h - x >= 0 /\ s > d.latest_seq
  <2>1. e.mask = d.mask /\ Moved(h, x) = h /\ t \in Int /\ t >= n
    BY <1>2, <1>5 DEF Moved
  <2> QED BY <1>2, <2>1 DEF e
<1>6. CASE ~(h - x >= 0)
  <2>1. Moved(h, x) = x /\ t = x
    BY <1>6 DEF Moved
  <2> QED BY <1>3, <2>1 DEF e
<1> QED BY <1>4, <1>5, <1>6, Zenon

\* Decrypting marks the packet that is accepted; a packet with a damaged index can only
\* place the window.
LEMMA DecryptControl ==
    ASSUME ControlInv, NEW m \in controlNet, NEW index \in 0 .. max_seq, DecryptRtcp(m, index),
           UNCHANGED <<srtcp_index, controlSent, controlNet>>
    PROVE  ControlInv'
<1> DEFINE d == Checked(controlDetector, index)
           x == m.place
           b == Behind(d.latest_seq, index)
           late == b >= 0 /\ index > d.latest_seq
<1>1. /\ ControlNearby /\ controlSent \in Nat /\ controlNewest \in 0 .. controlSent
      /\ controlDetector \in Detector /\ controlMisplaced \in BOOLEAN
      /\ m \in ControlPacket /\ Stands(m.index, x) /\ controlSent - x \in 0 .. ControlLag - 1
  BY Zenon DEF ControlInv, ControlNearby
<1>2. x \in Nat \ {0} /\ m.index \in 0 .. max_seq
  BY <1>1 DEF ControlPacket
<1>3. d \in Detector /\ d.init /\ d.mask = controlDetector.mask
  <2> DEFINE l == IF index = 0 THEN max_seq ELSE index - 1
  <2>1. l \in 0 .. max_seq
    BY Sizes
  <2>2. d = IF controlDetector.init THEN controlDetector
            ELSE [controlDetector EXCEPT !.init = TRUE, !.latest_seq = l]
    BY Zenon DEF Checked
  <2> HIDE DEF l, d
  <2> QED BY <1>1, <2>1, <2>2, Zenon DEF Detector
<1>4. controlDetector.init => d = controlDetector
  BY Zenon DEF Checked
<1> HIDE DEF d
<1>5. CASE /\ controlDetector' = d /\ controlMisplaced' = (controlMisplaced \/ ~controlDetector.init)
           /\ UNCHANGED <<controlNewest, controlTaken, controlRepeated, controlCrossed>>
  <2>1. ControlNearby'
    BY <1>1, <1>3, <1>5, Zenon DEF ControlNearby
  <2>2. CASE controlDetector.init
    <3>1. controlDetector' = controlDetector /\ controlMisplaced' = controlMisplaced
      BY <1>1, <1>4, <1>5, <2>2, Zenon
    <3>2. ASSUME NEW h \in Int, ControlHead(h) PROVE ControlHead(h)'
      BY <1>5, <3>1, <3>2, Zenon DEF ControlHead, Ranks
    <3> QED BY <1>5, <2>1, <2>2, <3>1, <3>2, Zenon DEF ControlInv
  <2>3. CASE ~controlDetector.init
    BY <1>3, <1>5, <2>1, <2>3, Zenon DEF ControlInv
  <2> QED BY <2>2, <2>3, Zenon
<1>6. CASE /\ Passes(d, index) /\ index = m.index /\ controlDetector' = Accepted(d, index)
           /\ controlNewest' = IF x > controlNewest THEN x ELSE controlNewest
           /\ controlTaken' = controlTaken \cup {m}
           /\ controlRepeated' = IF m \in controlTaken THEN controlRepeated \cup {m} ELSE controlRepeated
           /\ controlCrossed' = IF late THEN controlCrossed \cup {m} ELSE controlCrossed
           /\ controlMisplaced' = (controlMisplaced /\ b >= 0)
  <2> DEFINE N == Ranks(controlNet)
             T == Ranks(controlTaken)
             C == Ranks(controlCrossed)
  <2>1. PICK h \in Int :
           /\ Window(d, h, N, T, C) /\ b = h - x
           /\ controlNewest # 0 => controlNewest <= h /\ h <= controlNewest + window_size - 1
           /\ b >= 0 /\ ~controlMisplaced => controlNewest # 0 /\ h = controlNewest
           /\ \A i \in d.mask : i >= h - controlNewest
           /\ Stands(index, x)
    <3>1. d.latest_seq \in 0 .. max_seq /\ Stands(index, x) /\ b < window_size /\ x \in Int
      BY <1>1, <1>2, <1>3, <1>6 DEF Detector, Passes
    <3>2. CASE controlNewest = 0
      <4>1. b \in Int /\ b \in -Half - 1 .. M - Half /\ Stands(d.latest_seq, x + b)
        BY <3>1, BehindStands, Zenon
      <4>2. controlTaken = {} /\ controlCrossed = {} /\ d.mask = {}
        BY <1>1, <1>3, <3>2, Zenon DEF ControlInv, ControlNearby
      <4>3. Window(d, x + b, N, T, C)
        BY <1>3, <4>1, <4>2, Zenon DEF Window, Ranks
      <4>4. b >= 0 => controlMisplaced
        <5>1. CASE controlDetector.init
          BY <3>2, <5>1, Zenon DEF ControlInv
        <5>2. CASE ~controlDetector.init
          <6>1. controlDetector.mask = {}
            BY <1>3, <4>2, Zenon
          <6>2. Stands(d.latest_seq, x - 1)
            BY <1>1, <3>1, <5>2, <6>1, WindowPlaced, Zenon DEF Window, d
          <6>3. x - 1 \in Int /\ (x - 1) - x \in -Half .. Half /\ (x - 1) - x = -1
            BY <3>1, Sizes
          <6>4. b \in {(x - 1) - x, M - Half} /\ M - Half > Half
            BY <3>1, <6>2, <6>3, BehindIs, Zenon
          <6> QED BY <3>1, <4>1, <6>3, <6>4, Sizes
        <5> QED BY <5>1, <5>2, Zenon
      <4> HIDE DEF b
      <4>5. x + b \in Int /\ b = (x + b) - x
        BY <1>2, <4>1
      <4> QED BY <3>1, <3>2, <4>2, <4>3, <4>4, <4>5, Zenon
    <3>3. CASE controlNewest # 0
      <4>1. PICK h \in Int : ControlHead(h)
        BY <3>3, Zenon DEF ControlInv
      <4>2. controlDetector.init /\ d = controlDetector /\ controlSent - controlNewest <= Half
        BY <1>4, <3>3, Zenon DEF ControlInv
      <4>3. Window(d, h, N, T, C) /\ Stands(d.latest_seq, h)
        BY <4>1, <4>2, Zenon DEF ControlHead, Window
      <4>4. controlNewest <= h /\ h <= controlNewest + window_size - 1
        BY <4>1, Zenon DEF ControlHead
      <4>5. h - x \in -Half .. Half
        BY <1>1, <1>2, <4>2, <4>4, ControlAssumption, Sizes DEF Half
      <4>6. b \in {h - x, M - Half} /\ M - Half > Half
        BY <3>1, <4>3, <4>5, BehindIs, Zenon
      <4>7. b = h - x
        BY <3>1, <4>6, Sizes
      <4> HIDE DEF b
      <4> QED BY <3>1, <3>3, <4>1, <4>2, <4>3, <4>4, <4>7, Zenon DEF ControlHead
    <3> QED BY <3>2, <3>3, Zenon
  <2> DEFINE g == Moved(h, x)
             C2 == Late(C, x, late)
  <2>2. x \in N /\ N \in SUBSET Int
    BY <1>1 DEF Ranks, ControlNearby, ControlPacket
  <2>3. Window(controlDetector', g, N, T \cup {x}, C2) /\ Once(T, C2, x)
    <3>1. C2 = Late(C, x, h - x >= 0 /\ index > d.latest_seq)
      BY <2>1, Zenon
    <3>2. Behind(d.latest_seq, index) = h - x /\ Window(d, h, N, T, C) /\ Stands(index, x)
      BY <2>1, Zenon
    <3> HIDE DEF C2, N, T, C
    <3> QED BY <1>6, <2>2, <3>1, <3>2, AcceptWindow, Zenon
  <2>4. \A i \in controlDetector'.mask : i >= g - controlNewest'
    <3>1. controlNewest' = Moved(controlNewest, x)
      BY <1>6, Zenon DEF Moved
    <3>2. x \in Int /\ controlNewest \in Int
      BY <1>1, <1>2
    <3>3. h < x => controlNewest < x
      BY <1>2, <2>1, <3>2
    <3>4. \A i \in d.mask : i >= h - controlNewest
      BY <2>1, Zenon
    <3>5. Behind(d.latest_seq, index) = h - x
      BY <2>1, Zenon
    <3> QED BY <1>3, <1>6, <3>1, <3>2, <3>3, <3>4, <3>5, AcceptedBits
  <2>5. controlDetector' \in Detector /\ controlDetector'.init
    <3>1. Behind(d.latest_seq, index) < window_size
      BY <1>6, Zenon DEF Passes
    <3> QED BY <1>3, <1>6, <3>1, AcceptedType, Zenon
  <2> HIDE DEF b
  <2>6. Ranks(controlTaken') = T \cup {x} /\ Ranks(controlCrossed') = C2 /\ Ranks(controlNet') = N
    BY <1>6, Zenon DEF Ranks, Late
  <2>7. /\ controlNewest' \in 1 .. controlSent /\ controlNewest' <= g /\ g <= controlNewest' + window_size - 1
        /\ controlSent - controlNewest' <= Half
    <3>1. b < window_size
      BY <1>6, Zenon DEF Passes, b
    <3>2. controlNewest # 0 => controlSent - controlNewest <= Half
      BY Zenon DEF ControlInv
    <3>3. CASE x > controlNewest
      <4>1. controlNewest' = x /\ b = h - x
        BY <1>6, <2>1, <3>3, Zenon
      <4>2. g \in {x, h} /\ g >= x /\ (g = h => h >= x)
        BY <1>2 DEF Moved
      <4>3. x \in 1 .. controlSent /\ controlSent - x <= Half
        BY <1>1, <1>2, ControlAssumption, Sizes DEF Half
      <4> HIDE DEF g
      <4> QED BY <1>1, <1>2, <3>1, <4>1, <4>2, <4>3, Sizes
    <3>4. CASE ~(x > controlNewest)
      <4>1. controlNewest' = controlNewest
        BY <1>6, <3>4, Zenon
      <4>2. controlNewest # 0
        BY <1>2, <3>4
      <4>3. controlNewest <= h /\ h <= controlNewest + window_size - 1
        BY <2>1, <4>2, Zenon
      <4>4. ~(x > h)
        BY <1>1, <1>2, <3>4, <4>3
      <4>5. g = h
        BY <4>4, Zenon DEF Moved
      <4> HIDE DEF g
      <4> QED BY <1>1, <3>2, <4>1, <4>2, <4>3, <4>5
    <3> QED BY <3>3, <3>4, Zenon
  <2>8. ~controlMisplaced' => g = controlNewest'
    <3>1. CASE b >= 0
      <4>1. SUFFICES ASSUME h = controlNewest PROVE g = controlNewest'
        BY <1>1, <1>6, <2>1, <3>1, Zenon
      <4>2. ~(x > h)
        <5>1. b = h - x
          BY <2>1, Zenon
        <5> QED BY <1>2, <3>1, <5>1
      <4> QED BY <1>6, <4>1, <4>2, Zenon DEF Moved
    <3>2. CASE ~(b >= 0)
      <4>1. x > h /\ x > controlNewest
        <5>1. b = h - x /\ (controlNewest # 0 => controlNewest <= h)
          BY <2>1, Zenon
        <5> QED BY <1>1, <1>2, <3>2, <5>1
      <4> QED BY <1>6, <4>1, Zenon DEF Moved
    <3> QED BY <3>1, <3>2, Zenon
  <2>9. controlRepeated' \subseteq controlCrossed' /\ controlCrossed' \subseteq controlTaken'
        /\ controlTaken' \subseteq controlNet'
    <3>1. ASSUME m \in controlTaken PROVE m \in controlCrossed'
      <4>1. x \in C2
        BY <2>3, <3>1, Zenon DEF Once, Ranks
      <4>2. PICK q \in controlCrossed' : q.place = x
        BY <2>6, <4>1, Zenon DEF Ranks
      <4>3. q \in controlNet
        BY <1>1, <1>6, Zenon DEF ControlNearby
      <4>4. q = m
        BY <1>1, <4>2, <4>3, SameRank, Zenon DEF ControlNearby
      <4> QED BY <4>2, <4>4, Zenon
    <3> HIDE DEF late
    <3> QED BY <1>1, <1>6, <3>1, Zenon DEF ControlNearby
  <2>10. ControlNearby'
    <3>1. controlMisplaced' \in BOOLEAN /\ controlNewest' \in 0 .. controlSent
      <4>1. controlMisplaced' \in BOOLEAN
        BY <1>6, Zenon
      <4>2. controlNewest' \in 0 .. controlSent
        BY <1>1, <2>7
      <4> QED BY <4>1, <4>2, Zenon
    <3> QED BY <1>1, <2>5, <2>9, <3>1, Zenon DEF ControlNearby
  <2>11. g \in Int /\ controlNewest' # 0
    BY <1>1, <1>2, <2>7 DEF Moved
  <2> HIDE DEF g, C2
  <2>12. ControlHead(g)'
    <3> HIDE DEF N, T, C
    <3>1. Window(controlDetector', g, Ranks(controlNet'), Ranks(controlTaken'), Ranks(controlCrossed'))
      BY <2>3, <2>6, Zenon
    <3> QED BY <2>4, <2>7, <2>8, <3>1, Zenon DEF ControlHead, Ranks
  <2> QED BY <2>5, <2>7, <2>10, <2>11, <2>12, Zenon DEF ControlInv
<1> QED BY <1>5, <1>6, Zenon DEF DecryptRtcp, Refused, d

\* Every step of the SRTCP packets keeps the window and the packets together.
LEMMA ControlStep == ControlInv /\ [ControlNext]_controlVars => ControlInv'
<1> SUFFICES ASSUME ControlInv, [ControlNext]_controlVars PROVE ControlInv'
  OBVIOUS
<1>1. CASE EncryptRtcp
  BY <1>1, EncryptControl, Zenon
<1>2. CASE ReceiveRtcp
  <2>0. PICK m \in controlNet :
           \E i \in {m.index, (m.index + max_seq \div 2) % (max_seq + 1)} : DecryptRtcp(m, i)
    BY <1>2, Zenon DEF ReceiveRtcp
  <2>1. PICK index \in {m.index, (m.index + max_seq \div 2) % (max_seq + 1)} : DecryptRtcp(m, index)
    BY <2>0, Zenon
  <2>2. UNCHANGED <<srtcp_index, controlSent, controlNet>>
    BY <1>2, Zenon DEF ReceiveRtcp
  <2>3. m.index \in 0 .. max_seq
    BY DEF ControlInv, ControlNearby, ControlPacket
  <2>4. index \in 0 .. max_seq
    BY <2>3, Sizes
  <2> QED BY <2>1, <2>2, <2>4, DecryptControl, Zenon
<1>3. CASE UNCHANGED controlVars
  <2>1. /\ UNCHANGED <<srtcp_index, controlSent, controlNet, controlDetector, controlNewest>>
        /\ UNCHANGED <<controlTaken, controlRepeated, controlCrossed, controlMisplaced>>
    BY <1>3 DEF controlVars, controlReceiver
  <2>2. ControlNearby'
    BY <2>1, Zenon DEF ControlInv, ControlNearby
  <2>3. ASSUME NEW h \in Int, ControlHead(h) PROVE ControlHead(h)'
    BY <2>1, <2>3, Zenon DEF ControlHead, Ranks
  <2> QED BY <2>1, <2>2, <2>3, Zenon DEF ControlInv
<1> QED BY <1>1, <1>2, <1>3, Zenon DEF ControlNext

\* What the invariant says of fresh SRTCP packets and of repeated ones.
LEMMA ControlSound == ControlInv => ControlWindow
<1> SUFFICES ASSUME ControlInv PROVE ControlWindow
  OBVIOUS
<1>1. controlRepeated \subseteq controlCrossed
  BY Zenon DEF ControlInv, ControlNearby
<1>2. ASSUME controlNewest # 0, ~controlMisplaced, NEW m \in controlNet \ controlTaken,
             controlNewest - m.place \in (1 - Half)..(window_size - 1)
      PROVE  Passes(controlDetector, m.index)
  <2> DEFINE h == controlNewest
             x == m.place
             l == controlDetector.latest_seq
  <2>1. Window(controlDetector, h, Ranks(controlNet), Ranks(controlTaken), Ranks(controlCrossed))
    BY <1>2, Zenon DEF ControlInv, ControlHead
  <2>2. /\ m \in ControlPacket /\ Stands(m.index, x) /\ x \in Ranks(controlNet)
        /\ controlSent \in Nat /\ h \in 0 .. controlSent
    BY Zenon DEF ControlInv, ControlNearby, Ranks
  <2>3. h \in Int /\ x \in Int /\ m.index \in 0 .. max_seq
    BY <2>2 DEF ControlPacket
  <2>4. l \in 0 .. max_seq /\ Stands(l, h)
    BY <2>1 DEF Window, Detector
  <2>5. x \notin Ranks(controlTaken)
    <3> SUFFICES ASSUME NEW q \in controlTaken, x = q.place PROVE FALSE
      BY Zenon DEF Ranks
    <3>1. q = m
      BY <2>2, SameRank, Zenon DEF ControlInv, ControlNearby
    <3> QED BY <3>1, Zenon
  <2>6. h - x \in (1 - Half)..(window_size - 1)
    BY <1>2, Zenon
  <2> HIDE DEF h, x, l
  <2>7. Behind(l, m.index) = h - x
    <3>1. h - x \in -Half .. Half /\ h - x # -Half
      BY <2>3, <2>6, Sizes
    <3> QED BY <2>2, <2>3, <2>4, <3>1, BehindIs, Zenon
  <2>8. h - x < window_size /\ ~(h - x >= 0 /\ h - x \in controlDetector.mask)
    <3>1. h - x < window_size /\ (h - x >= 0 => h - x \in 0 .. window_size - 1)
      BY <2>3, <2>6, Sizes
    <3>2. h - x \in 0 .. window_size - 1 => h - x \notin controlDetector.mask
      BY <2>1, <2>2, <2>5, Zenon DEF Window
    <3> QED BY <3>1, <3>2, Zenon
  <2> QED BY <2>7, <2>8, Zenon DEF Passes, MaskBit, l
<1> QED BY <1>1, <1>2, Zenon DEF ControlWindow, Half
-----------------------------------------------------------------------------
(***************************************************************************)
(* The three together.  A step of one of them leaves the others alone.     *)
(***************************************************************************)
ReplayInv == WordsInv /\ StreamInv /\ ControlInv

\* A step of the whole is, for each part, a step of that part or none.
LEMMA ReplayParts ==
    [ReplayNext]_<<vars, wordVars, controlVars, part>>
        => [WordsNext]_wordVars /\ [Next]_vars /\ [ControlNext]_controlVars
BY Zenon DEF ReplayNext

\* The invariants of the three parts hold in every reachable state.
THEOREM ReplayInvariance == ReplaySpec => []ReplayInv
<1>1. ReplayInit => ReplayInv
  BY WordsInitial, StreamInit, ControlInitial, Zenon DEF ReplayInit, ReplayInv
<1>2. ReplayInv /\ [ReplayNext]_<<vars, wordVars, controlVars, part>> => ReplayInv'
  BY ReplayParts, WordsStep, StreamStep, ControlStep, Zenon DEF ReplayInv
<1> QED BY <1>1, <1>2, PTL DEF ReplaySpec

\* check() and accept() of the DTLS detector let no record number through twice and
\* refuse none of the window that was not accepted, for every window size and every
\* largest number.
THEOREM DetectorSoundTheorem == ReplaySpec => []DetectorSound
<1>1. ReplayInv => DetectorSound
  BY WordsHold, Zenon DEF ReplayInv
<1> QED BY <1>1, ReplayInvariance, PTL

\* The words of FixedBigInt hold the bits of the mask through every shift and every
\* set_bit, and bit() reads them, for every width of a word and every window size.
THEOREM WordsAgreeTheorem == ReplaySpec => []WordsAgree
<1>1. ReplayInv => WordsAgree
  BY WordsHold, Zenon DEF ReplayInv
<1> QED BY <1>1, ReplayInvariance, PTL

\* Every packet is encrypted with the number of wraps since the first one, and the
\* ROC of a packet at most MAX_ROC_DISORDER before or after the packet accepted last
\* is estimated correctly (next_rollover_count and update_rollover_count).
THEOREM RolloverExactTheorem == ReplaySpec => []RolloverExact
<1>1. ReplayInv => RolloverExact
  BY RolloverCounts, Zenon DEF ReplayInv, StreamInv
<1> QED BY <1>1, ReplayInvariance, PTL

\* In an SRTP stream and in its SRTCP packets, a packet that is close to the newest
\* one accepted and was not accepted passes the detector, and one is accepted twice
\* only where it was accepted from before a wrap, whose bit accept() does not set.
THEOREM PacketsOnceTheorem == ReplaySpec => []PacketsOnce
<1>1. ReplayInv => PacketsOnce
  BY StreamSound, ControlSound, Zenon DEF ReplayInv, PacketsOnce
<1> QED BY <1>1, ReplayInvariance, PTL
=============================================================================
