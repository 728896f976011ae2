------------------------------- MODULE Octets -------------------------------
(***************************************************************************)
(* Bytes and the integers in them, most significant byte first, as the     *)
(* readers and writers of the bytes crate have them (external).  A wire    *)
(* format is a sequence of numbers below 256; a list of fields with their  *)
(* widths stands for the calls of put_u8, put_u16... or get_u8, get_u16... *)
(* that write or read them one after the other.  What reads returns a      *)
(* result: a value, or an error.                                           *)
(***************************************************************************)
EXTENDS Integers, Sequences, SequencesExt

Digit(v, k) == IF k > 3 THEN 0 ELSE (v \div 256^k) % 256

\* v in w bytes; what does not fit is cut off.
Uint(w, v) == [k \in 1..w |-> Digit(v, w - k)]

\* The number in the w bytes of b from position i (1 is the first).
Number(b, i, w) == FoldLeft(LAMBDA a, d : 256 * a + d, 0, SubSeq(b, i, i + w - 1))

\* Fields: <<name, width>>.
Size(fields) == FoldLeft(LAMBDA a, f : a + f[2], 0, fields)

Put(fields, r) == FlattenSeq([k \in DOMAIN fields |-> Uint(fields[k][2], r[fields[k][1]])])

Get(fields, b, i) ==
    LET Names == {fields[k][1] : k \in DOMAIN fields}
        Place(n) == CHOOSE k \in DOMAIN fields : fields[k][1] = n
        Start(n) == i + Size(SubSeq(fields, 1, Place(n) - 1))
    IN [n \in Names |-> Number(b, Start(n), fields[Place(n)][2])]

From(b, i) == SubSeq(b, i, Len(b))

Zeros(n) == [k \in 1..n |-> 0]

Pad4(n) == (4 - (n % 4)) % 4

Ok(v) == [ok |-> TRUE, value |-> v]

Err == [ok |-> FALSE, value |-> <<>>]

\* A read past the end of a buffer.
Panic == [ok |-> FALSE, value |-> <<"panic">>]

\* What comes after a call that may fail.
Then(r, Rest(_)) == IF r.ok THEN Rest(r.value) ELSE r

\* n values of a fixed size, one after the other from position i.
Many(fields, n, b, i) == [k \in 1..n |-> Get(fields, b, i + (k - 1) * Size(fields))]

PutMany(fields, s) == FlattenSeq([k \in DOMAIN s |-> Put(fields, s[k])])
=============================================================================
