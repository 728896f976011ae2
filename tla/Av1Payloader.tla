---------------------------- MODULE Av1Payloader ----------------------------
(***************************************************************************)
(* The AV1 payloader: the units of a frame (OBUs) are found in what the    *)
(* encoder wrote, laid out over packets of limited size, and written with  *)
(* the aggregation header that tells a receiver how to join them.          *)
(***************************************************************************)
EXTENDS Octets

-----------------------------------------------------------------------------
(* LEB128, for sizes below 2^14.                                           *)

RECURSIVE Encoded(_, _)
Encoded(val, b) ==
    LET c == b + (val % 128)
    IN IF val < 128 THEN c ELSE Encoded(val \div 128, (c + 128) * 256)

\* The bytes of the code in one number, the first the most significant.
EncodeLeb128(val) == Encoded(val, 0)

RECURSIVE Decoded(_, _)
Decoded(val, b) ==
    LET c == b + (val % 128)
    IN IF val < 256 THEN c ELSE Decoded(val \div 256, c * 128)

DecodeLeb128(val) == Decoded(val, 0)

\* The number at the beginning of b, and of how many bytes it is.
ReadLeb128(b) ==
    LET end == CHOOSE i \in DOMAIN b : b[i] < 128 /\ \A j \in 1..(i - 1) : b[j] >= 128
    IN IF \E i \in DOMAIN b : b[i] < 128
       THEN [value |-> DecodeLeb128(Number(b, 1, end)), used |-> end]
       ELSE [value |-> 0, used |-> 0]

RECURSIVE SevenBits(_)
SevenBits(n) == IF n < 128 THEN <<n>> ELSE <<128 + (n % 128)>> \o SevenBits(n \div 128)

\* put_leb128 encodes what encode_leb128 has already encoded.
PutLeb128(n) == SevenBits(EncodeLeb128(n))
-----------------------------------------------------------------------------
(* The units in the encoder's output.                                      *)

ObuHasExtension(header) == (header \div 4) % 2 = 1

ObuHasSize(header) == (header \div 2) % 2 = 1

ObuType(header) == (header \div 8) % 16

\* Temporal delimiters, tile lists and padding are not sent.
ShouldIgnore(type) == type \in {2, 8, 15}

HeaderSize(o) == IF ObuHasExtension(o.header) THEN 2 ELSE 1

ObuSize(o) == HeaderSize(o) + Len(o.payload)

\* The unit at the beginning of b, and what comes after it.
ObuAt(b, head, size) ==
    LET start == head + size.used
    IN [obu |-> [header |-> b[1], extension |-> IF head = 2 THEN b[2] ELSE 0,
                 payload |-> SubSeq(b, start + 1, start + size.value)],
        rest |-> From(b, start + size.value + 1)]

RECURSIVE ParseObus(_)
ParseObus(b) ==
    LET head == IF ObuHasExtension(b[1]) THEN 2 ELSE 1
        at == ObuAt(b, head, IF ObuHasSize(b[1]) THEN ReadLeb128(From(b, head + 1))
                             ELSE [value |-> Len(b) - head, used |-> 0])
        kept == IF ShouldIgnore(ObuType(b[1])) THEN <<>> ELSE <<at.obu>>
    IN IF b = <<>> THEN Ok(<<>>)
       ELSE IF Len(b) < head \/ (ObuHasSize(b[1]) /\ Len(b) = head) THEN Err
       ELSE Then(ParseObus(at.rest), LAMBDA rest : Ok(kept \o rest))
-----------------------------------------------------------------------------
(* The layout.  A packet: the first unit in it, the units or fragments,    *)
(* where in the first unit it starts, the size of the last fragment, and   *)
(* the bytes used.                                                         *)

Leb128Size(n) == IF n < 128 THEN 1 ELSE 2

OmitSize == 3

NewPacket(k) == [first |-> k, elements |-> 0, offset |-> 0, last_size |-> 0, size |-> 0]

\* The size of the element that is no longer the last.
AdditionalBytesFault(packet) == 0

AdditionalBytes(packet) ==
    IF packet.size = 0 \/ packet.elements > OmitSize THEN 0 ELSE Leb128Size(packet.last_size)

MaxFragmentSize(remaining) ==
    CASE remaining <= 1 -> 0 [] remaining \in 2..128 -> remaining - 1 [] OTHER -> remaining - 2

Fragment(k, offset, size) ==
    [first |-> k, elements |-> 1, offset |-> offset, last_size |-> size, size |-> size]

\* The rest of a unit from an offset: full packets, then what is left.
RECURSIVE Fragmented(_, _, _, _)
Fragmented(k, offset, size, max) ==
    IF offset + max < size
    THEN <<Fragment(k, offset, max)>> \o Fragmented(k, offset + max, size, max)
    ELSE <<Fragment(k, offset, size - offset)>>

\* Unit k, of n bytes, put behind the packets laid out so far.
PutObu(done, k, n, max) ==
    LET last == done.packets[Len(done.packets)]
        extra0 == AdditionalBytes(last)
        fresh == done.left < extra0 + (IF last.elements >= OmitSize THEN 2 ELSE 1)
        before == IF fresh THEN done.packets ELSE Front(done.packets)
        extra == IF fresh THEN 0 ELSE extra0
        old == IF fresh THEN NewPacket(k) ELSE last
        packet == [old EXCEPT !.size = @ + extra, !.elements = @ + 1]
        left == (IF fresh THEN max ELSE done.left) - extra
        sized == packet.elements > OmitSize
        required == n + (IF sized THEN Leb128Size(n) ELSE 0)
        most == IF sized THEN MaxFragmentSize(left) ELSE left
        part == IF n - 1 < most THEN n - 1 ELSE most
        cut == IF part = 0 THEN [packet EXCEPT !.elements = @ - 1, !.size = @ - extra]
               ELSE [packet EXCEPT !.size = @ + part + (IF sized THEN Leb128Size(part) ELSE 0),
                                   !.last_size = part]
        tail == Fragmented(k, part, n, max)
    IN IF required < left
       THEN [packets |-> Append(before, [packet EXCEPT !.last_size = n, !.size = @ + required]),
             left |-> left - required]
       ELSE [packets |-> Append(before, cut) \o tail, left |-> max - tail[Len(tail)].size]

PacketizeObus(obus, mtu) ==
    IF obus = <<>> \/ mtu < 3 THEN <<>>
    ELSE FoldLeft(LAMBDA done, k : PutObu(done, k, ObuSize(obus[k]), mtu - 1),
                  [packets |-> <<NewPacket(1)>>, left |-> mtu - 1], [k \in DOMAIN obus |-> k]).packets
-----------------------------------------------------------------------------
(* The payloads.                                                           *)

\* Z, Y, W and N.
GetAggregationHeader(obus, packets, k) ==
    LET p == packets[k]
        lastOffset == IF p.elements = 1 THEN p.offset ELSE 0
        continued == lastOffset + p.last_size < ObuSize(obus[p.first + p.elements - 1])
    IN (IF p.offset > 0 THEN 128 ELSE 0) + (IF continued THEN 64 ELSE 0)
        + (IF p.elements <= OmitSize THEN 16 * p.elements ELSE 0)
        + (IF k = 1 /\ ObuType(obus[1].header) = 1 THEN 8 ELSE 0)

\* A unit as it is sent: without the size bit.
ObuBytes(o) ==
    <<IF ObuHasSize(o.header) THEN o.header - 2 ELSE o.header>>
        \o (IF HeaderSize(o) = 2 THEN <<o.extension>> ELSE <<>>) \o o.payload

Element(o, offset, size) == SubSeq(ObuBytes(o), offset + 1, offset + size)

Av1Packet(obus, packets, k) ==
    LET p == packets[k]
        Offset(i) == IF i = 1 THEN p.offset ELSE 0
        Unit(i) == obus[p.first + i - 1]
        Whole(i) == ObuSize(Unit(i)) - Offset(i)
    IN <<GetAggregationHeader(obus, packets, k)>>
        \o FlattenSeq([i \in 1..(p.elements - 1) |-> PutLeb128(Whole(i)) \o Element(Unit(i), Offset(i), Whole(i))])
        \o (IF p.elements > OmitSize THEN PutLeb128(p.last_size) ELSE <<>>)
        \o Element(Unit(p.elements), Offset(p.elements), p.last_size)

Av1Payload(mtu, b) ==
    LET obus == ParseObus(b)
        packets == PacketizeObus(obus.value, mtu)
    IN IF ~obus.ok THEN Err
       ELSE Ok([k \in DOMAIN packets |-> Av1Packet(obus.value, packets, k)])
-----------------------------------------------------------------------------
(* The receiver (external): elements by W or by their sizes, joined by Z   *)
(* and Y.                                                                  *)

RECURSIVE Elements(_, _)
Elements(b, w) ==
    IF b = <<>> THEN <<>>
    ELSE IF w = 1 THEN <<b>>
    ELSE LET size == ReadLeb128(b)
             end == Min({size.used + size.value, Len(b)})
         IN <<SubSeq(b, size.used + 1, end)>> \o Elements(From(b, end + 1), w - 1)

Joined(done, b) ==
    LET elements == Elements(Tail(b), (b[1] \div 16) % 4)
    IN IF b[1] >= 128 /\ done # <<>>
       THEN Front(done) \o <<done[Len(done)] \o elements[1]>> \o Tail(elements)
       ELSE done \o elements

Rejoined(payloads) == FoldLeft(Joined, <<>>, payloads)
=============================================================================
