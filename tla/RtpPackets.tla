----------------------------- MODULE RtpPackets -----------------------------
(***************************************************************************)
(* RTP packets as bytes: the header and its extensions, the extensions the *)
(* stack knows, and the payload descriptors of VP8, VP9 and H.265 as the   *)
(* depacketizers read them.  A VP8 or VP9 depacketizer is an object used   *)
(* for one packet after the other: what it keeps from the packet before is *)
(* part of the model.                                                      *)
(*                                                                         *)
(* The descriptors of VP9 with layers and of H.265 are written by other    *)
(* implementations (external): the crate only reads them.                  *)
(***************************************************************************)
EXTENDS Octets

-----------------------------------------------------------------------------
(* The header.  extension_profile: "one", "two" (RFC 8285) or "other".     *)

RtpFixed == <<<<"sequence_number", 2>>, <<"timestamp", 4>>, <<"ssrc", 4>>>>

Profile(p) == CASE p = "one" -> <<190, 222>> [] p = "two" -> <<16, 0>> [] OTHER -> <<1, 2>>

ProfileOf(b) == CASE b = <<190, 222>> -> "one" [] b = <<16, 0>> -> "two" [] OTHER -> "other"

ExtensionHead(p) == CASE p = "one" -> 1 [] p = "two" -> 2 [] OTHER -> 0

GetExtensionPayloadLen(h) ==
    FoldLeft(LAMBDA a, e : a + ExtensionHead(h.profile) + Len(e.payload), 0, h.extensions)

\* The length field of a one-byte head is the length less one: an empty
\* payload wraps it and sets every bit.
OneByteHead(e) == IF e.payload = <<>> THEN 255 ELSE 16 * e.id + Len(e.payload) - 1

MarshalExtension(p, e) ==
    CASE p = "one" -> <<OneByteHead(e)>> \o e.payload
      [] p = "two" -> <<e.id, Len(e.payload) % 256>> \o e.payload
      [] OTHER -> e.payload

MarshalExtensions(h) ==
    LET n == GetExtensionPayloadLen(h)
    IN IF h.profile = "other" /\ (n % 4 # 0 \/ Len(h.extensions) # 1) THEN Err
       ELSE Ok(Profile(h.profile) \o Uint(2, (n + 3) \div 4)
                 \o FlattenSeq([k \in DOMAIN h.extensions |-> MarshalExtension(h.profile, h.extensions[k])])
                 \o Zeros(Pad4(n)))

MarshalRtpHeader(h) ==
    LET extensions == MarshalExtensions(h)
        flags == 128 + (IF h.padding THEN 32 ELSE 0) + (IF h.extension THEN 16 ELSE 0) + Len(h.csrc)
        fixed == <<flags, (IF h.marker THEN 128 ELSE 0) + h.payload_type>> \o Put(RtpFixed, h.fixed)
                     \o FlattenSeq([k \in DOMAIN h.csrc |-> Uint(4, h.csrc[k])])
    IN IF ~h.extension THEN Ok(fixed)
       ELSE IF ~extensions.ok THEN Err ELSE Ok(fixed \o extensions.value)

\* The extensions from position i to the end of the block; a zero byte is
\* padding, and the reserved number 15 ends a one-byte block at once, what is
\* left of it being taken for payload.
RECURSIVE Extensions(_, _, _, _)
Extensions(p, b, i, end) ==
    IF i > end THEN Ok([list |-> <<>>, next |-> i])
    ELSE IF b[i] = 0 THEN Extensions(p, b, i + 1, end)
    ELSE IF p = "one" /\ b[i] \div 16 = 15 THEN Ok([list |-> <<>>, next |-> i + 1])
    ELSE IF p = "two" /\ i = Len(b) THEN Panic
    ELSE LET id == IF p = "one" THEN b[i] \div 16 ELSE b[i]
             len == IF p = "one" THEN (b[i] % 16) + 1 ELSE b[i + 1]
             first == i + ExtensionHead(p)
         IN IF first + len - 1 > Len(b) THEN Panic
            ELSE Then(Extensions(p, b, first + len, end), LAMBDA rest :
                     Ok([list |-> <<[id |-> id, payload |-> SubSeq(b, first, first + len - 1)]>> \o rest.list,
                         next |-> rest.next]))

ReadExtensions(b, offset) ==
    LET profile == ProfileOf(SubSeq(b, offset + 1, offset + 2))
        end == offset + 4 + 4 * Number(b, offset + 3, 2)
    IN IF Len(b) < offset + 4 THEN Err
       ELSE IF Len(b) < end THEN Err
       ELSE IF profile = "other"
            THEN Ok([list |-> <<[id |-> 0, payload |-> SubSeq(b, offset + 5, end)]>>, next |-> end + 1])
            ELSE Extensions(profile, b, offset + 5, end)

\* The header and where the payload begins.
UnmarshalRtpHeader(b) ==
    LET cc == b[1] % 16
        extension == (b[1] \div 16) % 2 = 1
        offset == 12 + 4 * cc
    IN IF Len(b) < 4 THEN Err
       ELSE IF Len(b) < offset THEN Err
       ELSE Then(IF extension THEN ReadExtensions(b, offset) ELSE Ok([list |-> <<>>, next |-> offset + 1]),
                 LAMBDA read :
                     Ok([header |-> [padding |-> (b[1] \div 32) % 2 = 1, extension |-> extension,
                                     marker |-> b[2] >= 128, payload_type |-> b[2] % 128,
                                     fixed |-> Get(RtpFixed, b, 3),
                                     csrc |-> [k \in 1..cc |-> Number(b, 9 + 4 * k, 4)],
                                     profile |-> IF extension THEN ProfileOf(SubSeq(b, offset + 1, offset + 2))
                                                 ELSE "none",
                                     extensions |-> read.list],
                         next |-> read.next]))

\* Padding is at least one byte, the last of which counts it.
RtpPaddingFault(payload) ==
    [k \in 1..Pad4(Len(payload)) |-> IF k = Pad4(Len(payload)) THEN k ELSE 0]

RtpPadding(payload) ==
    LET n == IF Pad4(Len(payload)) = 0 THEN 4 ELSE Pad4(Len(payload))
    IN [k \in 1..n |-> IF k = n THEN n ELSE 0]

MarshalRtp(p) ==
    LET h == MarshalRtpHeader(p.header)
    IN IF ~h.ok THEN Err
       ELSE Ok(h.value \o p.payload \o (IF p.header.padding THEN RtpPadding(p.payload) ELSE <<>>))

UnmarshalRtp(b) ==
    Then(UnmarshalRtpHeader(b), LAMBDA h :
        LET payload == From(b, h.next)
            padding == payload[Len(payload)]
        IN IF ~h.header.padding THEN Ok([header |-> h.header, payload |-> payload])
           ELSE IF payload = <<>> THEN Err
           ELSE IF padding > Len(payload) THEN Err
           ELSE Ok([header |-> h.header, payload |-> SubSeq(payload, 1, Len(payload) - padding)]))
-----------------------------------------------------------------------------
(* set_extension, get_extension, del_extension.                            *)

ExtensionRefused(p, id, payload) ==
    CASE p = "one" -> id \notin 1..14 \/ Len(payload) > 16
      [] p = "two" -> id < 1 \/ Len(payload) > 255
      [] OTHER -> id # 0

\* The first extension chooses the profile by its length; its number is not
\* looked at.
SetExtension(h, id, payload) ==
    LET at == {k \in DOMAIN h.extensions : h.extensions[k].id = id}
        first == CHOOSE k \in at : \A j \in at : k <= j
        new == [id |-> id, payload |-> payload]
    IN CASE ~h.extension ->
              [h EXCEPT !.extension = TRUE, !.extensions = Append(@, new),
                        !.profile = CASE Len(payload) <= 16 -> "one"
                                      [] Len(payload) \in 17..255 -> "two" [] OTHER -> "other"]
         [] h.extension /\ ExtensionRefused(h.profile, id, payload) -> h
         [] h.extension /\ ~ExtensionRefused(h.profile, id, payload) ->
              [h EXCEPT !.extensions = IF at = {} THEN Append(@, new) ELSE [@ EXCEPT ![first] = new]]

DelExtension(h, id) ==
    LET at == {k \in DOMAIN h.extensions : h.extensions[k].id = id}
        first == CHOOSE k \in at : \A j \in at : k <= j
    IN IF ~h.extension \/ at = {} THEN h ELSE [h EXCEPT !.extensions = RemoveAt(@, first)]

GetExtension(h, id) ==
    LET at == {k \in DOMAIN h.extensions : h.extensions[k].id = id}
        first == CHOOSE k \in at : \A j \in at : k <= j
    IN IF ~h.extension \/ at = {} THEN Err ELSE Ok(h.extensions[first].payload)
-----------------------------------------------------------------------------
(* The extensions known: what stands in their payload.                     *)

MarshalHeaderExtension(e) ==
    CASE e.kind = "abs_send_time" -> Ok(Uint(3, e.timestamp))
      [] e.kind = "audio_level" ->
             IF e.level > 127 THEN Err ELSE Ok(<<(IF e.voice THEN 128 ELSE 0) + e.level>>)
      [] e.kind = "transport_cc" -> Ok(Uint(2, e.transport_sequence))
      [] e.kind = "video_orientation" ->
             Ok(<<8 * e.direction + (IF e.flip THEN 4 ELSE 0) + e.rotation>>)

AbsSendTime(b) ==
    IF Len(b) < 3 THEN Err ELSE Ok([kind |-> "abs_send_time", timestamp |-> Number(b, 1, 3)])

AudioLevel(b) ==
    IF b = <<>> THEN Err ELSE Ok([kind |-> "audio_level", level |-> b[1] % 128, voice |-> b[1] >= 128])

TransportCc(b) ==
    IF Len(b) < 2 THEN Err ELSE Ok([kind |-> "transport_cc", transport_sequence |-> Number(b, 1, 2)])

VideoOrientation(b) ==
    IF b = <<>> THEN Err
    ELSE Ok([kind |-> "video_orientation", direction |-> (b[1] \div 8) % 2,
             flip |-> (b[1] \div 4) % 2 = 1, rotation |-> b[1] % 4])

UnmarshalHeaderExtension(kind, b) ==
    CASE kind = "abs_send_time" -> AbsSendTime(b) [] kind = "audio_level" -> AudioLevel(b)
      [] kind = "transport_cc" -> TransportCc(b) [] kind = "video_orientation" -> VideoOrientation(b)

AbsSendTimeModulus == 2^24

\* estimate: the last time before the reception that has the bits sent; both
\* in units of the extension.
Estimate(timestamp, receive) ==
    LET same == receive - (receive % AbsSendTimeModulus) + (timestamp % AbsSendTimeModulus)
    IN IF receive < same THEN same - AbsSendTimeModulus ELSE same
-----------------------------------------------------------------------------
(* The VP8 descriptor.  d: what the Vp8Packet holds from before.           *)

Bit(b, k) == (b \div 2^k) % 2 = 1

Vp8Fresh ==
    [x |-> FALSE, n |-> FALSE, s |-> FALSE, pid |-> 0, i |-> FALSE, l |-> FALSE, t |-> FALSE, k |-> FALSE,
     picture_id |-> 0, tl0_pic_idx |-> 0, tid |-> 0, y |-> FALSE, key_idx |-> 0]

\* The packet behind a descriptor that ends before position i.
Behind(d, b, i) == IF i > Len(b) THEN [d |-> d, result |-> Err] ELSE [d |-> d, result |-> Ok(From(b, i))]

\* Without X the flags of the packet before stay, and the bytes they announce
\* are read.
Vp8Flags(d, b) ==
    LET head == [d EXCEPT !.x = Bit(b[1], 7), !.n = Bit(b[1], 5), !.s = Bit(b[1], 4), !.pid = b[1] % 8]
    IN IF head.x THEN [head EXCEPT !.i = Bit(b[2], 7), !.l = Bit(b[2], 6), !.t = Bit(b[2], 5), !.k = Bit(b[2], 4)]
       ELSE head

Vp8Optional(d, b) ==
    LET i0 == IF d.x THEN 3 ELSE 2
        long == d.i /\ b[i0] >= 128
        pid == CASE ~d.i -> d.picture_id [] d.i /\ long -> (b[i0] % 128) * 256 + b[i0 + 1] [] OTHER -> b[i0]
        i1 == i0 + (IF ~d.i THEN 0 ELSE IF long THEN 2 ELSE 1)
        i2 == i1 + (IF d.l THEN 1 ELSE 0)
        i3 == i2 + (IF d.t \/ d.k THEN 1 ELSE 0)
        d1 == [d EXCEPT !.picture_id = pid]
        d2 == IF d.l THEN [d1 EXCEPT !.tl0_pic_idx = b[i1]] ELSE d1
        d3 == IF d.t THEN [d2 EXCEPT !.tid = b[i2] \div 64, !.y = Bit(b[i2], 5)] ELSE d2
        d4 == IF d.k THEN [d3 EXCEPT !.key_idx = b[i2] % 32] ELSE d3
    IN CASE i1 > Len(b) -> [d |-> d1, result |-> Err]
         [] i1 <= Len(b) /\ i2 > Len(b) -> [d |-> d2, result |-> Err]
         [] OTHER -> Behind(d4, b, i3)

ReadVp8(d, b) ==
    IF Len(b) < 4 THEN [d |-> d, result |-> Err] ELSE Vp8Optional(Vp8Flags(d, b), b)
-----------------------------------------------------------------------------
(* The VP9 descriptor.  The lists of a Vp9Packet only grow.                *)

Vp9Fresh ==
    [flags |-> 0, picture_id |-> 0, tid |-> 0, u |-> FALSE, sid |-> 0, d |-> FALSE, tl0picidx |-> 0,
     pdiff |-> <<>>, ns |-> 0, y |-> FALSE, g |-> FALSE, ng |-> 0, sizes |-> <<>>, pg |-> <<>>, pgpdiff |-> <<>>]

\* A step of the reader: the object, the position, and whether it goes on.
Step(d, i, ok) == [d |-> d, i |-> i, ok |-> ok]

ParsePictureId(s, b) ==
    IF s.i > Len(b) THEN Step(s.d, s.i, FALSE)
    ELSE IF b[s.i] < 128 THEN Step([s.d EXCEPT !.picture_id = b[s.i]], s.i + 1, TRUE)
    ELSE IF s.i + 1 > Len(b) THEN Step(s.d, s.i, FALSE)
    ELSE Step([s.d EXCEPT !.picture_id = (b[s.i] % 128) * 256 + b[s.i + 1]], s.i + 2, TRUE)

ParseLayerInfoCommon(s, b) ==
    IF s.i > Len(b) THEN Step(s.d, s.i, FALSE)
    ELSE LET d == [s.d EXCEPT !.tid = b[s.i] \div 32, !.u = Bit(b[s.i], 4),
                              !.sid = (b[s.i] \div 2) % 8, !.d = Bit(b[s.i], 0)]
         IN Step(d, s.i + 1, d.sid < 5)

ParseLayerInfo(s, b) ==
    LET c == ParseLayerInfoCommon(s, b)
    IN IF ~c.ok \/ Bit(c.d.flags, 4) THEN c
       ELSE IF c.i > Len(b) THEN Step(c.d, c.i, FALSE)
       ELSE Step([c.d EXCEPT !.tl0picidx = b[c.i]], c.i + 1, TRUE)

\* The third index kept is one too many.
RECURSIVE ParseRefIndices(_, _)
ParseRefIndices(s, b) ==
    IF s.i > Len(b) THEN Step(s.d, s.i, FALSE)
    ELSE LET d == [s.d EXCEPT !.pdiff = Append(@, b[s.i] \div 2)]
         IN IF Len(d.pdiff) >= 3 THEN Step(d, s.i + 1, FALSE)
            ELSE IF Bit(b[s.i], 0) THEN ParseRefIndices(Step(d, s.i + 1, TRUE), b)
            ELSE Step(d, s.i + 1, TRUE)

\* Picture k of n of the group; its references go to entry k of the list.
RECURSIVE PictureGroup(_, _, _, _)
PictureGroup(s, b, k, n) ==
    IF k > n THEN s
    ELSE IF s.i > Len(b) THEN Step(s.d, s.i, FALSE)
    ELSE LET r == (b[s.i] \div 4) % 4
             d == [s.d EXCEPT !.pg = Append(@, [tid |-> b[s.i] \div 32, u |-> Bit(b[s.i], 4)])]
             refs == SubSeq(b, s.i + 1, s.i + r)
         IN IF s.i + r > Len(b) THEN Step(d, s.i + 1, FALSE)
            ELSE PictureGroup(Step([d EXCEPT !.pgpdiff = [Append(@, <<>>) EXCEPT ![k] = @ \o refs]],
                                   s.i + 1 + r, TRUE), b, k + 1, n)

ParseSsdata(s, b) ==
    LET v == b[s.i]
        ns == (v \div 32) + 1
        d == [s.d EXCEPT !.ns = ns - 1, !.y = Bit(v, 4), !.g = (v \div 2) % 8 # 0, !.ng = 0]
        i1 == s.i + 1 + (IF d.y THEN 4 * ns ELSE 0)
        d1 == IF ~d.y THEN d
              ELSE [d EXCEPT !.sizes = [k \in 1..ns |-> [width |-> Number(b, s.i + 4 * k - 3, 2),
                                                         height |-> Number(b, s.i + 4 * k - 1, 2)]]]
    IN IF s.i > Len(b) THEN Step(s.d, s.i, FALSE)
       ELSE IF i1 - 1 > Len(b) THEN Step(d, s.i + 1, FALSE)
       ELSE IF d.g /\ i1 > Len(b) THEN Step(d1, i1, FALSE)
       ELSE IF ~d.g THEN Step(d1, i1, TRUE)
       ELSE PictureGroup(Step([d1 EXCEPT !.ng = b[i1]], i1 + 1, TRUE), b, 1, b[i1])

\* The flags I P L F B E V Z.
ReadVp9(d0, b) ==
    LET s0 == Step([d0 EXCEPT !.flags = b[1]], 2, TRUE)
        s1 == IF Bit(b[1], 7) THEN ParsePictureId(s0, b) ELSE s0
        s2 == IF s1.ok /\ Bit(b[1], 5) THEN ParseLayerInfo(s1, b) ELSE s1
        s3 == IF s2.ok /\ Bit(b[1], 4) /\ Bit(b[1], 6) THEN ParseRefIndices(s2, b) ELSE s2
        s4 == IF s3.ok /\ Bit(b[1], 1) THEN ParseSsdata(s3, b) ELSE s3
    IN IF b = <<>> THEN [d |-> d0, result |-> Err]
       ELSE [d |-> s4.d, result |-> IF s4.ok THEN Ok(From(b, s4.i)) ELSE Err]
-----------------------------------------------------------------------------
(* H.265 payloads: a single unit, an aggregation, a fragment, or PACI.     *)

NaluTypeOf(b) == (b[1] \div 2) % 64

H265Kind(b) ==
    CASE NaluTypeOf(b) = 48 -> "aggregation" [] NaluTypeOf(b) = 49 -> "fragment"
      [] NaluTypeOf(b) = 50 -> "paci" [] OTHER -> "single"

\* donl: whether decoding order numbers are there.
SingleNalu(b, donl) ==
    IF donl /\ Len(b) <= 4 THEN Err
    ELSE Ok([kind |-> "single", header |-> SubSeq(b, 1, 2), donl |-> IF donl THEN SubSeq(b, 3, 4) ELSE <<>>,
             payload |-> From(b, IF donl THEN 5 ELSE 3)])

\* The units behind the first; what does not add up to one more is dropped.
RECURSIVE AggregationUnits(_, _, _)
AggregationUnits(b, i, donl) ==
    LET at == IF donl THEN i + 1 ELSE i
        size == Number(b, at, 2)
    IN IF at + 1 > Len(b) THEN <<>>
       ELSE IF at + 1 + size > Len(b) THEN <<>>
       ELSE <<[order |-> IF donl THEN <<b[i]>> ELSE <<>>, unit |-> SubSeq(b, at + 2, at + 1 + size)]>>
                \o AggregationUnits(b, at + 2 + size, donl)

AggregationPacket(b, donl) ==
    LET at == IF donl THEN 5 ELSE 3
        size == Number(b, at, 2)
        units == AggregationUnits(b, at + 2 + size, donl)
    IN IF at + 1 > Len(b) THEN Err
       ELSE IF at + 1 + size > Len(b) THEN Err
       ELSE IF units = <<>> THEN Err
       ELSE Ok([kind |-> "aggregation",
                units |-> <<[order |-> IF donl THEN SubSeq(b, 3, 4) ELSE <<>>,
                             unit |-> SubSeq(b, at + 2, at + 1 + size)]>> \o units])

FragmentationUnit(b, donl) ==
    LET numbered == donl /\ b[3] >= 128
    IN IF Len(b) <= 3 THEN Err
       ELSE IF numbered /\ Len(b) <= 5 THEN Err
       ELSE Ok([kind |-> "fragment", header |-> SubSeq(b, 1, 2), fu |-> b[3],
                donl |-> IF numbered THEN SubSeq(b, 4, 5) ELSE <<>>, payload |-> From(b, IF numbered THEN 6 ELSE 4)])

\* Fields A, cType, the size of the extension (5 bits), and four flags.
Paci(b) ==
    LET size == (Number(b, 3, 2) \div 16) % 32
    IN IF Len(b) <= 4 THEN Err
       ELSE IF Len(b) - 4 < size + 1 THEN Err
       ELSE Ok([kind |-> "paci", header |-> SubSeq(b, 1, 2), fields |-> Number(b, 3, 2),
                phes |-> SubSeq(b, 5, 4 + size), payload |-> From(b, 5 + size)])

ReadH265(b, donl) ==
    IF Len(b) <= 2 THEN Err
    ELSE IF b[1] >= 128 THEN Err
    ELSE CASE H265Kind(b) = "paci" -> Paci(b) [] H265Kind(b) = "fragment" -> FragmentationUnit(b, donl)
           [] H265Kind(b) = "aggregation" -> AggregationPacket(b, donl) [] OTHER -> SingleNalu(b, donl)

\* What a sender puts into a payload (RFC 7798).
WriteH265(p) ==
    CASE p.kind = "single" -> p.header \o p.donl \o p.payload
      [] p.kind = "aggregation" ->
             <<96, 1>> \o FlattenSeq([k \in DOMAIN p.units |->
                              p.units[k].order \o Uint(2, Len(p.units[k].unit)) \o p.units[k].unit])
      [] p.kind = "fragment" -> p.header \o <<p.fu>> \o p.donl \o p.payload
      [] p.kind = "paci" -> p.header \o Uint(2, p.fields) \o p.phes \o p.payload
=============================================================================
