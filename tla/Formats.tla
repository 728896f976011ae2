------------------------------ MODULE Formats -------------------------------
(***************************************************************************)
(* The written formats: what one end writes, the other end, or the same    *)
(* crate in it, reads.  A behaviour is about one format; a step adds items *)
(* (a packet to a datagram, a call that changes a header, a unit of a      *)
(* frame, a payload for the same depacketizer) and has the whole written   *)
(* and read again.  So the reader is met with what is left over from the   *)
(* items before: padding, lists that only grow, flags that stay.           *)
(***************************************************************************)
EXTENDS Rtcp, RtpPackets, Av1Payloader, Sdp

CONSTANTS
    FormatItems,   \* what is written, for every format
    FormatLimit,   \* how many of them
    Mtus           \* for the formats of AV1, the sizes a frame is cut to

VARIABLES
    format,
    items,
    written, \* what was written: bytes, or a sequence of payloads
    read     \* what was read

formatVars == <<format, items, written, read>>
-----------------------------------------------------------------------------
(* Writers.                                                                *)

\* Packets of all types, and longer datagrams of the types a compound needs.
RtcpFormats == {"rtcp", "compound"}

NackPacket(seqs) ==
    [kind |-> "nack", ssrcs |-> [sender_ssrc |-> 1, media_ssrc |-> 2],
     entries |-> NackPairsFromSequenceNumbers(seqs)]

\* An RTP packet, and the calls that change it before it is sent.
RtpBlank ==
    [header |-> [padding |-> FALSE, extension |-> FALSE, marker |-> FALSE, payload_type |-> 96,
                 fixed |-> [sequence_number |-> 65535, timestamp |-> 258, ssrc |-> 7],
                 csrc |-> <<>>, profile |-> "none", extensions |-> <<>>],
     payload |-> <<7, 8, 9>>]

\* The payload is raw, or one of the extensions known.
ExtensionPayload(c) == IF "known" \in DOMAIN c THEN MarshalHeaderExtension(c.known).value ELSE c.payload

RtpCall(p, c) ==
    CASE c.call = "set_extension" -> [p EXCEPT !.header = SetExtension(@, c.id, ExtensionPayload(c))]
      [] c.call = "del_extension" -> [p EXCEPT !.header = DelExtension(@, c.id)]
      [] c.call = "csrc" -> [p EXCEPT !.header.csrc = Append(@, c.id), !.header.marker = ~@]
      [] c.call = "pad" -> [p EXCEPT !.header.padding = TRUE, !.payload = c.payload]

RtpPacket(calls) == FoldLeft(RtpCall, RtpBlank, calls)

\* Frames of AV1, with short units and with long ones.
Av1Formats == {"av1", "av1_long"}

\* What the encoder of AV1 wrote (external).
ObuFrame(s) ==
    FlattenSeq([k \in DOMAIN s |->
        <<s[k].header>> \o (IF HeaderSize(s[k]) = 2 THEN <<s[k].extension>> ELSE <<>>)
            \o (IF ObuHasSize(s[k].header) THEN SevenBits(Len(s[k].payload)) ELSE <<>>) \o s[k].payload])

\* Calls that build a session description; most are about its last section.
SectionCall(m, c) ==
    CASE c.call = "codec" -> WithCodec(m, c.codec)
      [] c.call = "rtcp-fb" -> WithValueAttribute(m, <<"rtcp-fb">>, c.text)
      [] c.call = "credentials" -> WithIceCredentials(m, c.text, c.text)
      [] c.call = "candidate" -> WithCandidate(m, c.text)
      [] c.call = "source" -> WithMediaSource(m, 7, c.text, c.text, c.text)
      [] c.call = "extmap" -> WithExtmap(m, c.extmap)
      [] c.call = "transport_cc" -> WithTransportCcExtmap(m, c.text)

SdpCall(d, c) ==
    LET n == Len(d.media_descriptions)
    IN CASE c.call = "media" -> [d EXCEPT !.media_descriptions = Append(@, NewJsepMediaDescription(c.text))]
         [] c.call = "fingerprint" -> WithFingerprint(d, <<"sha-256">>, c.text)
         [] OTHER -> IF n = 0 THEN d ELSE [d EXCEPT !.media_descriptions[n] = SectionCall(@, c)]

BuiltSdp(calls) == FoldLeft(SdpCall, NewJsepSessionDescription(TRUE), calls)

Written(f, s) ==
    CASE f \in RtcpFormats -> Marshal(s)
      [] f = "nack" -> Marshal(<<NackPacket(s)>>)
      [] f = "rtp" -> MarshalRtp(RtpPacket(s))
      [] f \in {"vp8", "vp9"} -> Ok([k \in DOMAIN s |-> s[k].head \o s[k].body])
      [] f = "h265" -> Ok([k \in DOMAIN s |-> WriteH265(s[k])])
      [] f \in Av1Formats -> Ok([m \in Mtus[f] |-> Av1Payload(m, ObuFrame(s))])
      [] f = "abs_send_time" ->
             Ok([k \in DOMAIN s |->
                    MarshalHeaderExtension([kind |-> "abs_send_time", timestamp |-> s[k].send]).value])
      [] f = "sdp" -> Ok(MarshalSdp(BuiltSdp(s)))
      [] f = "sdp_text" -> Ok([k \in DOMAIN s |-> [key |-> s[k].key, text |-> s[k].text]])

\* An AV1 unit without a size reaches to the end of its frame; after a line
\* that is refused no other is read.
More(f, s) ==
    /\ f \in Av1Formats => \A k \in DOMAIN s : ObuHasSize(s[k].header)
    /\ f = "sdp_text" => ReadLines(s).ok
-----------------------------------------------------------------------------
(* Readers.                                                                *)

\* The results of one depacketizer for payloads one after the other.
Successive(Reader(_, _), fresh, payloads) ==
    FoldLeft(LAMBDA a, b : LET r == Reader(a.d, b) IN [d |-> r.d, results |-> Append(a.results, r.result)],
             [d |-> fresh, results |-> <<>>], payloads).results

Readback(f, s, bytes) ==
    CASE f \in RtcpFormats \cup {"nack"} -> Unmarshal(bytes)
      [] f = "rtp" -> UnmarshalRtp(bytes)
      [] f = "vp8" -> Successive(ReadVp8, Vp8Fresh, bytes)
      [] f = "vp9" -> Successive(ReadVp9, Vp9Fresh, bytes)
      [] f = "h265" -> [k \in DOMAIN s |-> ReadH265(bytes[k], s[k].ordered)]
      [] f \in Av1Formats -> [m \in Mtus[f] |-> Rejoined(bytes[m].value)]
      [] f = "abs_send_time" ->
             [k \in DOMAIN s |-> Estimate(AbsSendTime(bytes[k]).value.timestamp, s[k].receive)]
      [] f \in {"sdp", "sdp_text"} -> UnmarshalSdp(bytes)
-----------------------------------------------------------------------------

FormatsInit ==
    /\ format \in DOMAIN FormatItems
    /\ items = <<>> /\ written = Ok(<<>>) /\ read = Err

Write(item) ==
    /\ Len(items) < FormatLimit[format]
    /\ More(format, items)
    /\ items' = Append(items, item)
    /\ written' = Written(format, items')
    /\ read' = IF written'.ok THEN Readback(format, items', written'.value) ELSE Err
    /\ UNCHANGED format

FormatsNext == \E item \in FormatItems[format] : Write(item)
-----------------------------------------------------------------------------
(* RTCP.                                                                   *)

\* What marshal refuses.
Refused(p) ==
    \/ p.kind \in {"rr", "sr"} /\ Len(p.reports) > CountMax
    \/ p.kind = "tcc" /\ \E k \in DOMAIN p.deltas : DeltaRefused(p.deltas[k])
    \/ p.kind = "remb" /\ p.bitrate.m < 0

\* What is written and cannot be read: transport feedback whose status chunks
\* end with the packet, and run lengths of an odd number of chunks.
Unreadable(p) ==
    \/ p.kind = "tcc" /\ p.deltas = <<>> /\ p.chunks # <<>> /\ Len(p.chunks) % 2 = 0
    \/ /\ p.kind = "xr"
       /\ \E k \in DOMAIN p.reports : p.reports[k].type \in {1, 2} /\ Len(p.reports[k].parts) % 2 = 1

\* What is written and read as something else: slice losses, which are
\* written as transport feedback and looked for as payload feedback; a count
\* of 25 bits, of which 24 are written; extensions that do not fill their
\* last word, which get the padding; a bitrate of 0; and the type of a raw
\* packet that nobody knows.
Distorted(p) ==
    \/ p.kind = "sli"
    \/ /\ p.kind \in {"rr", "sr"}
       /\ Pad4(Len(p.profile_extensions)) # 0 \/ \E k \in DOMAIN p.reports : p.reports[k].total_lost >= 2^24
    \/ p.kind = "remb" /\ p.bitrate.m = 0
    \/ p.kind = "raw" /\ PacketType(p.bytes[2]) = 0

\* A bitrate has 18 bits on the wire, and at most RembMax is written.
OnTheWire(p) ==
    LET rate == RembClamped(p.bitrate)
        n == RembHalvings(rate.m)
    IN IF p.kind # "remb" THEN p ELSE [p EXCEPT !.bitrate = [m |-> rate.m \div 2^n, e |-> rate.e + n]]

\* A datagram of RTCP packets is refused whole if one packet has too many
\* reports, a delta out of range or a negative bitrate.  Otherwise it is read
\* as the packets that were written, each in its place: no packet's padding,
\* length or lists reach into the next, whatever becomes of a Distorted one.
\* Of a datagram with an Unreadable packet nothing is claimed: the code
\* loses all of it.
RtcpReread ==
    format \in RtcpFormats /\ items # <<>> =>
        /\ written.ok <=> \A k \in DOMAIN items : ~Refused(items[k])
        /\ written.ok /\ ~(\E k \in DOMAIN items : Unreadable(items[k])) =>
              /\ read.ok /\ Len(read.value) = Len(items)
              /\ \A k \in DOMAIN items : Distorted(items[k]) \/ read.value[k] = OnTheWire(items[k])

\* A compound packet that validate accepts is still valid at the receiver,
\* and cname finds a name there; and every packet but slice losses is about
\* the same streams (destination_ssrc) as at the sender.
CompoundNamed ==
    format \in RtcpFormats /\ items # <<>> /\ read.ok =>
        /\ Validate(items) => Validate(read.value) /\ Cname(read.value).ok
        /\ \A k \in DOMAIN items :
              items[k].kind # "sli" => DestinationSsrc(read.value[k]) = DestinationSsrc(items[k])

\* The pairs made of the numbers of lost packets, written and read, stand for
\* these packets and no others: at the edge of a pair's window, where the
\* numbers begin anew, and whatever the order of the losses.
NackCover ==
    format = "nack" /\ items # <<>> =>
        Range(items) = UNION {Range(PacketList(read.value[1].entries[k])) : k \in DOMAIN read.value[1].entries}
-----------------------------------------------------------------------------
(* RTP.                                                                    *)

\* What a reader of the profile can tell apart from padding and from an end.
Legible(h) ==
    \A k \in DOMAIN h.extensions :
        LET e == h.extensions[k]
        IN CASE h.profile = "one" -> e.id \in 1..14 /\ e.payload # <<>>
             [] h.profile = "two" -> e.id # 0
             [] OTHER -> e.id = 0

SetsOf(id) == {k \in DOMAIN items : items[k].call = "set_extension" /\ items[k].id = id}

\* The calls of set_extension that count: the first, and those its profile
\* allows.
Counts(k) ==
    LET before == RtpPacket(SubSeq(items, 1, k - 1)).header
    IN ~before.extension \/ ~ExtensionRefused(before.profile, items[k].id, ExtensionPayload(items[k]))

Deleted(id, k) == \E j \in k..Len(items) : items[j].call = "del_extension" /\ items[j].id = id

\* A packet with legible extensions is read as it was written, padded or not,
\* and the receiver finds under every number the payload of the last call
\* that counts, unless it was deleted after it; if that was one of the
\* extensions known, it is read from there with every field.
ExtensionsArrive ==
    LET p == RtpPacket(items)
        h == read.value.header
    IN format = "rtp" /\ written.ok /\ items # <<>> /\ Legible(p.header) =>
        /\ read = Ok(p)
        /\ \A id \in 0..15 :
              LET sets == {k \in SetsOf(id) : Counts(k)}
                  last == CHOOSE k \in sets : \A j \in sets : j <= k
              IN GetExtension(h, id) = IF sets = {} THEN Err
                                       ELSE IF Deleted(id, last) THEN Err ELSE Ok(ExtensionPayload(items[last]))
        /\ \A k \in DOMAIN items :
              "known" \in DOMAIN items[k] =>
                  UnmarshalHeaderExtension(items[k].known.kind, ExtensionPayload(items[k])) = Ok(items[k].known)

\* The send time a receiver works out is the one of the sender if the packet
\* was under way for less than the 64 seconds the 24 bits stand for.
SendTimeRecovered ==
    format = "abs_send_time" =>
        \A k \in DOMAIN items :
            items[k].receive - items[k].send < AbsSendTimeModulus => read[k] = items[k].send
-----------------------------------------------------------------------------
(* Descriptors.                                                            *)

\* Flags that a VP8 packet without X finds from the one before.
StaleFlags(k) ==
    /\ items[k].head[1] < 128
    /\ \E j \in 1..(k - 1) : items[j].head[1] >= 128 /\ items[j].head[2] >= 16

ReferencesRead(k) == FoldLeft(LAMBDA a, item : a + item.references, 0, SubSeq(items, 1, k))

\* The list of reference indices of a Vp9Packet only grows: this packet has
\* some, and with them it has three, at which it is refused.
ListFull(k) == items[k].references > 0 /\ ReferencesRead(k) >= 3

\* A depacketizer used for packet after packet cuts off exactly the
\* descriptor, and refuses one that is cut short.  Not claimed for VP8 are
\* the packets without the extension byte after one with it, and for VP9
\* those with reference indices once three were read over all packets: the
\* code cuts the former wrongly and refuses the latter.
DescriptorsSplit ==
    format \in {"vp8", "vp9"} => \A k \in DOMAIN items :
        \/ read[k] = IF items[k].whole THEN Ok(items[k].body) ELSE Err
        \/ format = "vp8" /\ StaleFlags(k)
        \/ format = "vp9" /\ ListFull(k)

\* An H.265 payload is told apart by its type, and each of its units,
\* fragments and extensions is found with its decoding order number.
UnitsFound ==
    format = "h265" => \A k \in DOMAIN items : read[k] = Ok([f \in DOMAIN items[k] \ {"ordered"} |-> items[k][f]])

\* No size of 128 or more, which put_leb128 would encode twice, can be
\* written in packets of m bytes: there is no room for such an element and
\* its size, or no such unit.
SizesShort(m, s) == m < 130 \/ \A k \in DOMAIN s : ObuSize(s[k]) < 128

\* The AV1 packets of a frame fit, say in step whether a unit goes on in the
\* next packet, and a receiver joins them to the units that are sent, without
\* their sizes, whatever way they were split or put together, as long as the
\* sizes written are below 128.  Of longer ones nothing is claimed: the code
\* writes them in a way no receiver reads.
ObusCarried ==
    LET sent == SelectSeq(items, LAMBDA o : ~ShouldIgnore(ObuType(o.header)))
    IN format \in Av1Formats /\ items # <<>> => \A m \in {n \in Mtus[format] : SizesShort(n, sent)} :
        LET payloads == written.value[m].value
        IN /\ m < 3 => payloads = <<>>
           /\ m >= 3 => read[m] = [k \in DOMAIN sent |-> ObuBytes(sent[k])]
           /\ \A k \in DOMAIN payloads :
                 /\ Len(payloads[k]) \in 2..m
                 /\ Bit(payloads[k][1], 6) <=> k < Len(payloads) /\ Bit(payloads[k + 1][1], 7)
-----------------------------------------------------------------------------
(* Session descriptions.                                                   *)

\* The order of lines the standard gives for the session.
LineRank == [v |-> 1, o |-> 2, s |-> 3, i |-> 4, u |-> 5, e |-> 6, p |-> 7, c |-> 8, b |-> 9, t |-> 10, r |-> 10,
             z |-> 11, k |-> 12, a |-> 13]

Repeated == {LineRank["b"], LineRank["t"], LineRank["a"]}

\* Lines before the first section, and lines of the n-th.
LinesOf(n) ==
    LET full == SelectSeq(items, LAMBDA l : l.key # "")
        section(k) == Len(SelectSeq(SubSeq(full, 1, k), LAMBDA l : l.key = "m"))
    IN SelectSeq([k \in DOMAIN full |-> [line |-> full[k], section |-> section(k)]], LAMBDA x : x.section = n)

Keys(n) == Each(LAMBDA x : x.line.key, LinesOf(n))

SectionCount == Len(SelectSeq(items, LAMBDA l : l.key = "m"))

SessionOrdered(keys) ==
    /\ IsPrefix(<<"v", "o", "s">>, keys)
    /\ \E k \in DOMAIN keys : keys[k] = "t"
    /\ Range(keys) \subseteq DOMAIN LineRank
    /\ \A k \in 1..(Len(keys) - 1) :
          LET here == LineRank[keys[k]]
              next == LineRank[keys[k + 1]]
          IN (here < next /\ keys[k + 1] # "r") \/ (here = next /\ here \in Repeated)

\* A description is taken if and only if its session part has the lines of
\* the standard in the order of the standard, one time description at least,
\* its sections have lines of a section, in any order, and each line for
\* itself is well formed.
SdpOrder ==
    format = "sdp_text" =>
        (read.ok <=> /\ SessionOrdered(Keys(0))
                     /\ \A n \in 1..SectionCount : Range(Keys(n)) \subseteq {"m", "i", "c", "b", "k", "a"}
                     /\ \A k \in DOMAIN items : items[k].good)

TextsOf(n, key) == Each(LAMBDA x : Trim(x.line.text), SelectSeq(LinesOf(n), LAMBDA x : x.line.key = key))

LastOf(s) == IF s = <<>> THEN <<>> ELSE <<Last(s)>>

\* A description that is taken says what its lines say, section by section:
\* every attribute and bandwidth, in order, under the section it stands in,
\* and of titles, keys and connections the last one.  Written again and read
\* again it is the same.
SdpLinesKept ==
    format = "sdp_text" /\ read.ok =>
        LET d == read.value
            Same(x, title, n) ==
                /\ Each(AttributeText, x.attributes) = TextsOf(n, "a")
                /\ Len(x.bandwidth) = Len(TextsOf(n, "b"))
                /\ x.encryption_key = LastOf(TextsOf(n, "k"))
                /\ Each(ConnectionText, x.connection_information) = LastOf(TextsOf(n, "c"))
                /\ title = LastOf(TextsOf(n, "i"))
        IN /\ Len(d.media_descriptions) = SectionCount
           /\ Same(d, d.session_information, 0)
           /\ \A n \in 1..SectionCount : Same(d.media_descriptions[n], d.media_descriptions[n].media_title, n)
           /\ UnmarshalSdp(MarshalSdp(d)) = Ok(d)

Extmaps == SelectSeq(items, LAMBDA c : c.call = "extmap")

\* What is built with the calls of the crate is read as it was built, but for
\* the key of an attribute that has a colon in it, unless a section was given
\* no codec: then all of it is refused.  Extensions with a number up to 246,
\* an address and one attribute of one word at most are found as they were
\* given; nothing is claimed of the others, some of which the code refuses
\* though its message says 1-256.
SdpBuilt ==
    format = "sdp" /\ items # <<>> =>
        LET built == BuiltSdp(items)
            apart(a) == IF ":" \in Range(a.key) THEN [key |-> <<Head(a.key)>>, value |-> <<From(a.key, 3)>>] ELSE a
            heard(m) == [m EXCEPT !.attributes = Each(apart, @)]
        IN /\ read = IF \E k \in DOMAIN built.media_descriptions : built.media_descriptions[k].media_name.formats = <<>>
                     THEN Err
                     ELSE Ok([built EXCEPT !.media_descriptions = Each(heard, @)])
           /\ \A k \in DOMAIN Extmaps :
                 LET e == Extmaps[k].extmap
                 IN e.value \in 1..246 /\ e.uri # <<>> /\ Len(FlattenSeq(e.ext_attr)) <= 1 =>
                        UnmarshalExtMap(MarshalExtMap(e)) = Ok(e)

\* Calls that take effect.
SectionCalls(call) ==
    {k \in DOMAIN items : items[k].call = call /\ \E j \in 1..(k - 1) : items[j].call = "media"}

\* The calls that give a codec, or feedback, for a payload type.
CodecCalls(pt) == {k \in SectionCalls("codec") : items[k].codec.payload_type = pt}

FeedbackCalls(pt) ==
    SelectSeq([k \in DOMAIN items |-> k], LAMBDA k : k \in SectionCalls("rtcp-fb") /\ Head(items[k].text) = ToString(pt))

FoundAsGiven(found, given) ==
    /\ found.encoding_parameters = IF given.channels = 0 THEN <<>> ELSE Num(given.channels)
    /\ " " \notin Range(given.fmtp) => found.fmtp = given.fmtp
    /\ found.rtcp_feedback = Each(LAMBDA k : From(items[k].text, 3), FeedbackCalls(given.payload_type))

\* The payload types told to who asks for a codec by its name in other letters.
Answers(found) == GetPayloadTypeForCodec(read.value, [found EXCEPT !.name = Lowercase(@)])

NameOf(pt) == Lowercase(GetCodecForPayloadType(read.value, pt).value.name)

\* A payload type given to one codec only is found with the name, clock rate,
\* channels, parameters (unless there are blanks in them, which parse_fmtp
\* does not take) and all feedback of that codec, wherever the lines of the
\* other payload types stand.  One given to several has the name and the
\* clock rate of the first of them; nothing is claimed of what merge_codecs
\* adds from the others.  And who asks for a codec by its name in other
\* letters is told a payload type of that name.
CodecsFound ==
    format = "sdp" /\ read.ok =>
        \A k \in SectionCalls("codec") :
            LET pt == items[k].codec.payload_type
                given == items[Min(CodecCalls(pt))].codec
                Right(found) ==
                    /\ found.payload_type = pt /\ found.name = given.name /\ found.clock_rate = given.clockrate
                    /\ Cardinality(CodecCalls(pt)) = 1 => FoundAsGiven(found, given)
                    /\ Answers(found) # {} /\ \A other \in Answers(found) : NameOf(other) = Lowercase(found.name)
            IN Right(GetCodecForPayloadType(read.value, pt).value)

\* A datagram of RTCP packets means to the receiver what it meant to the sender.
RtcpCarried == RtcpReread /\ CompoundNamed

\* So does an RTP packet: its extensions, the time in them, and the descriptor
\* or units its payload begins with.
RtpCarried == ExtensionsArrive /\ SendTimeRecovered /\ DescriptorsSplit /\ UnitsFound

\* A description in any order of lines is refused or taken whole.
SdpRead == SdpOrder /\ SdpLinesKept

\* A description built with the calls of the crate is found again.
SdpWritten == SdpBuilt /\ CodecsFound
=============================================================================
