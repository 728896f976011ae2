-------------------------------- MODULE Rtcp --------------------------------
(***************************************************************************)
(* RTCP packets: how they are written, how a datagram of several is read,  *)
(* and what makes a compound packet valid.  A packet is a record with its  *)
(* kind; MarshalPacket is marshal_to of its type with the header, and      *)
(* every unmarshal gets the bytes of one packet, as unmarshaller cuts them *)
(* out by the length in the header.                                        *)
(*                                                                         *)
(* Texts and extensions are sequences of bytes.  A REMB bitrate is a       *)
(* number and not a float: the ones written are whole.                     *)
(***************************************************************************)
EXTENDS Octets, FiniteSets

\* Reports, chunks or sources of a packet.
CountMax == 31

-----------------------------------------------------------------------------
(* The header.                                                             *)

SenderReport == 200
ReceiverReport == 201
SourceDescription == 202
Goodbye == 203
ApplicationDefined == 204
TransportFeedback == 205
PayloadFeedback == 206
ExtendedReport == 207

\* PacketType::from: an unknown type is Unsupported, 0.
PacketType(b) == IF b \in SenderReport..ExtendedReport THEN b ELSE 0

GetPaddingSize(n) == IF n % 4 = 0 THEN 0 ELSE 4 - (n % 4)

\* put_padding: the last byte is the number of bytes.
PutPadding(n) ==
    [k \in 1..GetPaddingSize(n) |-> IF k = GetPaddingSize(n) THEN GetPaddingSize(n) ELSE 0]

MarshalHeader(h) ==
    IF h.count > CountMax THEN Err
    ELSE Ok(<<2 * 64 + (IF h.padding THEN 32 ELSE 0) + h.count, h.type>> \o Uint(2, h.length))

UnmarshalHeader(b) ==
    IF Len(b) < 4 \/ b[1] \div 64 # 2 THEN Err
    ELSE Ok([padding |-> (b[1] \div 32) % 2 = 1, count |-> b[1] % 32,
             type |-> PacketType(b[2]), length |-> Number(b, 3, 2)])

\* The formats of feedback.
Format ==
    [nack |-> 1, rrr |-> 5, tcc |-> 15, pli |-> 1, sli |-> 2, fir |-> 4, remb |-> 15]

\* header and marshal_to of a packet with this body: the length in the header
\* is that of the packet with its padding.
Framed(type, count, body) ==
    LET padding == GetPaddingSize(4 + Len(body))
    IN Then(MarshalHeader([padding |-> padding # 0, count |-> count, type |-> type,
                           length |-> (4 + Len(body) + padding) \div 4 - 1]),
            LAMBDA h : Ok(h \o body \o PutPadding(4 + Len(body))))

\* Each unmarshal ends with advance(remaining()): what is left of its packet
\* after i bytes is padding.
SkipRestFault(b, i) == i

SkipRest(b, i) == Len(b)

Read(p, b, i) == Ok([packet |-> p, used |-> SkipRest(b, i)])
-----------------------------------------------------------------------------
(* Sender and receiver reports.                                            *)

ReceptionReport ==
    <<<<"ssrc", 4>>, <<"fraction_lost", 1>>, <<"total_lost", 3>>, <<"last_sequence_number", 4>>,
      <<"jitter", 4>>, <<"last_sender_report", 4>>, <<"delay", 4>>>>

\* total_lost has 24 bits; marshal_to refuses numbers of more than 25.
MarshalReception(reports) ==
    IF \E k \in DOMAIN reports : reports[k].total_lost >= 2^25 THEN Err
    ELSE Ok(PutMany(ReceptionReport, reports))

UnmarshalReception(n, b, i) == Many(ReceptionReport, n, b, i)

SenderInfo ==
    <<<<"ssrc", 4>>, <<"ntp_time", 8>>, <<"rtp_time", 4>>, <<"packet_count", 4>>, <<"octet_count", 4>>>>

ReceiverInfo == <<<<"ssrc", 4>>>>

MarshalReport(type, fields, p) ==
    IF Len(p.reports) > CountMax THEN Err
    ELSE Then(MarshalReception(p.reports), LAMBDA reports :
             Framed(type, Len(p.reports), Put(fields, p.info) \o reports \o p.profile_extensions))

MarshalSenderReport(p) == MarshalReport(SenderReport, SenderInfo, p)

MarshalReceiverReport(p) == MarshalReport(ReceiverReport, ReceiverInfo, p)

UnmarshalReport(kind, type, fields, b) ==
    LET h == UnmarshalHeader(b)
        first == 5 + Size(fields)
        last == first + 24 * h.value.count - 1
    IN IF Len(b) < 4 + Size(fields) \/ ~h.ok THEN Err
       ELSE IF h.value.type # type \/ last > Len(b) THEN Err
       ELSE Read([kind |-> kind, info |-> Get(fields, b, 5),
                  reports |-> UnmarshalReception(h.value.count, b, first),
                  profile_extensions |-> From(b, last + 1)], b, Len(b))

UnmarshalSenderReport(b) == UnmarshalReport("sr", SenderReport, SenderInfo, b)

UnmarshalReceiverReport(b) == UnmarshalReport("rr", ReceiverReport, ReceiverInfo, b)
-----------------------------------------------------------------------------
(* Source descriptions.                                                    *)

SdesItemSize(it) == 2 + Len(it.text)

SdesRawSize(c) == 5 + FoldLeft(LAMBDA a, it : a + SdesItemSize(it), 0, c.items)

\* SdesType::from: 0 ends the items, and so does a type unknown.
SdesType(t) == IF t \in 1..8 THEN t ELSE 0

MarshalSdesChunk(c) ==
    Uint(4, c.source)
        \o FlattenSeq([k \in DOMAIN c.items |-> <<c.items[k].type, Len(c.items[k].text)>> \o c.items[k].text])
        \o <<0>> \o PutPadding(SdesRawSize(c))

\* Missing type, text too long.
SdesRefused(c) == \E k \in DOMAIN c.items : c.items[k].type = 0 \/ Len(c.items[k].text) > 255

\* The items from position i of a chunk that began at start: items and where
\* the chunk ends.
RECURSIVE SdesItems(_, _, _)
SdesItems(b, start, i) ==
    IF i > Len(b) THEN Err
    ELSE IF SdesType(b[i]) = 0
    THEN LET end == i + GetPaddingSize(i - start + 1)
         IN IF end > Len(b) THEN Err ELSE Ok([items |-> <<>>, end |-> end])
    ELSE IF i + 1 > Len(b) \/ i + 1 + b[i + 1] > Len(b) THEN Err
    ELSE LET rest == SdesItems(b, start, i + 2 + b[i + 1])
         IN IF ~rest.ok THEN Err
            ELSE Ok([items |-> <<[type |-> b[i], text |-> SubSeq(b, i + 2, i + 1 + b[i + 1])]>>
                                   \o rest.value.items, end |-> rest.value.end])

RECURSIVE SdesChunks(_, _)
SdesChunks(b, i) ==
    IF i > Len(b) THEN Ok(<<>>)
    ELSE IF Len(b) - i + 1 < 5 THEN Err
    ELSE LET c == SdesItems(b, i, i + 4)
         IN IF ~c.ok THEN Err
            ELSE LET rest == SdesChunks(b, c.value.end + 1)
                 IN IF ~rest.ok THEN Err
                    ELSE Ok(<<[source |-> Number(b, i, 4), items |-> c.value.items]>> \o rest.value)

MarshalSdes(p) ==
    IF Len(p.chunks) > CountMax \/ \E k \in DOMAIN p.chunks : SdesRefused(p.chunks[k]) THEN Err
    ELSE Framed(SourceDescription, Len(p.chunks),
                FlattenSeq([k \in DOMAIN p.chunks |-> MarshalSdesChunk(p.chunks[k])]))

UnmarshalSdes(b) ==
    LET h == UnmarshalHeader(b)
        chunks == SdesChunks(b, 5)
    IN IF ~h.ok \/ ~chunks.ok THEN Err
       ELSE IF h.value.type # SourceDescription \/ Len(chunks.value) # h.value.count THEN Err
       ELSE Read([kind |-> "sdes", chunks |-> chunks.value], b, Len(b))
-----------------------------------------------------------------------------
(* Goodbye.  The length of the reason is written also if there is none.    *)

MarshalGoodbye(p) ==
    IF Len(p.sources) > CountMax \/ Len(p.reason) > 255 THEN Err
    ELSE Framed(Goodbye, Len(p.sources),
                FlattenSeq([k \in DOMAIN p.sources |-> Uint(4, p.sources[k])]) \o <<Len(p.reason)>> \o p.reason)

UnmarshalGoodbye(b) ==
    LET h == UnmarshalHeader(b)
        offset == 4 + 4 * h.value.count
        reason == IF offset < Len(b) THEN b[offset + 1] ELSE 0
        end == IF offset < Len(b) THEN offset + 1 + reason ELSE offset
    IN IF ~h.ok THEN Err
       ELSE IF h.value.type # Goodbye \/ GetPaddingSize(Len(b)) # 0 \/ offset > Len(b) THEN Err
       ELSE IF end > Len(b) THEN Err
       ELSE Read([kind |-> "bye", sources |-> [k \in 1..h.value.count |-> Number(b, 4 * k + 1, 4)],
                  reason |-> SubSeq(b, offset + 2, end)], b, end)
-----------------------------------------------------------------------------
(* Feedback: picture loss, resynchronization, full intra, slice loss,      *)
(* NACK, and the estimated bitrate.                                        *)

FeedbackSsrcs == <<<<"sender_ssrc", 4>>, <<"media_ssrc", 4>>>>

FirEntry == <<<<"ssrc", 4>>, <<"sequence_number", 1>>, <<"reserved", 3>>>>

NackPair == <<<<"packet_id", 2>>, <<"lost_packets", 2>>>>

\* Three numbers of 13, 13 and 6 bits.
SliEntry(e) == Uint(4, ((e.first % 2^13) * 2^19) + ((e.number % 2^13) * 2^6) + (e.picture % 2^6))

GetSliEntry(b, i) ==
    LET v == Number(b, i, 4)
    IN [first |-> (v \div 2^19) % 2^13, number |-> (v \div 2^6) % 2^13, picture |-> v % 2^6]

\* Two requests consist of the identifiers alone.
UnmarshalRequest(kind, type, b) ==
    LET h == UnmarshalHeader(b)
    IN IF Len(b) < 12 \/ ~h.ok THEN Err
       ELSE IF h.value.type # type \/ h.value.count # Format[kind] THEN Err
       ELSE Read([kind |-> kind, ssrcs |-> Get(FeedbackSsrcs, b, 5)], b, 12)

MarshalPli(p) == Framed(PayloadFeedback, Format.pli, Put(FeedbackSsrcs, p.ssrcs))

UnmarshalPli(b) == UnmarshalRequest("pli", PayloadFeedback, b)

MarshalRrr(p) == Framed(TransportFeedback, Format.rrr, Put(FeedbackSsrcs, p.ssrcs))

UnmarshalRrr(b) == UnmarshalRequest("rrr", TransportFeedback, b)

\* Three have a list of entries, size bytes each, to the length of the
\* header.
UnmarshalEntries(kind, type, size, Entry(_, _), b) ==
    LET h == UnmarshalHeader(b)
        n == (4 * h.value.length - 8 + size - 1) \div size
    IN IF Len(b) < 8 \/ ~h.ok THEN Err
       ELSE IF Len(b) < 4 + 4 * h.value.length \/ h.value.type # type \/ h.value.count # Format[kind] THEN Err
       ELSE Read([kind |-> kind, ssrcs |-> Get(FeedbackSsrcs, b, 5),
                  entries |-> [k \in 1..n |-> Entry(b, 13 + (k - 1) * size)]], b, 12 + n * size)

MarshalFir(p) ==
    Framed(PayloadFeedback, Format.fir, Put(FeedbackSsrcs, p.ssrcs) \o PutMany(FirEntry, p.entries))

UnmarshalFir(b) == UnmarshalEntries("fir", PayloadFeedback, 8, LAMBDA c, i : Get(FirEntry, c, i), b)

\* SLI is written as transport feedback, and looked for as payload feedback
\* (unmarshaller).
MarshalSli(p) ==
    Framed(TransportFeedback, Format.sli,
           Put(FeedbackSsrcs, p.ssrcs) \o FlattenSeq([k \in DOMAIN p.entries |-> SliEntry(p.entries[k])]))

UnmarshalSli(b) == UnmarshalEntries("sli", TransportFeedback, 4, GetSliEntry, b)

MarshalNack(p) ==
    IF Len(p.entries) + 2 > 255 THEN Err
    ELSE Framed(TransportFeedback, Format.nack, Put(FeedbackSsrcs, p.ssrcs) \o PutMany(NackPair, p.entries))

UnmarshalNack(b) == UnmarshalEntries("nack", TransportFeedback, 4, LAMBDA c, i : Get(NackPair, c, i), b)

\* A bitrate is the float m * 2^e, where m has 18 bits or more if e is not 0.
RembMax == [m |-> 262143, e |-> 63]

AtLeastRembMax(rate) ==
    \/ rate.e >= RembMax.e /\ rate.m * 2^(rate.e - RembMax.e) >= RembMax.m
    \/ rate.e \in (RembMax.e - 6)..(RembMax.e - 1) /\ rate.m >= RembMax.m * 2^(RembMax.e - rate.e)

RembClamped(rate) == IF AtLeastRembMax(rate) THEN RembMax ELSE rate

\* How often a bitrate is halved until 18 bits of it are left.
RECURSIVE RembHalvings(_)
RembHalvings(m) == IF m >= 2^18 THEN 1 + RembHalvings(m \div 2) ELSE 0

MarshalRemb(p) ==
    LET rate == RembClamped(p.bitrate)
        exp == rate.e + RembHalvings(rate.m)
        mantissa == rate.m \div 2^RembHalvings(rate.m)
    IN IF rate.m < 0 \/ exp >= 2^6 THEN Err ELSE Framed(PayloadFeedback, Format.remb,
              Uint(4, p.sender_ssrc) \o Zeros(4) \o <<82, 69, 77, 66, Len(p.ssrcs) % 256>>
                  \o Uint(3, exp * 2^18 + mantissa)
                  \o FlattenSeq([k \in DOMAIN p.ssrcs |-> Uint(4, p.ssrcs[k])]))

\* The float is put together from exponent and mantissa; with a mantissa of 0
\* the implicit leading bit makes it 2^23 times the power.
RembBitrate(exp, mantissa) == IF mantissa = 0 THEN [m |-> 1, e |-> 23 + exp] ELSE [m |-> mantissa, e |-> exp]

UnmarshalRemb(b) ==
    LET h == UnmarshalHeader(b)
    IN IF Len(b) < 20 \/ ~h.ok THEN Err
       ELSE IF \/ h.value.type # PayloadFeedback \/ h.value.count # Format.remb
               \/ Number(b, 9, 4) # 0 \/ SubSeq(b, 13, 16) # <<82, 69, 77, 66>> THEN Err
       ELSE Read([kind |-> "remb", sender_ssrc |-> Number(b, 5, 4),
                  bitrate |-> RembBitrate(b[18] \div 4, (b[18] % 4) * 2^16 + Number(b, 19, 2)),
                  ssrcs |-> [k \in 1..b[17] |-> Number(b, 17 + 4 * k, 4)]], b, 20 + 4 * b[17])
-----------------------------------------------------------------------------
(* Transport-wide congestion control: chunks of packet states, then the    *)
(* deltas of the packets received.  Symbols: 0 not received, 1 received    *)
(* with a small delta, 2 with a large one, 3 without.                      *)

TccHead ==
    <<<<"sender_ssrc", 4>>, <<"media_ssrc", 4>>, <<"base_sequence_number", 2>>,
      <<"packet_status_count", 2>>, <<"reference_time", 3>>, <<"fb_pkt_count", 1>>>>

RunLengthChunk(c) == Uint(2, c.symbol * 2^13 + (c.run_length % 2^13))

\* Two bits of kind, then 14 symbols of one bit or 7 of two.
StatusVectorChunk(c) ==
    LET bits == IF c.two_bit THEN 2 ELSE 1
        value == FoldLeft(LAMBDA a, k : a + (c.symbols[k] % 2^bits) * 2^(14 - bits * k), 0,
                          [k \in DOMAIN c.symbols |-> k])
    IN Uint(2, 2^15 + (IF c.two_bit THEN 2^14 ELSE 0) + value)

TccChunk(c) == IF c.run THEN RunLengthChunk(c) ELSE StatusVectorChunk(c)

GetTccChunk(b, i) ==
    LET v == Number(b, i, 2)
        bits == IF (v \div 2^14) % 2 = 1 THEN 2 ELSE 1
    IN IF v < 2^15 THEN [run |-> TRUE, symbol |-> v \div 2^13, run_length |-> v % 2^13]
       ELSE [run |-> FALSE, two_bit |-> bits = 2,
             symbols |-> [k \in 1..14 \div bits |-> (v \div 2^(14 - bits * k)) % 2^bits]]

\* A delta in units of 250 microseconds.
Scaled(us) == IF us >= 0 THEN us \div 250 ELSE -((-us) \div 250)

DeltaSize(d) == IF d.symbol = 1 THEN 1 ELSE 2

DeltaRefused(d) ==
    ~ \/ d.symbol = 1 /\ Scaled(d.delta) \in 0..255
      \/ d.symbol = 2 /\ Scaled(d.delta) \in -2^15..2^15 - 1

\* A large delta of which there is only one byte is read as a small one.
GetDelta(symbol, b, i) ==
    LET size == IF i + symbol - 1 > Len(b) THEN 1 ELSE symbol
        v == Number(b, i, size)
    IN [symbol |-> size, delta |-> 250 * (IF size = 2 /\ v >= 2^15 THEN v - 2^16 ELSE v)]

MarshalTcc(p) ==
    IF \E k \in DOMAIN p.deltas : DeltaRefused(p.deltas[k]) THEN Err
    ELSE Framed(TransportFeedback, Format.tcc,
                Put(TccHead, p.head) \o FlattenSeq([k \in DOMAIN p.chunks |-> TccChunk(p.chunks[k])])
                    \o FlattenSeq([k \in DOMAIN p.deltas |->
                                     Uint(DeltaSize(p.deltas[k]), Scaled(p.deltas[k].delta))]))

\* The symbols of a chunk that tell of a delta; a run goes at most to the end
\* of the packets reported, a vector is taken whole.
ChunkDeltas(c, left) ==
    SelectSeq(IF c.run THEN [k \in 1..(IF c.run_length < left THEN c.run_length ELSE left) |-> c.symbol]
              ELSE c.symbols, LAMBDA s : s \in {1, 2})

ChunkPackets(c, left) ==
    IF ~c.run THEN Len(c.symbols) ELSE IF c.run_length < left THEN c.run_length ELSE left

\* Chunks from position i until left packets are accounted for; there has to
\* be something behind each chunk.
RECURSIVE TccChunks(_, _, _)
TccChunks(b, i, left) ==
    IF left <= 0 THEN Ok([chunks |-> <<>>, symbols |-> <<>>, end |-> i])
    ELSE IF i + 1 >= Len(b) THEN Err
    ELSE LET c == GetTccChunk(b, i)
             rest == TccChunks(b, i + 2, left - ChunkPackets(c, left))
         IN IF ~rest.ok THEN Err
            ELSE Ok([chunks |-> <<c>> \o rest.value.chunks,
                     symbols |-> ChunkDeltas(c, left) \o rest.value.symbols, end |-> rest.value.end])

RECURSIVE TccDeltas(_, _, _)
TccDeltas(b, i, symbols) ==
    IF symbols = <<>> THEN Ok(<<>>)
    ELSE IF i > Len(b) THEN Err
    ELSE LET rest == TccDeltas(b, i + GetDelta(symbols[1], b, i).symbol, Tail(symbols))
         IN IF ~rest.ok THEN Err ELSE Ok(<<GetDelta(symbols[1], b, i)>> \o rest.value)

UnmarshalTcc(b) ==
    LET h == UnmarshalHeader(b)
        head == Get(TccHead, b, 5)
        chunks == TccChunks(b, 21, head.packet_status_count)
        deltas == TccDeltas(b, chunks.value.end, chunks.value.symbols)
    IN IF Len(b) < 20 \/ ~h.ok THEN Err
       ELSE IF \/ Len(b) < 4 * (h.value.length + 1) \/ h.value.type # TransportFeedback
               \/ h.value.count # Format.tcc \/ ~chunks.ok THEN Err
       ELSE IF ~deltas.ok THEN Err
       ELSE Read([kind |-> "tcc", head |-> head, chunks |-> chunks.value.chunks,
                  deltas |-> deltas.value], b, Len(b))
-----------------------------------------------------------------------------
(* Extended reports: blocks with a header of their own.                    *)

RleHead == <<<<"ssrc", 4>>, <<"begin_seq", 2>>, <<"end_seq", 2>>>>

RleChunk == <<<<"chunk", 2>>>>

ReceiptTime == <<<<"receipt_time", 4>>>>

DlrrReport == <<<<"ssrc", 4>>, <<"last_rr", 4>>, <<"dlrr", 4>>>>

ReferenceTime == <<<<"ntp_timestamp", 8>>>>

StatisticsSummary ==
    <<<<"ssrc", 4>>, <<"begin_seq", 2>>, <<"end_seq", 2>>, <<"lost_packets", 4>>,
      <<"dup_packets", 4>>, <<"min_jitter", 4>>, <<"max_jitter", 4>>, <<"mean_jitter", 4>>,
      <<"dev_jitter", 4>>, <<"min_ttl_or_hl", 1>>, <<"max_ttl_or_hl", 1>>,
      <<"mean_ttl_or_hl", 1>>, <<"dev_ttl_or_hl", 1>>>>

VoipMetrics ==
    <<<<"ssrc", 4>>, <<"loss_rate", 1>>, <<"discard_rate", 1>>, <<"burst_density", 1>>,
      <<"gap_density", 1>>, <<"burst_duration", 2>>, <<"gap_duration", 2>>,
      <<"round_trip_delay", 2>>, <<"end_system_delay", 2>>, <<"signal_level", 1>>,
      <<"noise_level", 1>>, <<"rerl", 1>>, <<"gmin", 1>>, <<"rfactor", 1>>, <<"ext_rfactor", 1>>,
      <<"mos_lq", 1>>, <<"mos_cq", 1>>, <<"rx_config", 1>>, <<"reserved", 1>>, <<"jb_nominal", 2>>,
      <<"jb_maximum", 2>>, <<"jb_abs_max", 2>>>>

\* A block: its fixed fields and the fields of its repeated part.  The length
\* in its header counts whole words.
BlockLengthFault(size) == size \div 4

BlockLength(size) == size \div 4 - 1

WriteBlock(head, part, r) ==
    LET body == Put(head, r.head) \o PutMany(part, r.parts)
    IN <<r.type, r.specific>> \o Uint(2, BlockLength(4 + Len(body))) \o body

\* The block at position i: what it is and where it ends.
ReadBlock(type, specific, head, part, b, i) ==
    LET length == 4 * Number(b, i + 2, 2)
        fixed == Size(head)
    IN IF \/ length < fixed \/ i + 3 + length > Len(b)
          \/ (IF part = <<>> THEN length # fixed ELSE (length - fixed) % Size(part) # 0) THEN Err
       ELSE Ok([block |-> [type |-> type, specific |-> specific, head |-> Get(head, b, i + 4),
                           parts |-> IF part = <<>> THEN <<>>
                                     ELSE Many(part, (length - fixed) \div Size(part), b, i + 4 + fixed)],
                end |-> i + 4 + length])

\* The thinning is kept, and the flags of a summary: an unknown kind of hop
\* count becomes none.
Thinning(v) == v % 16

SummaryFlags(v) == (v \div 32) * 32 + (IF (v \div 8) % 4 = 3 THEN 0 ELSE ((v \div 8) % 4) * 8)

MarshalRle(r) == WriteBlock(RleHead, RleChunk, r)

UnmarshalRle(b, i) == ReadBlock(b[i], Thinning(b[i + 1]), RleHead, RleChunk, b, i)

MarshalPrt(r) == WriteBlock(RleHead, ReceiptTime, r)

UnmarshalPrt(b, i) == ReadBlock(3, Thinning(b[i + 1]), RleHead, ReceiptTime, b, i)

MarshalRrt(r) == WriteBlock(ReferenceTime, <<>>, r)

UnmarshalRrt(b, i) == ReadBlock(4, 0, ReferenceTime, <<>>, b, i)

MarshalDlrr(r) == WriteBlock(<<>>, DlrrReport, r)

UnmarshalDlrr(b, i) == ReadBlock(5, 0, <<>>, DlrrReport, b, i)

MarshalSsr(r) == WriteBlock(StatisticsSummary, <<>>, r)

UnmarshalSsr(b, i) == ReadBlock(6, SummaryFlags(b[i + 1]), StatisticsSummary, <<>>, b, i)

MarshalVm(r) == WriteBlock(VoipMetrics, <<>>, r)

UnmarshalVm(b, i) == ReadBlock(7, 0, VoipMetrics, <<>>, b, i)

\* A type nobody knows is forgotten.
MarshalUnknown(r) == WriteBlock(<<>>, <<<<"byte", 1>>>>, r)

UnmarshalUnknown(b, i) == ReadBlock(0, 0, <<>>, <<<<"byte", 1>>>>, b, i)

MarshalBlock(r) ==
    CASE r.type \in {1, 2} -> MarshalRle(r) [] r.type = 3 -> MarshalPrt(r) [] r.type = 4 -> MarshalRrt(r)
      [] r.type = 5 -> MarshalDlrr(r) [] r.type = 6 -> MarshalSsr(r) [] r.type = 7 -> MarshalVm(r)
      [] OTHER -> MarshalUnknown(r)

UnmarshalBlock(b, i) ==
    CASE b[i] \in {1, 2} -> UnmarshalRle(b, i) [] b[i] = 3 -> UnmarshalPrt(b, i)
      [] b[i] = 4 -> UnmarshalRrt(b, i) [] b[i] = 5 -> UnmarshalDlrr(b, i)
      [] b[i] = 6 -> UnmarshalSsr(b, i) [] b[i] = 7 -> UnmarshalVm(b, i)
      [] OTHER -> UnmarshalUnknown(b, i)

RECURSIVE Blocks(_, _)
Blocks(b, i) ==
    IF i > Len(b) THEN Ok(<<>>)
    ELSE IF i + 3 > Len(b) THEN Err
    ELSE Then(UnmarshalBlock(b, i), LAMBDA r :
             Then(Blocks(b, r.end), LAMBDA rest : Ok(<<r.block>> \o rest)))

MarshalXr(p) ==
    Framed(ExtendedReport, 0,
           Uint(4, p.sender_ssrc) \o FlattenSeq([k \in DOMAIN p.reports |-> MarshalBlock(p.reports[k])]))

UnmarshalXr(b) ==
    LET h == UnmarshalHeader(b)
        reports == Blocks(b, 9)
    IN IF Len(b) < 8 \/ ~h.ok THEN Err
       ELSE IF h.value.type # ExtendedReport \/ ~reports.ok THEN Err
       ELSE Read([kind |-> "xr", sender_ssrc |-> Number(b, 5, 4), reports |-> reports.value], b, Len(b))
-----------------------------------------------------------------------------
(* A packet of a type unknown keeps its bytes.                             *)

UnmarshalRaw(b) ==
    LET h == UnmarshalHeader(b)
    IN IF Len(b) < 4 \/ ~h.ok THEN Err
       ELSE Read([kind |-> "raw", bytes |-> MarshalHeader(h.value).value \o From(b, 5)], b, Len(b))

\* put_padding fills up what the header says is padded.
MarshalRaw(p) ==
    LET h == UnmarshalHeader(p.bytes)
    IN IF ~h.ok THEN Err
       ELSE Ok(p.bytes \o (IF h.value.padding THEN PutPadding(Len(p.bytes))
                           ELSE Zeros(GetPaddingSize(Len(p.bytes)))))
-----------------------------------------------------------------------------
(* The packets of a datagram.                                              *)

MarshalPacket(p) ==
    CASE p.kind = "sr" -> MarshalSenderReport(p) [] p.kind = "rr" -> MarshalReceiverReport(p)
      [] p.kind = "sdes" -> MarshalSdes(p) [] p.kind = "bye" -> MarshalGoodbye(p)
      [] p.kind = "pli" -> MarshalPli(p) [] p.kind = "rrr" -> MarshalRrr(p)
      [] p.kind = "fir" -> MarshalFir(p) [] p.kind = "sli" -> MarshalSli(p)
      [] p.kind = "nack" -> MarshalNack(p) [] p.kind = "remb" -> MarshalRemb(p)
      [] p.kind = "tcc" -> MarshalTcc(p) [] p.kind = "xr" -> MarshalXr(p)
      [] p.kind = "raw" -> MarshalRaw(p)

\* destination_ssrc: the streams a packet is about.  Of a sender report the
\* sender's own comes last; reference times and blocks unknown name none.
BlockSsrcs(r) ==
    CASE r.type \in {1, 2, 3, 6, 7} -> <<r.head.ssrc>>
      [] r.type = 5 -> [k \in DOMAIN r.parts |-> r.parts[k].ssrc]
      [] OTHER -> <<>>

DestinationSsrc(p) ==
    CASE p.kind = "sr" -> Append([k \in DOMAIN p.reports |-> p.reports[k].ssrc], p.info.ssrc)
      [] p.kind = "rr" -> [k \in DOMAIN p.reports |-> p.reports[k].ssrc]
      [] p.kind = "sdes" -> [k \in DOMAIN p.chunks |-> p.chunks[k].source]
      [] p.kind = "bye" -> p.sources
      [] p.kind = "fir" -> [k \in DOMAIN p.entries |-> p.entries[k].ssrc]
      [] p.kind = "remb" -> p.ssrcs
      [] p.kind = "tcc" -> <<p.head.media_ssrc>>
      [] p.kind = "xr" -> FlattenSeq([k \in DOMAIN p.reports |-> BlockSsrcs(p.reports[k])])
      [] p.kind \in {"pli", "rrr", "sli", "nack"} -> <<p.ssrcs.media_ssrc>>
      [] p.kind = "raw" -> <<>>

Marshal(ps) ==
    LET each == [k \in DOMAIN ps |-> MarshalPacket(ps[k])]
    IN IF \E k \in DOMAIN ps : ~each[k].ok THEN Err
       ELSE Ok(FlattenSeq([k \in DOMAIN ps |-> each[k].value]))

UnmarshalAs(type, count, packet) ==
    CASE type = SenderReport -> UnmarshalSenderReport(packet)
      [] type = ReceiverReport -> UnmarshalReceiverReport(packet)
      [] type = SourceDescription -> UnmarshalSdes(packet)
      [] type = Goodbye -> UnmarshalGoodbye(packet)
      [] type = TransportFeedback /\ count = Format.nack -> UnmarshalNack(packet)
      [] type = TransportFeedback /\ count = Format.rrr -> UnmarshalRrr(packet)
      [] type = TransportFeedback /\ count = Format.tcc -> UnmarshalTcc(packet)
      [] type = PayloadFeedback /\ count = Format.pli -> UnmarshalPli(packet)
      [] type = PayloadFeedback /\ count = Format.sli -> UnmarshalSli(packet)
      [] type = PayloadFeedback /\ count = Format.remb -> UnmarshalRemb(packet)
      [] type = PayloadFeedback /\ count = Format.fir -> UnmarshalFir(packet)
      [] type = ExtendedReport -> UnmarshalXr(packet)
      [] OTHER -> UnmarshalRaw(packet)

\* unmarshaller: the first packet of b, its header written anew, and the
\* bytes it takes.
Unmarshaller(b) ==
    Then(UnmarshalHeader(b), LAMBDA h :
        IF 4 + 4 * h.length > Len(b) THEN Err
        ELSE UnmarshalAs(h.type, h.count, MarshalHeader(h).value \o SubSeq(b, 5, 4 + 4 * h.length)))

\* A failure anywhere loses the whole datagram, and so does an empty one.
RECURSIVE Packets(_)
Packets(b) ==
    IF b = <<>> THEN Ok(<<>>)
    ELSE Then(Unmarshaller(b), LAMBDA p :
             Then(Packets(From(b, p.used + 1)), LAMBDA rest : Ok(<<p.packet>> \o rest)))

Unmarshal(b) == IF b = <<>> THEN Err ELSE Packets(b)
-----------------------------------------------------------------------------
(* Compound packets.                                                       *)

IsReport(p) == p.kind \in {"sr", "rr"}

Cnames(p) ==
    IF p.kind # "sdes" THEN <<>>
    ELSE SelectSeq(FlattenSeq([k \in DOMAIN p.chunks |-> p.chunks[k].items]), LAMBDA it : it.type = 1)

\* validate: a report, receiver reports, then a description with a CNAME.
Validate(ps) ==
    /\ ps # <<>> /\ IsReport(ps[1])
    /\ \E k \in 2..Len(ps) : /\ Cnames(ps[k]) # <<>>
                             /\ \A j \in 2..(k - 1) : ps[j].kind = "rr"

\* cname: passes over descriptions without one.
Cname(ps) ==
    LET named == {k \in 2..Len(ps) : Cnames(ps[k]) # <<>>}
        first == CHOOSE k \in named : \A j \in named : k <= j
    IN IF ps = <<>> \/ named = {} THEN Err
       ELSE IF \E j \in 2..first : ps[j].kind \notin {"rr", "sdes"} THEN Err
       ELSE Ok(Cnames(ps[first])[1].text)
-----------------------------------------------------------------------------
(* NACK pairs from the numbers of lost packets.                            *)

NewNackPair(seq) == [packet_id |-> seq, lost_packets |-> 0]

\* saturating_add(16).
NackReach(id) == IF id + 16 > 65535 THEN 65535 ELSE id + 16

NackBitFault(id, seq) == seq - id

NackBit(id, seq) == seq - id - 1

HasBit(mask, i) == (mask \div 2^i) % 2 = 1

AddNack(pairs, seq) ==
    LET id == pairs[Len(pairs)].packet_id
        bit == NackBit(id, seq)
    IN CASE pairs = <<>> -> <<NewNackPair(seq)>>
         [] pairs # <<>> /\ seq = id -> pairs
         [] pairs # <<>> /\ (seq < id \/ seq > NackReach(id)) -> Append(pairs, NewNackPair(seq))
         [] OTHER -> [pairs EXCEPT ![Len(pairs)].lost_packets = IF HasBit(@, bit) THEN @ ELSE @ + 2^bit]

NackPairsFromSequenceNumbers(seqs) == FoldLeft(AddNack, <<>>, seqs)

\* The numbers a pair stands for: its own and one for each bit, the lowest
\* first; beyond the last number they begin anew.
PacketList(pair) ==
    LET bits == SelectSeq([k \in 1..16 |-> k - 1], LAMBDA i : HasBit(pair.lost_packets, i))
    IN <<pair.packet_id>> \o [k \in DOMAIN bits |-> (pair.packet_id + bits[k] + 1) % 65536]
=============================================================================
