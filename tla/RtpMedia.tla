------------------------------ MODULE RtpMedia ------------------------------
(***************************************************************************)
(* A media stream over RTP: the packetizer with its sequencer and the      *)
(* payloader of a codec at one end, the depacketizer of the codec at the   *)
(* other, and a network that keeps order and may lose packets.             *)
(*                                                                         *)
(*   pay    the state of the payloader: the parameter sets H264 holds      *)
(*          back, the picture identifiers of VP8 and VP9                   *)
(*   num    the sequencer and the timestamp of the packetizer              *)
(*   wire   the RTP packets on their way                                   *)
(*   dep    the state of the depacketizer: H264's buffer of fragments and  *)
(*          what VP8 keeps from one packet to the next                     *)
(*   units  what the depacketizer has returned                             *)
(*                                                                         *)
(* A byte is a tuple: <<"zero">> and <<"one">> of a start code, the header *)
(* of a NAL unit, or <<"data", frame, index>>.  What the codec puts before *)
(* the bytes of a payload is a record with its size in bytes.              *)
(***************************************************************************)
EXTENDS Integers, Sequences, SequencesExt

CONSTANTS
    MediaSettings,   \* codec, mtu, frames that may be sent: see MCFormats
    SeqModulus,      \* 2^16
    TsModulus,       \* 2^32
    PidModulus,      \* 2^15, the picture identifiers of VP8 and VP9
    ShortPids        \* 2^7, those VP8 writes in one byte

VARIABLES media, pay, num, wire, dep, frames, made, units, lost

mediaVars == <<media, pay, num, wire, dep, frames, made, units, lost>>

NoUnit == <<>>

RtpInit ==
    /\ media \in MediaSettings
    /\ pay = [sps |-> NoUnit, pps |-> NoUnit, pid |-> media.pid]
    /\ \E s \in media.first : num = [seq |-> s, roc |-> 0, ts |-> TsModulus - 1]
    /\ wire = <<>>
    /\ dep = [buffer |-> <<>>, i |-> 0, pid |-> 0]
    /\ frames = <<>>        \* the frames sent
    /\ made = <<>>          \* every packet made
    /\ units = <<>>         \* what became of each one received, by its position in made
    /\ lost = {}            \* positions in made of the packets lost
-----------------------------------------------------------------------------
(* External: what the encoder hands over.  H264 has units after start      *)
(* codes (or one unit and no code), the others have a number of bytes.     *)

NaluBytes(n, k, u) ==
    <<<<"nal", u.type, u.idc>>>> \o [i \in 1..(u.size - 1) |-> <<"data", n, k, i>>]

StartCode(zeros) == [i \in 1..(zeros + 1) |-> IF i <= zeros THEN <<"zero">> ELSE <<"one">>]

FrameBytes(n, frame) ==
    IF media.codec # "h264" THEN [i \in 1..frame |-> <<"data", n, 1, i>>]
    ELSE FlattenSeq([k \in DOMAIN frame |->
            (IF frame[k].zeros = 0 THEN <<>> ELSE StartCode(frame[k].zeros))
                \o NaluBytes(n, k, frame[k])])
-----------------------------------------------------------------------------
(* Fragments of a frame, at most size bytes each, and where they start.    *)

Pieces(bytes, size) ==
    [k \in 1..((Len(bytes) + size - 1) \div size) |->
        SubSeq(bytes, (k - 1) * size + 1, Min({k * size, Len(bytes)}))]

(* H264.                                                                   *)

\* next_ind: the start code of three bytes or more at or after start, as
\* <<first byte, length>>; <<0, 0>> if there is none.
NextInd(bytes, start) ==
    LET Code(i, j) == /\ i >= start /\ j - i >= 2 /\ bytes[j] = <<"one">>
                      /\ \A k \in i..(j - 1) : bytes[k] = <<"zero">>
                      /\ i = start \/ bytes[i - 1] # <<"zero">>
        codes == {c \in (DOMAIN bytes) \X (DOMAIN bytes) : Code(c[1], c[2])}
    IN IF codes = {} THEN <<0, 0>>
       ELSE LET c == CHOOSE c \in codes : \A d \in codes : c[2] <= d[2]
            IN <<c[1], c[2] - c[1] + 1>>

\* The loop of payload over the start codes.
RECURSIVE NalusFrom(_, _)
NalusFrom(bytes, start) ==
    LET next == NextInd(bytes, start)
    IN IF next[1] = 0 THEN <<SubSeq(bytes, start, Len(bytes))>>
       ELSE <<SubSeq(bytes, start, next[1] - 1)>> \o NalusFrom(bytes, next[1] + next[2])

Nalus(bytes) ==
    LET first == NextInd(bytes, 1)
    IN IF first[1] = 0 THEN <<bytes>> ELSE NalusFrom(bytes, first[1] + first[2])

NaluType(nalu) == nalu[1][2]

NaluRefIdc(nalu) == nalu[1][3]

FuaHeaderSize == 2

\* The first byte is in the headers of the fragments, not in their data.
Fragments(nalu, mtu) ==
    LET pieces == Pieces(Tail(nalu), mtu - FuaHeaderSize)
    IN [k \in DOMAIN pieces |->
            [kind |-> "fua", size |-> 2 + Len(pieces[k]), bytes |-> pieces[k],
             type |-> NaluType(nalu), idc |-> NaluRefIdc(nalu),
             start |-> k = 1, end |-> k # 1 /\ k = Len(pieces)]]

\* The parameter sets held back are sent, or too large to be, and forgotten.
ForgetParameters(p) ==
    IF p.sps # NoUnit /\ p.pps # NoUnit THEN [p EXCEPT !.sps = NoUnit, !.pps = NoUnit] ELSE p

\* emit.
Emit(p, nalu, mtu) ==
    CASE nalu = <<>> -> [pay |-> p, out |-> <<>>]
      [] nalu # <<>> /\ NaluType(nalu) \in {"aud", "filler"} -> [pay |-> p, out |-> <<>>]
      [] nalu # <<>> /\ NaluType(nalu) = "sps" -> [pay |-> [p EXCEPT !.sps = nalu], out |-> <<>>]
      [] nalu # <<>> /\ NaluType(nalu) = "pps" -> [pay |-> [p EXCEPT !.pps = nalu], out |-> <<>>]
      [] OTHER ->
            LET both == p.sps # NoUnit /\ p.pps # NoUnit
                stap == [kind |-> "stap", size |-> 5 + Len(p.sps) + Len(p.pps),
                         bytes |-> <<p.sps, p.pps>>]
                single == [kind |-> "single", size |-> Len(nalu), bytes |-> nalu]
            IN [pay |-> ForgetParameters(p),
                out |-> (IF both /\ stap.size <= mtu THEN <<stap>> ELSE <<>>)
                        \o IF single.size <= mtu THEN <<single>>
                           ELSE IF mtu <= 2 THEN <<>> ELSE Fragments(nalu, mtu)]

H264Payload(p, bytes, mtu) ==
    LET Next1(r, nalu) == LET e == Emit(r.pay, nalu, mtu)
                          IN [pay |-> e.pay, out |-> r.out \o e.out]
    IN FoldLeft(Next1, [pay |-> p, out |-> <<>>], Nalus(bytes))

\* The buffer after a fragment.
FuaBufferFault(d, p) == d.buffer \o p.bytes

FuaBuffer(d, p) == IF p.end THEN <<>> ELSE d.buffer \o p.bytes

\* depacketize: <<state, NAL units>>; "short" is ErrShortPacket.
H264Depacketize(d, p) ==
    CASE p.size <= 2 -> <<d, "short">>
      [] p.size > 2 /\ p.kind = "single" -> <<d, <<p.bytes>>>>
      [] p.size > 2 /\ p.kind = "stap" -> <<d, p.bytes>>
      [] OTHER ->
            <<[d EXCEPT !.buffer = FuaBuffer(d, p)],
              IF p.end THEN <<<<<<"nal", p.type, p.idc>>>> \o d.buffer \o p.bytes>> ELSE <<>>>>
-----------------------------------------------------------------------------
(* VP8, VP9, G711 and G722, Opus.                                          *)

Vp8Payload(p, bytes, mtu, pictureId) ==
    LET size == CASE ~pictureId -> 1 [] pictureId /\ p.pid < ShortPids -> 3 [] OTHER -> 4
        pieces == Pieces(bytes, mtu - size)
    IN IF mtu <= size THEN [pay |-> p, out |-> <<>>]
       ELSE [pay |-> [p EXCEPT !.pid = (@ + 1) % PidModulus],
             out |-> [k \in DOMAIN pieces |->
                        [kind |-> "vp8", size |-> size + Len(pieces[k]), bytes |-> pieces[k],
                         s |-> k = 1, x |-> pictureId,
                         pid |-> IF pictureId THEN p.pid ELSE 0]]]

\* depacketize: i and the picture identifier are left from the packet before
\* when this one has no extension.
Vp8Depacketize(d, p) ==
    LET i == IF p.x THEN 1 ELSE d.i
    IN IF p.size < 4 THEN <<d, "short">>
       ELSE <<[d EXCEPT !.i = i, !.pid = IF i = 1 THEN p.pid ELSE @], <<p.bytes>>>>

Vp9Payload(p, bytes, mtu) ==
    LET pieces == Pieces(bytes, mtu - 3)
    IN IF mtu <= 3 THEN [pay |-> p, out |-> <<>>]
       ELSE [pay |-> [p EXCEPT !.pid = (@ + 1) % PidModulus],
             out |-> [k \in DOMAIN pieces |->
                        [kind |-> "vp9", size |-> 3 + Len(pieces[k]), bytes |-> pieces[k],
                         b |-> k = 1, e |-> k = Len(pieces), pid |-> p.pid]]]

Vp9Depacketize(d, p) == <<[d EXCEPT !.i = 1, !.pid = p.pid], <<p.bytes>>>>

G7xxPayload(p, bytes, mtu) ==
    LET pieces == Pieces(bytes, mtu)
    IN [pay |-> p, out |-> [k \in DOMAIN pieces |->
                [kind |-> "g7xx", size |-> Len(pieces[k]), bytes |-> pieces[k]]]]

OpusPayload(p, bytes) ==
    [pay |-> p, out |-> <<[kind |-> "opus", size |-> Len(bytes), bytes |-> bytes]>>]

Payload(p, bytes, mtu) ==
    IF bytes = <<>> \/ mtu = 0 THEN [pay |-> p, out |-> <<>>]
    ELSE CASE media.codec = "h264" -> H264Payload(p, bytes, mtu)
           [] media.codec = "vp8" -> Vp8Payload(p, bytes, mtu, media.pictureId)
           [] media.codec = "vp9" -> Vp9Payload(p, bytes, mtu)
           [] media.codec = "g7xx" -> G7xxPayload(p, bytes, mtu)
           [] media.codec = "opus" -> OpusPayload(p, bytes)

Depacketize(d, p) ==
    CASE media.codec = "h264" -> H264Depacketize(d, p)
      [] media.codec = "vp8" -> Vp8Depacketize(d, p)
      [] media.codec = "vp9" -> Vp9Depacketize(d, p)
      [] OTHER -> <<d, <<p.bytes>>>>

IsPartitionHead(p) ==
    CASE p.kind = "fua" -> p.start
      [] p.kind = "vp8" -> p.s
      [] p.kind = "vp9" -> p.b
      [] OTHER -> TRUE
-----------------------------------------------------------------------------
(* The packetizer.                                                         *)

\* next_sequence_number.
NextSequenceNumber(n) ==
    IF n.seq = SeqModulus - 1 THEN [n EXCEPT !.seq = 0, !.roc = @ + 1]
    ELSE [n EXCEPT !.seq = @ + 1]

\* The packets for payloads: <<number, packets>>.
Numbered(n, out) ==
    LET Next1(r, p) ==
            LET m == NextSequenceNumber(r[1])
            IN <<m, Append(r[2], [seq |-> m.seq, ts |-> n.ts, payload |-> p, roc |-> m.roc,
                                  marker |-> Len(r[2]) = Len(out) - 1,
                                  absSendTime |-> media.absSendTime /\ Len(r[2]) = Len(out) - 1])>>
    IN FoldLeft(Next1, <<n, <<>>>>, out)

\* packetize; 12 bytes of the mtu are for the header of RTP.
Packetize(frame, samples) ==
    LET bytes == FrameBytes(Len(frames) + 1, frame)
        r == Payload(pay, bytes, media.mtu - 12)
        q == Numbered(num, r.out)
    IN /\ Len(frames) < media.count
       /\ pay' = r.pay
       /\ num' = [q[1] EXCEPT !.ts = (@ + samples) % TsModulus]
       /\ wire' = wire \o q[2]
       /\ made' = made \o q[2]
       /\ frames' = Append(frames, [content |-> frame, first |-> Len(made) + 1,
                                    last |-> Len(made) + Len(q[2]), ts |-> num.ts])
       /\ UNCHANGED <<media, dep, units, lost>>

SkipSamples(n) ==
    /\ media.skips /\ frames # <<>> /\ num.ts = (frames[Len(frames)].ts + 1) % TsModulus
    /\ num' = [num EXCEPT !.ts = (@ + n) % TsModulus]
    /\ UNCHANGED <<media, pay, wire, dep, frames, made, units, lost>>

Receive ==
    LET r == Depacketize(dep, Head(wire).payload)
    IN /\ wire # <<>>
       /\ dep' = r[1]
       /\ units' = [k \in DOMAIN units \cup {Len(made) - Len(wire) + 1} |->
                        IF k \in DOMAIN units THEN units[k] ELSE [out |-> r[2], pid |-> r[1].pid]]
       /\ wire' = Tail(wire)
       /\ UNCHANGED <<media, pay, num, frames, made, lost>>

\* External: the network loses a packet.
Lose ==
    /\ wire # <<>> /\ media.lossy
    /\ lost' = lost \cup {Len(made) - Len(wire) + 1}
    /\ wire' = Tail(wire)
    /\ UNCHANGED <<media, pay, num, dep, frames, made, units>>

RtpNext ==
    \/ \E f \in media.frames : Packetize(f, 1)
    \/ SkipSamples(2)
    \/ Receive
    \/ Lose
-----------------------------------------------------------------------------
(* Properties.                                                             *)

\* No payload is larger than the payloader was told: H264's single units,
\* aggregates and fragments, VP8 with one, three or four bytes of header and
\* VP9.  Opus sends a frame as it is.
PayloadsFit ==
    \A k \in DOMAIN made : media.codec # "opus" => made[k].payload.size <= media.mtu - 12

\* Packets are numbered one after the other, counting the times the number
\* has rolled over; the packets of a frame have its timestamp and the last
\* one alone its marker, also if frames produce no packet.
NumbersFollow ==
    /\ \A k \in DOMAIN made : (k + 1) \in DOMAIN made =>
            made[k + 1].roc * SeqModulus + made[k + 1].seq = made[k].roc * SeqModulus + made[k].seq + 1
    /\ \A f \in DOMAIN frames : \A k \in frames[f].first..frames[f].last :
            made[k].ts = frames[f].ts /\ (made[k].marker <=> k = frames[f].last)

\* What depacketize returned for the packets of a frame.
Returned(f) ==
    FlattenSeq([i \in 1..(frames[f].last - frames[f].first + 1) |-> units[frames[f].first + i - 1].out])

\* Everything of the frame arrived and was long enough for depacketize.
Complete(f) ==
    \A k \in frames[f].first..frames[f].last : k \in DOMAIN units /\ units[k].out # "short"

\* The last fragment of a unit before the frame was lost, and with it the
\* signal to empty H264's buffer.
Torn(f) ==
    \E k \in lost : /\ k < frames[f].first /\ made[k].payload.kind = "fua" /\ made[k].payload.end
                    /\ ~\E j \in DOMAIN units : /\ k < j /\ j < frames[f].first
                                                 /\ made[j].payload.kind = "fua"
                                                 /\ made[j].payload.end

IsSlice(nalu) == NaluType(nalu) \notin {"sps", "pps", "aud", "filler"}

\* A frame all of whose packets arrive comes out of the depacketizer as it
\* went into the payloader, whatever was lost before: of H264 the slices in
\* their order, VP8 and VP9 with the picture identifier that follows the one
\* before.  Delimiters and filler are not sent, and parameter sets wait for a
\* slice of a later frame (ParametersOnce is about them).  Nothing is claimed
\* of a frame with a packet that depacketize finds too short, such as the last
\* bytes of a frame that VP8's payloader puts in a packet of their own, nor of
\* an H264 frame behind a unit whose end was lost: the buffer keeps its
\* fragments.
FramesRebuilt ==
    \A f \in DOMAIN frames :
        (Complete(f) /\ frames[f].first <= frames[f].last /\ (media.codec = "h264" => ~Torn(f))) =>
            LET content == frames[f].content
            IN IF media.codec = "h264"
               THEN SelectSeq(Returned(f), IsSlice)
                        = SelectSeq([k \in DOMAIN content |-> NaluBytes(f, k, content[k])], IsSlice)
               ELSE /\ FlattenSeq(Returned(f)) = FrameBytes(f, content)
                    /\ \A k \in frames[f].first..frames[f].last :
                            (media.codec \in {"vp8", "vp9"} /\ media.pictureId) =>
                                units[k].pid = made[k].payload.pid
                    /\ IsPartitionHead(made[frames[f].first].payload)

\* H264 sends parameter sets once: of two pairs that arrive the later one
\* has the newer sets, so that no slice is decoded with sets it was not
\* coded for.
ParametersOnce ==
    \A j, k \in DOMAIN made :
        (j < k /\ made[j].payload.kind = "stap" /\ made[k].payload.kind = "stap") =>
            \A u \in 1..2 :
                LET a == made[j].payload.bytes[u][2]
                    b == made[k].payload.bytes[u][2]
                IN a[2] < b[2] \/ (a[2] = b[2] /\ a[3] < b[3])

\* Frames are cut to payloads that fit, numbered in order, and rebuilt.
FramesCarried == PayloadsFit /\ NumbersFollow /\ FramesRebuilt /\ ParametersOnce
=============================================================================
