----------------------------- MODULE MCFormats ------------------------------
(***************************************************************************)
(* The wire formats and the RTP media path on small instances.             *)
(***************************************************************************)
EXTENDS Formats, RtpMedia, TLC

-----------------------------------------------------------------------------
(* RTCP packets.                                                           *)

Reception(n, missed) ==
    [k \in 1..n |-> [ssrc |-> k, fraction_lost |-> 3, total_lost |-> missed, last_sequence_number |-> 70000,
                     jitter |-> 1, last_sender_report |-> 9, delay |-> 258]]

Rr(n, missed, extensions) ==
    [kind |-> "rr", info |-> [ssrc |-> 7], reports |-> Reception(n, missed), profile_extensions |-> extensions]

Sr(n) ==
    [kind |-> "sr", reports |-> Reception(n, 5), profile_extensions |-> <<>>,
     info |-> [ssrc |-> 7, ntp_time |-> 5, rtp_time |-> 6, packet_count |-> 2, octet_count |-> 300]]

SdesOf(chunks) == [kind |-> "sdes", chunks |-> [k \in DOMAIN chunks |-> [source |-> 11, items |-> chunks[k]]]]

Item(t, n) == [type |-> t, text |-> [k \in 1..n |-> 60 + k]]

Bye(sources, reason) == [kind |-> "bye", sources |-> sources, reason |-> reason]

Feedback(kind, entries) ==
    [kind |-> kind, ssrcs |-> [sender_ssrc |-> 5, media_ssrc |-> 6], entries |-> entries]

Request(kind) == [kind |-> kind, ssrcs |-> [sender_ssrc |-> 5, media_ssrc |-> 6]]

Rate(m, e) == [m |-> m, e |-> e]

Remb(bitrate, ssrcs) == [kind |-> "remb", sender_ssrc |-> 1, bitrate |-> bitrate, ssrcs |-> ssrcs]

Tcc(n, chunks, deltas) ==
    [kind |-> "tcc", chunks |-> chunks, deltas |-> deltas,
     head |-> [sender_ssrc |-> 1, media_ssrc |-> 2, base_sequence_number |-> 65535,
               packet_status_count |-> n, reference_time |-> 70000, fb_pkt_count |-> 255]]

RunOf(s, n) == [run |-> TRUE, symbol |-> s, run_length |-> n]

Vector(two, ss) == [run |-> FALSE, two_bit |-> two, symbols |-> ss]

Delta(s, d) == [symbol |-> s, delta |-> d]

Xr(blocks) == [kind |-> "xr", sender_ssrc |-> 3, reports |-> blocks]

Block(t, specific, head, parts) == [type |-> t, specific |-> specific, head |-> head, parts |-> parts]

Runs(t, n) ==
    Block(t, 3, [ssrc |-> 1, begin_seq |-> 2, end_seq |-> 3], [k \in 1..n |-> [chunk |-> 16385]])

\* Every field of a block another value.
Filled(fields) ==
    [n \in {fields[k][1] : k \in DOMAIN fields} |->
        LET k == CHOOSE k \in DOMAIN fields : fields[k][1] = n
        IN IF n = "reserved" THEN 0 ELSE IF fields[k][2] = 1 THEN 10 + k ELSE 1000 + k]

MCRtcp ==
    {Rr(0, 0, <<>>), Rr(2, 2^24 - 1, <<>>), Rr(1, 2^24, <<1, 2, 3>>), Rr(31, 0, <<>>), Rr(32, 0, <<>>),
     Sr(1), Sr(0)}
    \cup
    {SdesOf(<<>>), SdesOf(<<<<Item(1, 3)>>>>), SdesOf(<<<<Item(1, 2), Item(2, 0)>>, <<>>>>), SdesOf(<<<<Item(2, 1)>>>>),
     Bye(<<1, 2>>, <<>>), Bye(<<>>, <<65, 66, 67>>), Request("pli"), Request("rrr")}
    \cup
    {Feedback("fir", <<[ssrc |-> 1, sequence_number |-> 255, reserved |-> 0],
                       [ssrc |-> 2, sequence_number |-> 0, reserved |-> 0]>>),
     Feedback("sli", <<[first |-> 7, number |-> 8000, picture |-> 63]>>),
     Feedback("nack", <<>>), Feedback("nack", <<[packet_id |-> 65535, lost_packets |-> 65535]>>),
     Remb(Rate(2^18 - 1, 0), <<1, 2>>), Remb(Rate(2^20 + 8, 0), <<>>), Remb(Rate(2^20 + 7, 0), <<5>>),
     Remb(Rate(0, 0), <<5>>), Remb(Rate(2^24 - 64, 57), <<>>), Remb(Rate(2^24 - 128, 57), <<5>>),
     Remb(Rate(2^23, 60), <<>>), Remb(Rate(-1, 0), <<5>>)}
    \cup
    {Tcc(3, <<RunOf(1, 3)>>, <<Delta(1, 0), Delta(1, 250), Delta(1, 63750)>>),
     Tcc(4, <<RunOf(0, 3), RunOf(2, 1)>>, <<Delta(2, -250)>>),
     Tcc(6, <<RunOf(0, 3), RunOf(0, 3)>>, <<>>), Tcc(3, <<RunOf(0, 3)>>, <<>>),
     Tcc(14, <<Vector(FALSE, [k \in 1..14 |-> k % 2])>>, [k \in 1..7 |-> Delta(1, 500)]),
     Tcc(7, <<Vector(TRUE, <<0, 1, 2, 3, 2, 1, 0>>)>>,
         <<Delta(1, 250), Delta(2, 8191750), Delta(2, -8192000), Delta(1, 0)>>),
     Tcc(3, <<RunOf(1, 3)>>, <<Delta(1, 0), Delta(1, 250), Delta(1, 64000)>>)}
    \cup
    {Xr(<<>>), Xr(<<Runs(1, 2), Runs(2, 0)>>), Xr(<<Runs(1, 1)>>),
     Xr(<<Block(3, 1, [ssrc |-> 1, begin_seq |-> 2, end_seq |-> 3], <<[receipt_time |-> 99]>>),
          Block(4, 0, [ntp_timestamp |-> 123], <<>>)>>),
     Xr(<<Block(5, 0, <<>>, <<[ssrc |-> 1, last_rr |-> 2, dlrr |-> 3]>>),
          Block(6, 128 + 16, Filled(StatisticsSummary), <<>>), Block(7, 0, Filled(VoipMetrics), <<>>),
          Block(0, 0, <<>>, [k \in 1..4 |-> [byte |-> k]])>>),
     [kind |-> "raw", bytes |-> <<129, 204, 0, 1, 9, 9, 9, 9>>], [kind |-> "raw", bytes |-> <<129, 199, 0, 0>>]}
-----------------------------------------------------------------------------
(* RTP packets and payloads.                                               *)

Octs(n) == [k \in 1..n |-> k]

Call(call, id, payload) == [call |-> call, id |-> id, payload |-> payload]

MCRtp ==
    {Call("set_extension", id, Octs(n)) : id \in {0, 1, 14}, n \in {0, 1, 16}}
    \cup {Call("set_extension", 15, Octs(2)), Call("set_extension", 1, Octs(17)),
          Call("set_extension", 0, [k \in 1..256 |-> 1]), Call("set_extension", 0, [k \in 1..258 |-> 1])}
    \cup {Call("del_extension", 1, <<>>), Call("csrc", 9, <<>>),
          Call("pad", 0, Octs(3)), Call("pad", 0, Octs(4)), Call("pad", 0, <<>>)}
    \cup {[call |-> "set_extension", id |-> id, known |-> e] : id \in {1, 3}, e \in
             {[kind |-> "abs_send_time", timestamp |-> 2^24 - 2],
              [kind |-> "audio_level", level |-> 127, voice |-> TRUE],
              [kind |-> "transport_cc", transport_sequence |-> 65534],
              [kind |-> "video_orientation", direction |-> 1, flip |-> TRUE, rotation |-> 3]}}

Cut(head, body, references) == [head |-> head, body |-> body, whole |-> TRUE, references |-> references]

CutShort(bytes) == [head |-> bytes, body |-> <<>>, whole |-> FALSE, references |-> 0]

\* X R N S R PID; I L T K; M PictureID; TL0PICIDX; TID Y KEYIDX.
MCVp8 ==
    {Cut(<<16>>, <<1, 2, 3>>, 0), Cut(<<144, 0>>, <<1, 2>>, 0), Cut(<<144, 128, 5>>, <<1>>, 0),
     Cut(<<144, 192, 129, 7, 8>>, <<1, 2>>, 0), Cut(<<128, 240, 130, 7, 8, 200>>, <<3>>, 0),
     Cut(<<128, 32, 64>>, <<5>>, 0), CutShort(<<16, 1, 2>>), CutShort(<<144, 192, 129, 7>>),
     CutShort(<<128, 240, 130, 7, 8>>)}

\* I P L F B E V Z, and what they announce; N_S Y G begin the structure.
MCVp9 ==
    {Cut(<<12>>, <<1>>, 0), Cut(<<140, 5>>, <<1, 2>>, 0), Cut(<<172, 129, 5, 1, 9>>, <<>>, 0),
     Cut(<<188, 7, 3>>, <<4>>, 0), Cut(<<208, 1, 4>>, <<5>>, 1), Cut(<<80, 5, 4>>, <<5>>, 2),
     Cut(<<2, 0>>, <<6>>, 0), Cut(<<2, 56, 0, 64, 0, 32, 0, 128, 0, 64, 2, 36, 1, 8, 1, 2>>, <<6>>, 0),
     CutShort(<<>>), CutShort(<<128>>), CutShort(<<128, 130>>), CutShort(<<32>>), CutShort(<<32, 0>>),
     CutShort(<<48, 10>>), [CutShort(<<80, 5>>) EXCEPT !.references = 1], CutShort(<<2>>), CutShort(<<2, 16, 1, 1>>),
     CutShort(<<2, 8>>), CutShort(<<2, 8, 1>>), CutShort(<<2, 8, 1, 12, 1>>)}

NaluUnit(order, n) == [order |-> order, unit |-> Octs(n)]

MCH265 ==
    {[kind |-> "single", ordered |-> o, header |-> <<2, 1>>, donl |-> IF o THEN <<7, 8>> ELSE <<>>,
      payload |-> Octs(n)] : o \in BOOLEAN, n \in {1, 5}}
    \cup
    {[kind |-> "aggregation", ordered |-> o,
      units |-> [k \in 1..n |-> NaluUnit(IF ~o THEN <<>> ELSE IF k = 1 THEN <<0, 9>> ELSE <<k>>, 2 * k - 2)]]
        : o \in BOOLEAN, n \in {2, 3}}
    \cup
    {[kind |-> "fragment", ordered |-> o, header |-> <<98, 1>>, fu |-> fu,
      donl |-> IF o /\ fu >= 128 THEN <<7, 8>> ELSE <<>>, payload |-> Octs(2)] : o \in BOOLEAN, fu \in {147, 19}}
    \cup
    {[kind |-> "paci", ordered |-> o, header |-> <<100, 1>>, fields |-> 16 * n + 8, phes |-> Octs(n),
      payload |-> <<9>>] : o \in BOOLEAN, n \in {0, 3, 31}}

Unit(header, n) == [header |-> header, extension |-> 200, payload |-> [k \in 1..n |-> 16 + k]]

\* Sequence header, frames with and without extension, temporal delimiter,
\* and a frame without a size.
MCAv1 ==
    {Unit(10, 3), Unit(18, 0), Unit(50, 0), Unit(50, 9), Unit(54, 1), Unit(48, 5)}

\* Units of 127 bytes and more, whose sizes have one byte or two.
MCAv1Long == {Unit(10, 3), Unit(50, 126), Unit(54, 126), Unit(50, 130)}

MCMtus == [av1 |-> {2, 3, 4, 6, 9, 15}, av1_long |-> {64, 128, 129, 140, 300}]

MCAbs ==
    {[send |-> s, receive |-> s + d] : s \in {2^24 - 1, 2^24, 2^25 + 5}, d \in {0, 1, 2^24 - 1, 2^24}}

MCCompound ==
    {Rr(0, 0, <<>>), Sr(1), SdesOf(<<>>), SdesOf(<<<<Item(1, 3)>>>>),
     SdesOf(<<<<Item(2, 1)>>, <<Item(2, 0), Item(1, 2)>>>>), Bye(<<1>>, <<65>>), Request("pli")}

-----------------------------------------------------------------------------
(* Session descriptions.                                                   *)

Line(key, text) == [key |-> key, text |-> text, good |-> TRUE]

BadLine(key, text) == [key |-> key, text |-> text, good |-> FALSE]

MCSdpText ==
    {Line("v", <<"0">>), BadLine("v", <<"1">>),
     Line("o", <<"-", " ", "5", " ", "7", " ", "IN", " ", "IP4", " ", "host">>),
     BadLine("o", <<"5", " ", "7", " ", "IN", " ", "IP4", " ", "host">>),
     Line("s", <<>>), Line("i", <<" ", "any", " ", "words", " ">>), Line("u", <<"url">>), Line("u", <<"url2">>), BadLine("u", <<"any">>),
     Line("e", <<"any">>), Line("p", <<"any">>), Line("", <<>>), BadLine("x", <<"any">>),
     Line("c", <<"IN", " ", "IP4", " ", "host", "/", "9">>), BadLine("c", <<"IN">>),
     Line("b", <<"AS", ":", "9">>), Line("b", <<"X-", "X-", "any", ":", "9">>), BadLine("b", <<"any", ":", "9">>)}
    \cup
    {Line("t", <<"0", " ", "0">>), BadLine("t", <<"0">>), BadLine("t", <<"-1", " ", "0">>),
     Line("r", <<"7", "d", " ", "1", "h", " ", "0">>), BadLine("r", <<"9", "d", " ", "1", "h", " ", "0">>),
     BadLine("r", <<"9", " ", "9">>),
     Line("z", <<"9", " ", "-1", "h">>), Line("z", <<>>), BadLine("z", <<"9">>),
     Line("k", <<"any">>), Line("k", <<"prompt">>), Line("a", <<"any">>), Line("a", <<"any", ":", "words">>),
     Line("m", <<"audio", " ", "9", " ", "UDP", "/", "TLS", " ", "0">>),
     Line("m", <<"video", " ", "65535", "/", "9", " ", "UDP", " ", "any", " ", "0">>),
     BadLine("m", <<"audio", " ", "65536", " ", "UDP", " ", "0">>), BadLine("m", <<"audio", " ", "9", " ", "UDP">>)}

SdpCodec(pt, name, channels, fmtp) ==
    [call |-> "codec",
     codec |-> [payload_type |-> pt, name |-> <<name>>, clockrate |-> 9000, channels |-> channels, fmtp |-> fmtp]]

SdpTextCall(call, text) == [call |-> call, text |-> text]

ExtMap(value, direction, uri, ext_attr) ==
    [call |-> "extmap", extmap |-> [value |-> value, direction |-> direction, uri |-> uri, ext_attr |-> ext_attr]]

MCSdp ==
    {SdpTextCall("media", <<"audio">>), SdpTextCall("fingerprint", <<"any">>),
     SdpTextCall("rtcp-fb", <<"96", " ", "nack", " ", "pli">>), SdpTextCall("rtcp-fb", <<"0", " ", "nack">>),
     SdpTextCall("credentials", <<"any">>),
     SdpTextCall("candidate", <<"any", ":", "words">>), SdpTextCall("source", <<"any">>),
     SdpTextCall("transport_cc", <<"url">>),
     SdpCodec(96, "VP8", 0, <<>>), SdpCodec(96, "Opus", 2, <<"a", ";", " ", "b">>), SdpCodec(0, "Opus", 2, <<"a", ";", "b">>),
     SdpCodec(96, "opus", 9, <<"b", ";", "a">>), SdpCodec(97, "opus", 0, <<"b">>),
     ExtMap(246, <<"sendonly">>, <<<<"url">>>>, <<>>),
     ExtMap(1, <<>>, <<<<"url">>>>, <<<<"any">>>>),
     ExtMap(1, <<"inactive">>, <<<<"url">>>>, <<<<"any", " ", "words">>>>)}

MCUrls == (<<"url">> :> <<"url">>) @@ (<<"url2">> :> <<"url">>)

MCNumbers ==
    {-1, 0, 1, 2, 5, 7, 9, 96, 97, 246, 3600, -3600, 604800, 9000, 65535, 65536}

MCAlphabet == <<" ", "a", "b">>

MCLower == [VP8 |-> "vp8", Opus |-> "opus"]

MCFormatItems ==
    [rtcp |-> MCRtcp, compound |-> MCCompound, nack |-> {0, 1, 16, 17, 65519, 65535}, rtp |-> MCRtp,
     vp8 |-> MCVp8, vp9 |-> MCVp9, h265 |-> MCH265, av1 |-> MCAv1, av1_long |-> MCAv1Long,
     abs_send_time |-> MCAbs, sdp |-> MCSdp, sdp_text |-> MCSdpText]

MCFormatLimit ==
    [rtcp |-> 2, compound |-> 4, nack |-> 4, rtp |-> 3, vp8 |-> 3, vp9 |-> 3, h265 |-> 1, av1 |-> 5, av1_long |-> 4, abs_send_time |-> 1, sdp |-> 4,
     sdp_text |-> 7]
-----------------------------------------------------------------------------
(* The media path.                                                         *)

Nal(type, size) == [type |-> type, size |-> size, idc |-> IF type = "slice" THEN 1 ELSE 3, zeros |-> 3]

MCMedia ==
    {[codec |-> "h264", mtu |-> 22, pid |-> 0, first |-> {SeqModulus - 2}, count |-> IF l THEN 2 ELSE 3,
      lossy |-> l, skips |-> FALSE, absSendTime |-> FALSE, pictureId |-> FALSE,
      frames |-> {<<Nal("sps", 2), Nal("pps", 2), Nal("idr", 11)>>,
                  <<Nal("aud", 2), Nal("slice", 19), [Nal("slice", 2) EXCEPT !.zeros = 2]>>,
                  <<[Nal("slice", 10) EXCEPT !.zeros = 0]>>,
                  <<Nal("filler", 3), Nal("pps", 4), Nal("slice", 11), Nal("slice", 3)>>}] : l \in BOOLEAN}
    \cup
    {[codec |-> c, mtu |-> m, pid |-> PidModulus - 1, first |-> {SeqModulus - 2}, count |-> 2, lossy |-> TRUE,
      skips |-> TRUE, absSendTime |-> TRUE, pictureId |-> c # "vp8", frames |-> {0, 1, 2, 5, 7}]
        : c \in {"vp8", "vp9", "g7xx", "opus"}, m \in {14, 18}}
    \cup
    {[codec |-> "vp8", mtu |-> 18, pid |-> p, first |-> {0}, count |-> 3, lossy |-> TRUE,
      skips |-> FALSE, absSendTime |-> TRUE, pictureId |-> TRUE, frames |-> {0, 2, 5}]
        : p \in {0, PidModulus - 1}}
-----------------------------------------------------------------------------

MCInit ==
    \/ /\ FormatsInit /\ RtpInit
       /\ media = CHOOSE m \in MediaSettings : m.codec = "opus"
    \/ /\ RtpInit
       /\ format = "media" /\ items = <<>> /\ written = Ok(<<>>) /\ read = Err

MCNext ==
    \/ format # "media" /\ FormatsNext /\ UNCHANGED mediaVars
    \/ format = "media" /\ RtpNext /\ UNCHANGED formatVars

Spec == MCInit /\ [][MCNext]_<<formatVars, mediaVars>>
=============================================================================
