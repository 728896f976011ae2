----------------------------- MODULE MCSignaling -----------------------------
(***************************************************************************)
(* Instances of Signaling: what two ends have registered, and how much     *)
(* each may do.                                                            *)
(***************************************************************************)
EXTENDS Signaling

CONSTANTS a, b

Codec(name, pt, fmtp) == [name |-> name, pt |-> pt, fmtp |-> fmtp]

Ext(uri, kinds, dir) == [uri |-> uri, kinds |-> kinds, dir |-> dir]

Opus == Codec("opus", 111, <<>>)

Pcmu == Codec("pcmu", 3, <<>>)

H264(pt, profile) ==
    Codec("h264", pt, [k \in {"packetization-mode", "profile"} |->
                        IF k = "profile" THEN profile ELSE "1"])

Vp8(pt) == Codec("vp8", pt, <<>>)

Rtx(pt, base) == Codec("rtx", pt, [k \in {"apt"} |-> base])

End(audio, video, exts, kinds, dirs) ==
    [codecs |-> [k \in Kinds |-> IF k = "audio" THEN audio ELSE video],
     exts |-> exts, kinds |-> kinds, dirs |-> dirs, lite |-> FALSE,
     answering |-> "unspecified"]

Both(x, y) == [p \in Peers |-> IF p = a THEN x ELSE y]

\* Two ends with the same audio codec that registered their extensions in
\* different orders.
Alike ==
    Both(End(<<Opus>>, <<>>, <<Ext("level", {"audio"}, "any"), Ext("mid", {"audio"}, "sendonly")>>,
             {"audio"}, {"sendrecv", "recvonly"}),
         End(<<Opus>>, <<>>, <<Ext("mid", {"audio"}, "sendrecv"), Ext("level", {"audio"}, "any")>>,
             {"audio"}, {"sendrecv", "sendonly"}))

\* No audio codec in common, video codecs that match exactly, in name only,
\* or not at all, and their retransmission codecs.
Unlike ==
    Both(End(<<Opus>>, <<Vp8(96), Rtx(97, 96), H264(98, "base"), Rtx(99, 98)>>,
             <<Ext("mid", Kinds, "any")>>, {"audio", "video"}, {"recvonly"}),
         End(<<Pcmu>>, <<H264(98, "high"), Rtx(99, 98), Rtx(97, 96), Vp8(96)>>,
             <<Ext("time", {"video"}, "any"), Ext("mid", Kinds, "any")>>,
             {"audio", "video"}, {"inactive", "recvonly", "sendonly"}))

\* The default codecs at one end, and at the other all but the first ones
\* in another order.
Defaults ==
    LET some == Reverse(SubSeq(RegisterDefaultCodecs("video"), 2, 9))
    IN Both(End(<<>>, RegisterDefaultCodecs("video"), <<>>, {"video"}, {"recvonly"}),
            End(<<>>, some, <<>>, {"video"}, {"sendonly"}))

\* Ends with a data channel that may be lite and may have a DTLS role set.
Roles(x, y) ==
    LET bare == End(<<Opus>>, <<>>, <<>>, {}, {})
    IN Both([bare EXCEPT !.lite = x.lite, !.answering = x.role],
            [bare EXCEPT !.lite = y.lite, !.answering = y.role])

Settings == [lite : BOOLEAN, role : {"unspecified", "client", "server"}]

Count(m, n) == [p \in Peers |-> IF p = a THEN m ELSE n]

Bound(t, m, d) ==
    [trs |-> t, made |-> m, data |-> d, turns |-> FALSE, restart |-> FALSE,
     pranswer |-> FALSE]

Scenario(s, b0) == [setup |-> s, bound |-> b0]

MCScenarios ==
    {Scenario(Alike, [Bound(Count(1, 1), Count(2, 2), Count(FALSE, FALSE)) EXCEPT !.turns = TRUE]),
     Scenario(Alike, [Bound(Count(0, 0), Count(3, 2), Count(TRUE, FALSE))
                        EXCEPT !.restart = TRUE, !.pranswer = TRUE]),
     Scenario(Alike, Bound(Count(1, 1), Count(2, 2), Count(TRUE, FALSE))),
     Scenario(Defaults, Bound(Count(1, 1), Count(1, 1), Count(FALSE, FALSE))),
     Scenario(Unlike, Bound(Count(2, 1), Count(2, 2), Count(FALSE, FALSE)))}
        \cup
    {Scenario(Roles(x, y), Bound(Count(0, 0), Count(1, 1), Count(TRUE, TRUE))) :
        x \in Settings, y \in Settings}

\* One more transceiver at one end than the other's offer has a section for.
MidsScenario ==
    {Scenario(Alike, Bound(Count(1, 2), Count(2, 2), Count(FALSE, FALSE)))}
==============================================================================
