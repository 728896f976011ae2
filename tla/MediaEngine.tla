----------------------------- MODULE MediaEngine -----------------------------
(***************************************************************************)
(* rtc/src/api/media_engine: the codecs and header extensions a peer       *)
(* connection has registered, and what the first remote description of     *)
(* each kind of media made of them.  An engine is a record:                *)
(*                                                                         *)
(*   codecs      the registered codecs of each kind, in preference order   *)
(*   exts        the registered header extensions, in registration order   *)
(*   negotiated  the kinds for which a remote section has been looked at   *)
(*   ncodecs     the negotiated codecs of each kind                        *)
(*   nexts       the negotiated extensions, by identifier                  *)
(*   proposed    the extensions offered and not yet negotiated, by id      *)
(*                                                                         *)
(* A codec is a name, a payload type and its format parameters; an         *)
(* extension a name, the kinds it is for and the direction it is for.      *)
(***************************************************************************)
EXTENDS Integers, Sequences, FiniteSets, SequencesExt

Kinds == {"audio", "video"}

\* RTCRtpTransceiverDirection.
HasSend(d) == d \in {"sendrecv", "sendonly"}

HasRecv(d) == d \in {"sendrecv", "recvonly"}

FromSendRecv(send, recv) ==
    CASE send /\ recv -> "sendrecv"
      [] send /\ ~recv -> "sendonly"
      [] ~send /\ recv -> "recvonly"
      [] OTHER -> "inactive"

ReverseDirection(d) ==
    CASE d = "sendonly" -> "recvonly"
      [] d = "recvonly" -> "sendonly"
      [] OTHER -> d

Intersect(d, e) ==
    FromSendRecv(HasSend(d) /\ HasSend(e), HasRecv(d) /\ HasRecv(e))

NewEngine(codecs, exts) ==
    [codecs |-> codecs, exts |-> exts, negotiated |-> {},
     ncodecs |-> [k \in Kinds |-> <<>>], nexts |-> <<>>, proposed |-> <<>>]
-----------------------------------------------------------------------------
(* Codecs.  Two format lines agree when no parameter they share differs;   *)
(* H.264 wants the packetization mode and the profile, on both sides and   *)
(* equal (the level is not part of the profile here).                      *)

FmtpConsist(a, b) == \A k \in DOMAIN a \cap DOMAIN b : a[k] = b[k]

H264Match(a, b) ==
    \A k \in {"packetization-mode", "profile"} :
        k \in DOMAIN a /\ k \in DOMAIN b /\ a[k] = b[k]

MatchFmtp(c, d) ==
    /\ c.name = d.name
    /\ IF c.name = "h264" THEN H264Match(c.fmtp, d.fmtp) ELSE FmtpConsist(c.fmtp, d.fmtp)

FuzzySearch(c, codecs) ==
    CASE \E d \in Range(codecs) : MatchFmtp(c, d) -> "exact"
      [] \E d \in Range(codecs) : c.name = d.name -> "partial"
      [] OTHER -> "none"

\* A retransmission codec names by "apt" the payload type it belongs to, and
\* is matched no better than that codec was.
MatchRemoteCodec(codecs, c, exact, partial) ==
    LET own == FuzzySearch(c, codecs)
        Has(cs) == \E d \in Range(cs) : d.pt = c.fmtp["apt"]
    IN IF "apt" \notin DOMAIN c.fmtp THEN own
       ELSE IF Has(exact) THEN own
       ELSE IF Has(partial) THEN IF own = "exact" THEN "partial" ELSE own
       ELSE "none"

AddCodec(codecs, c) ==
    IF \E d \in Range(codecs) : d.name = c.name /\ d.pt = c.pt
    THEN codecs ELSE Append(codecs, c)

\* register_default_codecs: the table, registered in this order.  The third
\* of the H.264 entries with packetization mode 0 reuses a payload type and
\* is dropped.
DefaultCodecs(kind) ==
    LET Codec(name, pt, fmtp) == [name |-> name, pt |-> pt, fmtp |-> fmtp]
        Profile(id) == [k \in {"profile-id"} |-> id]
        H264(pt, mode, id) ==
            Codec("h264", pt, [k \in {"level-asymmetry-allowed", "packetization-mode", "profile"} |->
                CASE k = "packetization-mode" -> mode [] k = "profile" -> id [] OTHER -> "1"])
    IN IF kind = "audio"
       THEN <<Codec("opus", 111, [k \in {"minptime", "useinbandfec"} |->
                                    IF k = "minptime" THEN "10" ELSE "1"]),
              Codec("G722", 9, <<>>), Codec("PCMU", 0, <<>>), Codec("PCMA", 8, <<>>)>>
       ELSE <<Codec("vp8", 96, <<>>), Codec("vp9", 98, Profile("0")), Codec("vp9", 100, Profile("1")),
              H264(102, "1", "4200"), H264(127, "0", "4200"), H264(125, "1", "42e0"),
              H264(108, "0", "42e0"), H264(127, "0", "4200"), H264(123, "1", "6400"),
              Codec("av1", 41, Profile("0")), Codec("ulpfec", 116, <<>>)>>

RegisterDefaultCodecs(kind) == FoldLeft(AddCodec, <<>>, DefaultCodecs(kind))

MatchCodecs(codecs, remote) ==
    FoldLeft(LAMBDA m, c :
                LET how == MatchRemoteCodec(codecs, c, m.exact, m.partial)
                IN IF how = "none" THEN m ELSE [m EXCEPT ![how] = Append(@, c)],
             [exact |-> <<>>, partial |-> <<>>], remote)

GetCodecsByKind(e, kind) ==
    IF kind \in e.negotiated THEN e.ncodecs[kind] ELSE e.codecs[kind]
-----------------------------------------------------------------------------
(* Header extensions.                                                      *)

IsMatchingDirection(x, dir) ==
    \/ x.dir = "any"
    \/ x.dir = "inactive" /\ dir = "inactive"
    \/ HasSend(x.dir) /\ HasSend(dir)
    \/ HasRecv(x.dir) /\ HasRecv(dir)

IdsOf(table, uri) == {i \in DOMAIN table : table[i].uri = uri}

Without(table, id) == [i \in DOMAIN table \ {id} |-> table[i]]

With(table, id, x) ==
    [i \in DOMAIN table \cup {id} |-> IF i = id THEN x ELSE table[i]]

UpdateHeaderExtension(e, id, uri, kind) ==
    LET local == SelectInSeq(e.exts, LAMBDA x : x.uri = uri)
        x == e.exts[local]
        known == IdsOf(e.nexts, uri)
        next ==
            CASE id \in known -> [e.nexts EXCEPT ![id].kinds = @ \cup {kind}]
              [] known = {} /\ id \notin DOMAIN e.nexts ->
                    With(e.nexts, id, [x EXCEPT !.kinds = @ \cap {kind}])
              [] OTHER -> e.nexts
    IN IF local = 0 THEN e
       ELSE [e EXCEPT !.nexts = next, !.proposed = Without(@, id)]

\* The extensions of a section come out of a hash map: in any order.  The
\* order does not matter, since a section never uses an identifier twice.
UpdateHeaderExtensions(e, exts, kind) ==
    FoldSet(LAMBDA x, f : UpdateHeaderExtension(f, x[1], x[2], kind), e, exts)

UpdateFromSection(e, section) ==
    LET kind == section.kind
        m == MatchCodecs(e.codecs[kind], section.codecs)
        found == IF m.exact # <<>> THEN m.exact ELSE m.partial
        f == [e EXCEPT !.negotiated = @ \cup {kind},
                       !.ncodecs[kind] = FoldLeft(AddCodec, @, found)]
    IN IF kind \notin Kinds \/ kind \in e.negotiated THEN e
       ELSE IF found = <<>> THEN [e EXCEPT !.negotiated = @ \cup {kind}]
       ELSE UpdateHeaderExtensions(f, section.exts, kind)

\* Only the first section of each kind that the engine ever sees counts.
UpdateFromRemoteDescription(e, sections) ==
    FoldLeft(UpdateFromSection, e, sections)

ValidExtIds == 1..14

\* The extensions written into a section, and the engine after it.
Propose(e, x, kind) ==
    LET free == ValidExtIds \ (DOMAIN e.nexts \cup DOMAIN e.proposed)
        known == IdsOf(e.nexts, x.uri)
        offered == IdsOf(e.proposed, x.uri)
    IN CASE known # {} ->
                [engine |-> [e EXCEPT !.nexts[Min(known)].kinds = @ \cup {kind}],
                 ids |-> {<<Min(known), x.uri>>}]
         [] known = {} /\ offered # {} ->
                [engine |-> e, ids |-> {<<Min(offered), x.uri>>}]
         [] known = {} /\ offered = {} /\ free # {} ->
                [engine |-> [e EXCEPT !.proposed = With(@, Min(free), x)],
                 ids |-> {<<Min(free), x.uri>>}]
         [] OTHER -> [engine |-> e, ids |-> {}]

GetRtpParametersByKind(e, kind, dir) ==
    LET Relevant(x) == kind \in x.kinds /\ IsMatchingDirection(x, dir)
    IN IF kind \in e.negotiated
       THEN [engine |-> e,
             ids |-> {<<i, e.nexts[i].uri>> : i \in {j \in DOMAIN e.nexts : Relevant(e.nexts[j])}}]
       ELSE FoldLeft(LAMBDA r, x :
                        LET p == Propose(r.engine, x, kind)
                        IN IF Relevant(x) THEN [engine |-> p.engine, ids |-> r.ids \cup p.ids]
                           ELSE r,
                     [engine |-> e, ids |-> {}], e.exts)
==============================================================================
