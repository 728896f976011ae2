-------------------------------- MODULE Sdp ---------------------------------
(***************************************************************************)
(* Session descriptions: the lines a description is written as, the state  *)
(* machine that reads them, and what is looked up in a description.        *)
(*                                                                         *)
(* A text is a sequence of tokens: words, numerals, and the separators " ",*)
(* ":", "/" and ";".  A line is a key and a text, a description's text a   *)
(* sequence of lines.  Optional fields are sequences of at most one value. *)
(***************************************************************************)
EXTENDS Octets

CONSTANTS
    SdpNumbers,  \* the numbers whose numerals are tokens
    TimeLimit,   \* in the place of the largest i64
    Urls,        \* texts that are URLs, with the form they are printed in
    SdpAlphabet, \* tokens in the order of their text, the blank first
    SdpLower     \* tokens with capitals, in small letters
-----------------------------------------------------------------------------
(* Texts.                                                                  *)

Split(t, sep) ==
    FoldLeft(LAMBDA a, x : IF x = sep THEN Append(a, <<>>) ELSE [a EXCEPT ![Len(a)] = Append(@, x)],
             <<<<>>>>, t)

\* split_whitespace
Fields(t) == SelectSeq(Split(t, " "), LAMBDA f : f # <<>>)

\* splitn(2, sep)
SplitTwo(t, sep) ==
    IF sep \notin Range(t) THEN <<t>>
    ELSE LET at == CHOOSE k \in DOMAIN t : t[k] = sep /\ \A j \in 1..(k - 1) : t[j] # sep
         IN <<SubSeq(t, 1, at - 1), From(t, at + 1)>>

Join(parts, sep) == FlattenSeq([k \in DOMAIN parts |-> IF k = 1 THEN parts[k] ELSE <<sep>> \o parts[k]])

Trim(t) ==
    LET words == {k \in DOMAIN t : t[k] # " "}
    IN IF words = {} THEN <<>>
       ELSE SubSeq(t, CHOOSE k \in words : \A j \in words : k <= j, CHOOSE k \in words : \A j \in words : j <= k)

Num(n) == <<ToString(n)>>

\* A numeral of a type whose values are the set.
Parse(f, values) ==
    IF \E n \in SdpNumbers : f = Num(n) /\ n \in values
    THEN Ok(CHOOSE n \in SdpNumbers : f = Num(n)) ELSE Err

AllOk(results) ==
    IF \A k \in DOMAIN results : results[k].ok THEN Ok([k \in DOMAIN results |-> results[k].value]) ELSE Err

UrlParse(t) == IF t \in DOMAIN Urls THEN Ok(Urls[t]) ELSE Err

ParseTimeUnits(f) ==
    LET factors == [d |-> 86400, h |-> 3600, m |-> 60, s |-> 1]
        short == f # <<>> /\ Last(f) \in DOMAIN factors
        factor == IF short THEN factors[Last(f)] ELSE 1
        most == TimeLimit \div factor
    IN Then(Parse(IF short THEN Front(f) ELSE f, (-TimeLimit)..TimeLimit), LAMBDA n :
           IF n \in (-most)..most THEN Ok(n * factor) ELSE Err)
-----------------------------------------------------------------------------
(* Writing.                                                                *)

KeyValueBuild(key, texts) == [k \in DOMAIN texts |-> [key |-> key, text |-> texts[k]]]

OriginText(o) ==
    Join(<<o.username, Num(o.session_id), Num(o.session_version), o.network_type, o.address_type,
           o.unicast_address>>, " ")

TimeZoneText(z) == Join(<<Num(z.adjustment_time), Num(z.offset)>>, " ")

TimingText(t) == Join(<<Num(t.start_time), Num(t.stop_time)>>, " ")

RepeatTimeText(r) == Join(<<Num(r.interval), Num(r.duration)>> \o [k \in DOMAIN r.offsets |-> Num(r.offsets[k])], " ")

AddressText(a) == Join(<<a.address>> \o [k \in DOMAIN a.ttl |-> Num(a.ttl[k])]
                                     \o [k \in DOMAIN a.range |-> Num(a.range[k])], "/")

ConnectionText(c) ==
    Join(<<c.network_type, c.address_type>> \o [k \in DOMAIN c.address |-> AddressText(c.address[k])], " ")

BandwidthText(b) ==
    (IF b.experimental THEN <<"X-">> ELSE <<>>) \o b.bandwidth_type \o <<":">> \o Num(b.bandwidth)

AttributeText(a) == Join(<<a.key>> \o a.value, ":")

RangedPortText(p) == Join(<<Num(p.value)>> \o [k \in DOMAIN p.range |-> Num(p.range[k])], "/")

MediaNameText(m) == Join(<<m.media, RangedPortText(m.port), Join(m.protos, "/"), Join(m.formats, " ")>>, " ")

Each(Text(_), s) == [k \in DOMAIN s |-> Text(s[k])]

MarshalMedia(m) ==
    KeyValueBuild("m", <<MediaNameText(m.media_name)>>)
    \o KeyValueBuild("i", m.media_title)
    \o KeyValueBuild("c", Each(ConnectionText, m.connection_information))
    \o KeyValueBuild("b", Each(BandwidthText, m.bandwidth))
    \o KeyValueBuild("k", m.encryption_key)
    \o KeyValueBuild("a", Each(AttributeText, m.attributes))

MarshalTimes(d) ==
    FlattenSeq(Each(LAMBDA t : KeyValueBuild("t", <<TimingText(t.timing)>>)
                                \o KeyValueBuild("r", Each(RepeatTimeText, t.repeat_times)), d.time_descriptions))

MarshalSdp(d) ==
    KeyValueBuild("v", <<Num(d.version)>>)
    \o KeyValueBuild("o", <<OriginText(d.origin)>>)
    \o KeyValueBuild("s", <<d.session_name>>)
    \o KeyValueBuild("i", d.session_information)
    \o KeyValueBuild("u", d.uri)
    \o KeyValueBuild("e", d.email_address)
    \o KeyValueBuild("p", d.phone_number)
    \o KeyValueBuild("c", Each(ConnectionText, d.connection_information))
    \o KeyValueBuild("b", Each(BandwidthText, d.bandwidth))
    \o MarshalTimes(d)
    \o (IF d.time_zones = <<>> THEN <<>>
        ELSE KeyValueBuild("z", <<Join(Each(TimeZoneText, d.time_zones), " ")>>))
    \o KeyValueBuild("k", d.encryption_key)
    \o KeyValueBuild("a", Each(AttributeText, d.attributes))
    \o FlattenSeq(Each(MarshalMedia, d.media_descriptions))
-----------------------------------------------------------------------------
(* Reading: values of lines.  A handler changes the description and says   *)
(* the state that comes next.                                              *)

To(state, d) == Ok([desc |-> d, state |-> state])

NetworkTypes == {<<"IN">>}

AddressTypes == {<<"IP4">>, <<"IP6">>}

UnmarshalProtocolVersion(d, t) ==
    Then(Parse(t, Nat), LAMBDA version : IF version # 0 THEN Err ELSE To("s2", d))

UnmarshalOrigin(d, t) ==
    LET f == Fields(t)
    IN IF Len(f) # 6 THEN Err
       ELSE Then(Parse(f[2], Nat), LAMBDA id : Then(Parse(f[3], Nat), LAMBDA version :
                IF f[4] \notin NetworkTypes \/ f[5] \notin AddressTypes THEN Err
                ELSE To("s3", [d EXCEPT !.origin =
                            [username |-> f[1], session_id |-> id, session_version |-> version,
                             network_type |-> f[4], address_type |-> f[5], unicast_address |-> f[6]]])))

UnmarshalSessionName(d, t) == To("s4", [d EXCEPT !.session_name = t])

UnmarshalSessionInformation(d, t) == To("s7", [d EXCEPT !.session_information = <<t>>])

UnmarshalUri(d, t) == Then(UrlParse(t), LAMBDA url : To("s10", [d EXCEPT !.uri = <<url>>]))

UnmarshalEmail(d, t) == To("s6", [d EXCEPT !.email_address = <<t>>])

UnmarshalPhone(d, t) == To("s8", [d EXCEPT !.phone_number = <<t>>])

\* A number of hops and a range stay part of the address.
UnmarshalConnectionInformation(t) ==
    LET f == Fields(t)
    IN IF Len(f) < 2 THEN Err
       ELSE IF f[1] \notin NetworkTypes \/ f[2] \notin AddressTypes THEN Err
       ELSE Ok(<<[network_type |-> f[1], address_type |-> f[2],
                  address |-> IF Len(f) > 2 THEN <<[address |-> f[3], ttl |-> <<>>, range |-> <<>>]>> ELSE <<>>]>>)

UnmarshalSessionConnectionInformation(d, t) ==
    Then(UnmarshalConnectionInformation(t), LAMBDA c : To("s5", [d EXCEPT !.connection_information = c]))

\* trim_start_matches takes every "X-" off.
UnmarshalBandwidth(t) ==
    LET parts == Split(t, ":")
        type == parts[1]
        experimental == type # <<>> /\ Head(type) = "X-"
        names == {k \in DOMAIN type : type[k] # "X-"}
        bare == IF names = {} THEN <<>> ELSE From(type, CHOOSE k \in names : \A j \in names : k <= j)
    IN IF Len(parts) # 2 THEN Err
       ELSE IF ~experimental /\ type \notin {<<"CT">>, <<"AS">>} THEN Err
       ELSE Then(Parse(parts[2], Nat), LAMBDA n :
                Ok([experimental |-> experimental, bandwidth_type |-> IF experimental THEN bare ELSE type,
                    bandwidth |-> n]))

UnmarshalSessionBandwidth(d, t) ==
    Then(UnmarshalBandwidth(t), LAMBDA b : To("s5", [d EXCEPT !.bandwidth = Append(@, b)]))

UnmarshalTiming(d, t) ==
    LET f == Fields(t)
    IN IF Len(f) < 2 THEN Err
       ELSE Then(Parse(f[1], Nat), LAMBDA start : Then(Parse(f[2], Nat), LAMBDA stop :
                To("s9", [d EXCEPT !.time_descriptions =
                        Append(@, [timing |-> [start_time |-> start, stop_time |-> stop], repeat_times |-> <<>>])])))

UnmarshalRepeatTimes(d, t) ==
    LET f == Fields(t)
        latest == Len(d.time_descriptions)
    IN IF Len(f) < 3 \/ latest = 0 THEN Err
       ELSE Then(AllOk(Each(ParseTimeUnits, f)), LAMBDA n :
                To("s9", [d EXCEPT !.time_descriptions[latest].repeat_times =
                        Append(@, [interval |-> n[1], duration |-> n[2], offsets |-> From(n, 3)])]))

UnmarshalTimeZones(d, t) ==
    LET f == Fields(t)
        zone(k) == Then(Parse(f[2 * k - 1], Nat), LAMBDA time : Then(ParseTimeUnits(f[2 * k]), LAMBDA offset :
                       Ok([adjustment_time |-> time, offset |-> offset])))
    IN IF Len(f) % 2 # 0 THEN Err
       ELSE Then(AllOk([k \in 1..(Len(f) \div 2) |-> zone(k)]), LAMBDA zones :
                To("s13", [d EXCEPT !.time_zones = @ \o zones]))

UnmarshalSessionEncryptionKey(d, t) == To("s11", [d EXCEPT !.encryption_key = <<t>>])

AttributeOf(t) == LET f == SplitTwo(t, ":") IN [key |-> f[1], value |-> Tail(f)]

UnmarshalSessionAttribute(d, t) == To("s11", [d EXCEPT !.attributes = Append(@, AttributeOf(t))])

MediaTypes == {<<"audio">>, <<"video">>, <<"text">>, <<"application">>, <<"message">>}

Protos == {<<"UDP">>, <<"RTP">>, <<"AVP">>, <<"SAVP">>, <<"SAVPF">>, <<"TLS">>, <<"DTLS">>, <<"SCTP">>, <<"AVPF">>}

MediaBlank ==
    [media_title |-> <<>>, connection_information |-> <<>>, bandwidth |-> <<>>, encryption_key |-> <<>>,
     attributes |-> <<>>,
     media_name |-> [media |-> <<>>, port |-> [value |-> 0, range |-> <<>>], protos |-> <<>>, formats |-> <<>>]]

UnmarshalMediaDescription(d, t) ==
    LET f == Fields(t)
        port == Split(f[2], "/")
        protos == Split(f[3], "/")
    IN IF Len(f) < 4 THEN Err
       ELSE IF f[1] \notin MediaTypes THEN Err
       ELSE Then(Parse(port[1], 0..65535), LAMBDA value :
            Then(AllOk([k \in 1..(IF Len(port) > 1 THEN 1 ELSE 0) |-> Parse(port[2], Int)]), LAMBDA range :
                IF ~(Range(protos) \subseteq Protos) THEN Err
                ELSE To("s12", [d EXCEPT !.media_descriptions =
                            Append(@, [MediaBlank EXCEPT !.media_name =
                                [media |-> f[1], port |-> [value |-> value, range |-> range],
                                 protos |-> protos, formats |-> From(f, 4)]])])))

\* The latest section is changed.
InLatest(d, state, Change(_)) ==
    LET n == Len(d.media_descriptions)
    IN IF n = 0 THEN Err ELSE To(state, [d EXCEPT !.media_descriptions[n] = Change(@)])

UnmarshalMediaTitle(d, t) == InLatest(d, "s16", LAMBDA m : [m EXCEPT !.media_title = <<t>>])

UnmarshalMediaConnectionInformation(d, t) ==
    Then(UnmarshalConnectionInformation(t), LAMBDA c :
        InLatest(d, "s15", LAMBDA m : [m EXCEPT !.connection_information = c]))

UnmarshalMediaBandwidthFault(d, t) ==
    Then(UnmarshalBandwidth(t), LAMBDA b : To("s15", [d EXCEPT !.media_descriptions[1].bandwidth = Append(@, b)]))

UnmarshalMediaBandwidth(d, t) ==
    Then(UnmarshalBandwidth(t), LAMBDA b : InLatest(d, "s15", LAMBDA m : [m EXCEPT !.bandwidth = Append(@, b)]))

UnmarshalMediaEncryptionKey(d, t) == InLatest(d, "s14", LAMBDA m : [m EXCEPT !.encryption_key = <<t>>])

UnmarshalMediaAttribute(d, t) ==
    InLatest(d, "s14", LAMBDA m : [m EXCEPT !.attributes = Append(@, AttributeOf(t))])
-----------------------------------------------------------------------------
(* Reading: states.  For every state, the keys of the lines it takes.      *)

HeadStates ==
    [s1 |-> {"v"}, s2 |-> {"o"}, s3 |-> {"s"},
     s4 |-> {"i", "u", "e", "p", "c", "b", "t"}, s5 |-> {"b", "t"},
     s6 |-> {"p", "c", "b", "t"}, s7 |-> {"u", "e", "p", "c", "b", "t"}, s8 |-> {"c", "b", "t"}]

BodyStates ==
    [s9 |-> {"z", "k", "a", "r", "t", "m"}, s10 |-> {"e", "p", "c", "b", "t"}, s11 |-> {"a", "m"},
     s12 |-> {"a", "k", "b", "c", "i", "m"}, s13 |-> {"a", "k", "m"}]

\* Any order, whatever the standard says.
MediaStates == [s \in {"s14", "s15", "s16"} |-> {"a", "k", "b", "c", "i", "m"}]

States == HeadStates @@ BodyStates @@ MediaStates

MayEnd(state) == state \notin DOMAIN HeadStates \cup {"s10"}

HandleSession(key, d, t) ==
    CASE key = "v" -> UnmarshalProtocolVersion(d, t)
      [] key = "o" -> UnmarshalOrigin(d, t)
      [] key = "s" -> UnmarshalSessionName(d, t)
      [] key = "i" -> UnmarshalSessionInformation(d, t)
      [] key = "u" -> UnmarshalUri(d, t)
      [] key = "e" -> UnmarshalEmail(d, t)
      [] key = "p" -> UnmarshalPhone(d, t)
      [] key = "c" -> UnmarshalSessionConnectionInformation(d, t)
      [] key = "b" -> UnmarshalSessionBandwidth(d, t)
      [] key = "t" -> UnmarshalTiming(d, t)
      [] key = "r" -> UnmarshalRepeatTimes(d, t)
      [] key = "z" -> UnmarshalTimeZones(d, t)
      [] key = "k" -> UnmarshalSessionEncryptionKey(d, t)
      [] key = "a" -> UnmarshalSessionAttribute(d, t)
      [] key = "m" -> UnmarshalMediaDescription(d, t)

HandleMedia(key, d, t) ==
    CASE key = "i" -> UnmarshalMediaTitle(d, t)
      [] key = "c" -> UnmarshalMediaConnectionInformation(d, t)
      [] key = "b" -> UnmarshalMediaBandwidth(d, t)
      [] key = "k" -> UnmarshalMediaEncryptionKey(d, t)
      [] key = "a" -> UnmarshalMediaAttribute(d, t)
      [] key = "m" -> UnmarshalMediaDescription(d, t)

\* read_type passes over empty lines, and refuses what is not a letter and "=".
ReadType(state, key) == IF key \in States[state] THEN Ok(key) ELSE Err

ReadValue(t) == Trim(t)

ReadLine(m, line) ==
    IF line.key = "" THEN Ok(m)
    ELSE Then(ReadType(m.state, line.key), LAMBDA key :
             IF m.state \in DOMAIN MediaStates \cup {"s12"}
             THEN HandleMedia(key, m.desc, ReadValue(line.text))
             ELSE HandleSession(key, m.desc, ReadValue(line.text)))

SdpBlank ==
    [version |-> 0, session_name |-> <<>>, session_information |-> <<>>, uri |-> <<>>, email_address |-> <<>>,
     phone_number |-> <<>>, connection_information |-> <<>>, bandwidth |-> <<>>, time_descriptions |-> <<>>,
     time_zones |-> <<>>, encryption_key |-> <<>>, attributes |-> <<>>, media_descriptions |-> <<>>,
     origin |-> [username |-> <<>>, session_id |-> 0, session_version |-> 0, network_type |-> <<>>,
                 address_type |-> <<>>, unicast_address |-> <<>>]]

ReadLines(lines) ==
    FoldLeft(LAMBDA m, line : Then(m, LAMBDA v : ReadLine(v, line)), To("s1", SdpBlank), lines)

UnmarshalSdp(lines) == Then(ReadLines(lines), LAMBDA m : IF MayEnd(m.state) THEN Ok(m.desc) ELSE Err)
-----------------------------------------------------------------------------
(* Building.                                                               *)

\* The number and the version of the session come from a random source and
\* the clock (external).
NewJsepSessionDescription(identity) ==
    [SdpBlank EXCEPT
        !.origin = [username |-> <<"-">>, session_id |-> 5, session_version |-> 7, network_type |-> <<"IN">>,
                    address_type |-> <<"IP4">>, unicast_address |-> <<"0.0.0.0">>],
        !.session_name = <<"-">>,
        !.time_descriptions = <<[timing |-> [start_time |-> 0, stop_time |-> 0], repeat_times |-> <<>>]>>,
        !.attributes = IF identity THEN <<[key |-> <<"identity">>, value |-> <<>>]>> ELSE <<>>]

NewJsepMediaDescription(codec_type) ==
    [MediaBlank EXCEPT
        !.media_name = [media |-> codec_type, port |-> [value |-> 9, range |-> <<>>],
                        protos |-> <<<<"UDP">>, <<"TLS">>, <<"RTP">>, <<"SAVPF">>>>, formats |-> <<>>],
        !.connection_information =
            <<[network_type |-> <<"IN">>, address_type |-> <<"IP4">>,
               address |-> <<[address |-> <<"0.0.0.0">>, ttl |-> <<>>, range |-> <<>>]>>]>>]

WithPropertyAttribute(x, key) == [x EXCEPT !.attributes = Append(@, [key |-> key, value |-> <<>>])]

WithValueAttribute(x, key, value) == [x EXCEPT !.attributes = Append(@, [key |-> key, value |-> <<value>>])]

WithFingerprint(x, algorithm, value) == WithValueAttribute(x, <<"fingerprint">>, algorithm \o <<" ">> \o value)

WithIceCredentials(m, username, password) ==
    WithValueAttribute(WithValueAttribute(m, <<"ice-ufrag">>, username), <<"ice-pwd">>, password)

WithCodec(m, c) ==
    LET rtpmap == Num(c.payload_type) \o <<" ">> \o Join(<<c.name, Num(c.clockrate)>>
                      \o (IF c.channels > 0 THEN <<Num(c.channels)>> ELSE <<>>), "/")
        mapped == WithValueAttribute([m EXCEPT !.media_name.formats = Append(@, Num(c.payload_type))],
                                     <<"rtpmap">>, rtpmap)
    IN IF c.fmtp = <<>> THEN mapped
       ELSE WithValueAttribute(mapped, <<"fmtp">>, Num(c.payload_type) \o <<" ">> \o c.fmtp)

WithMediaSource(m, ssrc, cname, stream, label) ==
    LET line(what) == Num(ssrc) \o <<" ">> \o what
        values == <<<<"cname", ":">> \o cname, <<"msid", ":">> \o stream \o <<" ">> \o label,
                    <<"mslabel", ":">> \o stream, <<"label", ":">> \o label>>
    IN FoldLeft(LAMBDA x, v : WithValueAttribute(x, <<"ssrc">>, line(v)), m, values)

WithCandidate(m, value) == WithValueAttribute(m, <<"candidate">>, value)

Directions == {<<"sendrecv">>, <<"sendonly">>, <<"recvonly">>, <<"inactive">>}

\* An unspecified direction is the empty text.
ExtMapText(e) ==
    Num(e.value) \o (IF e.direction = <<>> THEN <<>> ELSE <<"/">> \o e.direction)
    \o FlattenSeq([k \in DOMAIN e.uri |-> <<" ">> \o e.uri[k]])
    \o FlattenSeq([k \in DOMAIN e.ext_attr |-> <<" ">> \o e.ext_attr[k]])

MarshalExtMap(e) == <<"extmap", ":">> \o ExtMapText(e)

UnmarshalExtMap(line) ==
    LET parts == SplitTwo(Trim(line), ":")
        f == Fields(parts[2])
        valdir == Split(f[1], "/")
    IN IF Len(parts) # 2 THEN Err
       ELSE IF Len(f) < 2 THEN Err
       ELSE Then(Parse(valdir[1], Int), LAMBDA value :
                IF value \notin 1..246 \/ (Len(valdir) = 2 /\ valdir[2] \notin Directions) THEN Err
                ELSE Then(UrlParse(f[2]), LAMBDA uri :
                         Ok([value |-> value, direction |-> IF Len(valdir) = 2 THEN valdir[2] ELSE <<>>,
                             uri |-> <<uri>>, ext_attr |-> IF Len(f) = 3 THEN <<f[3]>> ELSE <<>>])))

WithExtmap(m, e) == WithPropertyAttribute(m, MarshalExtMap(e))

WithTransportCcExtmap(m, uri) == WithExtmap(m, [value |-> 3, direction |-> <<>>, uri |-> <<uri>>, ext_attr |-> <<>>])
-----------------------------------------------------------------------------
(* Codecs.                                                                 *)

CodecBlank ==
    [payload_type |-> 0, name |-> <<>>, clock_rate |-> 0, encoding_parameters |-> <<>>, fmtp |-> <<>>,
     rtcp_feedback |-> <<>>]

\* The payload type in "<key>:<payload type>".
PayloadTypeIn(f) ==
    LET parts == Split(f, ":") IN IF Len(parts) # 2 THEN Err ELSE Parse(parts[2], 0..255)

ParseRtpmap(text) ==
    LET f == Fields(text)
        parts == Split(f[2], "/")
    IN IF Len(f) # 2 THEN Err
       ELSE Then(PayloadTypeIn(f[1]), LAMBDA pt :
            Then(IF Len(parts) > 1 THEN Parse(parts[2], Nat) ELSE Ok(0), LAMBDA rate :
                Ok([CodecBlank EXCEPT !.payload_type = pt, !.name = parts[1], !.clock_rate = rate,
                                      !.encoding_parameters = IF Len(parts) > 2 THEN parts[3] ELSE <<>>])))

\* Parameters with blanks between them are not taken.
ParseFmtp(text) ==
    LET f == Fields(text)
    IN IF Len(f) # 2 THEN Err
       ELSE Then(PayloadTypeIn(f[1]), LAMBDA pt : Ok([CodecBlank EXCEPT !.payload_type = pt, !.fmtp = f[2]]))

ParseRtcpFb(text) ==
    LET f == SplitTwo(text, " ")
    IN IF Len(f) # 2 THEN Err
       ELSE Then(PayloadTypeIn(f[1]), LAMBDA pt :
                Ok([CodecBlank EXCEPT !.payload_type = pt, !.rtcp_feedback = <<f[2]>>]))

MergeCodecsFault(codecs, c) == (c.payload_type :> c) @@ codecs

MergeCodecs(codecs, c) ==
    LET saved == codecs[c.payload_type]
        kept(field, blank) == IF saved[field] = blank THEN c[field] ELSE saved[field]
        merged == [saved EXCEPT !.name = kept("name", <<>>), !.clock_rate = kept("clock_rate", 0),
                       !.encoding_parameters = kept("encoding_parameters", <<>>), !.fmtp = kept("fmtp", <<>>),
                       !.rtcp_feedback = @ \o c.rtcp_feedback]
    IN (c.payload_type :> IF c.payload_type \in DOMAIN codecs THEN merged ELSE c) @@ codecs

CodecIn(text) ==
    CASE IsPrefix(<<"rtpmap", ":">>, text) -> ParseRtpmap(text)
      [] IsPrefix(<<"fmtp", ":">>, text) -> ParseFmtp(text)
      [] IsPrefix(<<"rtcp-fb", ":">>, text) -> ParseRtcpFb(text)
      [] OTHER -> Err

BuildCodecMap(d) ==
    FoldLeft(LAMBDA codecs, a : LET c == CodecIn(AttributeText(a)) IN IF c.ok THEN MergeCodecs(codecs, c.value) ELSE codecs,
             <<>>, FlattenSeq(Each(LAMBDA m : m.attributes, d.media_descriptions)))

GetCodecForPayloadType(d, pt) ==
    LET codecs == BuildCodecMap(d) IN IF pt \in DOMAIN codecs THEN Ok(codecs[pt]) ELSE Err

\* The order of texts: a text comes after what it begins with.
TextRank(token) == CHOOSE k \in DOMAIN SdpAlphabet : SdpAlphabet[k] = token

TextBefore(a, b) ==
    \/ Len(a) < Len(b) /\ SubSeq(b, 1, Len(a)) = a
    \/ \E k \in DOMAIN a \cap DOMAIN b :
          SubSeq(a, 1, k - 1) = SubSeq(b, 1, k - 1) /\ TextRank(a[k]) < TextRank(b[k])

\* Parts are put in order before the blanks around them are taken off.
EquivalentFmtp(want, got) ==
    LET sorted(t) == SortSeq(Split(t, ";"), TextBefore)
    IN /\ Len(sorted(want)) = Len(sorted(got))
       /\ \A k \in DOMAIN sorted(want) : Trim(sorted(want)[k]) = Trim(sorted(got)[k])

Lowercase(t) == [k \in DOMAIN t |-> IF t[k] \in DOMAIN SdpLower THEN SdpLower[t[k]] ELSE t[k]]

CodecsMatch(wanted, got) ==
    /\ wanted.name # <<>> => Lowercase(wanted.name) = Lowercase(got.name)
    /\ wanted.clock_rate # 0 => wanted.clock_rate = got.clock_rate
    /\ wanted.encoding_parameters # <<>> => wanted.encoding_parameters = got.encoding_parameters
    /\ wanted.fmtp # <<>> => EquivalentFmtp(wanted.fmtp, got.fmtp)

\* The map has no order: any of these is the answer, and an error if there is none.
GetPayloadTypeForCodec(d, wanted) ==
    LET codecs == BuildCodecMap(d) IN {pt \in DOMAIN codecs : CodecsMatch(wanted, codecs[pt])}
=============================================================================
