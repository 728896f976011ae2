------------------------------ MODULE Signaling ------------------------------
(***************************************************************************)
(* rtc/src/peer_connection: the offer/answer exchange of two peers, each   *)
(* running this code.  A peer is a record:                                 *)
(*                                                                         *)
(*   sig                    signaling_state                                *)
(*   lastOffer, lastAnswer  the description the peer made last, by number  *)
(*   curLocal, curRemote    current_local_description, current_remote_...  *)
(*   penLocal, penRemote    the pending ones                               *)
(*   trs                    rtp_transceivers                               *)
(*   greater                greater_mid                                    *)
(*   data                   data_channels_requested # 0                    *)
(*   engine                 media_engine                                   *)
(*   ufrag, remote          the credentials of the ICE agent, its own and  *)
(*                          those it has of the other side (0: none)       *)
(*   lite, answering        ice_lite and answering_dtls_role (settings)     *)
(*   ice, dtls              the roles the transports are to start in       *)
(*                                                                         *)
(* A description is its type, the number that stands for its text, its     *)
(* sections, its DTLS setup, whether its maker is an ICE lite one and the  *)
(* ICE credentials its sections carry (0 when no section has any: its      *)
(* setup is then not read).  A section is rejected when no codec is left   *)
(* for it: it then carries no mid and no direction.                        *)
(*                                                                         *)
(* The application carries descriptions from one peer to the other in      *)
(* order (wire).  The code that constructs transceivers and starts the     *)
(* transports is not compiled yet: AddTransceiver and StartTransports      *)
(* stand for it.                                                           *)
(***************************************************************************)
EXTENDS MediaEngine, SignalingState

CONSTANTS
    Peers,       \* the two ends
    Scenarios,   \* what each end has registered and may do: [setup, bound]
    NoMid        \* the mid of a transceiver that has none

\* ice_lite is a bool and answering_dtls_role a DTLSRole.
ASSUME PeersAssumption ==
    /\ \E x, y \in Peers : x # y /\ Peers = {x, y}
    /\ \A s \in Scenarios : \A p \in Peers :
        s.setup[p].lite \in BOOLEAN /\ s.setup[p].answering \in {"unspecified", "client", "server"}

VARIABLES
    peer,        \* the two peer connections
    wire,        \* the descriptions under way to each of them
    held,        \* the descriptions each application has got from its peer
    made,        \* how often each application has asked for one
    setup,       \* the registrations of this behaviour
    bound,       \* the bounds of this behaviour
    superseded,  \* some offer was replaced before it was answered
    crossed,     \* some peer took an offer after numbering its own for one
    early        \* some peer numbered its own with a remote offer pending

history == <<superseded, crossed, early>>

sigVars == <<peer, wire, held, made, setup, bound, history>>

Other(p) == CHOOSE q \in Peers : q # p

Mids(sections) == {sections[i].mid : i \in DOMAIN sections} \ {NoMid}

NewPeer(s) ==
    [sig |-> "stable", lastOffer |-> 0, lastAnswer |-> 0,
     curLocal |-> None, curRemote |-> None, penLocal |-> None, penRemote |-> None,
     trs |-> <<>>, greater |-> -1, data |-> FALSE,
     engine |-> NewEngine(s.codecs, s.exts), ufrag |-> 1, remote |-> 0,
     lite |-> s.lite, answering |-> s.answering, ice |-> "none", dtls |-> "none"]

SigInit ==
    /\ \E s \in Scenarios : setup = s.setup /\ bound = s.bound
    /\ peer = [p \in Peers |-> NewPeer(setup[p])]
    /\ wire = [p \in Peers |-> <<>>]
    /\ held = [p \in Peers |-> {}]
    /\ made = [p \in Peers |-> 0]
    /\ superseded = FALSE
    /\ crossed = FALSE
    /\ early = FALSE

-----------------------------------------------------------------------------
(* Transceivers.                                                           *)

FindByMid(trs, mid) == SelectInSeq(trs, LAMBDA t : t.mid = mid)

PreferredDirections(dir) ==
    CASE dir = "sendrecv" -> <<"recvonly", "sendrecv">>
      [] dir = "sendonly" -> <<"recvonly">>
      [] dir = "recvonly" -> <<"sendonly", "sendrecv">>
      [] OTHER -> <<>>

SatisfyTypeAndDirectionFault(kind, dir, trs) ==
    SelectInSeq(trs, LAMBDA t : t.mid = NoMid /\ t.dir \in Range(PreferredDirections(dir)))

SatisfyTypeAndDirection(kind, dir, trs) ==
    LET Fits(d) == SelectInSeq(trs, LAMBDA t : t.mid = NoMid /\ t.kind = kind /\ t.dir = d)
        pref == PreferredDirections(dir)
        first == SelectInSeq(pref, LAMBDA d : Fits(d) # 0)
    IN IF first = 0 THEN 0 ELSE Fits(pref[first])

\* A remote offer gives its mids to the transceivers that fit.
AssociateSection(trs, section) ==
    LET found == FindByMid(trs, section.mid)
        i == IF found # 0 THEN found
             ELSE SatisfyTypeAndDirection(section.kind, section.dir, trs)
    IN IF section.mid = NoMid \/ section.kind = "application" \/ i = 0 THEN trs
       ELSE [trs EXCEPT ![i].mid = IF @ = NoMid THEN section.mid ELSE @]

AssociateSections(trs, sections) == FoldLeft(AssociateSection, trs, sections)

\* set_current_direction and process_new_current_direction.
SetCurrentDirection(t, dir) ==
    IF t.cur = dir THEN t
    ELSE [t EXCEPT !.cur = dir, !.muted = ~HasRecv(dir), !.paused = ~HasSend(dir)]

\* An answer, ours or theirs, settles the direction of its transceivers.
SettleDirections(trs, sections, Turn(_)) ==
    [i \in DOMAIN trs |->
        LET j == SelectInSeq(sections, LAMBDA s : s.mid = trs[i].mid /\ s.kind # "application")
        IN IF trs[i].mid = NoMid \/ j = 0 \/ FindByMid(trs, trs[i].mid) # i THEN trs[i]
           ELSE SetCurrentDirection(trs[i], Turn(sections[j].dir))]

SettleLocal(trs, sections) == SettleDirections(trs, sections, LAMBDA dir : dir)
SettleRemote(trs, sections) == SettleDirections(trs, sections, ReverseDirection)
-----------------------------------------------------------------------------
(* Descriptions: create_offer, create_answer and what they write.          *)

Unnumbered(trs) == {i \in DOMAIN trs : trs[i].mid = NoMid}

\* create_offer numbers the transceivers that have no mid, above every mid
\* of the current remote description.
NumberTransceivers(s) ==
    LET mids == IF s.curRemote = None THEN {} ELSE Mids(s.curRemote.sections)
        base == Max({s.greater} \cup mids)
    IN [s EXCEPT !.greater = base + Cardinality(Unnumbered(s.trs)),
                 !.trs = [i \in DOMAIN s.trs |->
                            IF i \notin Unnumbered(s.trs) THEN s.trs[i]
                            ELSE [s.trs[i] EXCEPT !.mid = base + Cardinality(
                                    {j \in Unnumbered(s.trs) : j <= i})]]]

\* generate_matched_sdp and generate_unmatched_sdp: the sections to write.
\* Those of the remote description come first and in its order, each with
\* the transceiver that has its mid (tr = 0: none has).
RemoteSections(s, offering) ==
    LET r == RemoteDescription(s)
        Section(m) == [mid |-> m.mid, data |-> m.kind = "application",
                       tr |-> FindByMid(s.trs, m.mid),
                       offered |-> IF offering THEN "none" ELSE m.dir]
    IN IF r = None THEN <<>>
       ELSE LET named == SelectSeq(r.sections, LAMBDA m : m.mid # NoMid)
            IN [i \in DOMAIN named |-> Section(named[i])]

LocalSections(s, before) ==
    LET new == SelectSeq([i \in DOMAIN s.trs |-> i],
                         LAMBDA i : ~\E m \in Range(before) : ~m.data /\ m.mid = s.trs[i].mid)
    IN [i \in DOMAIN new |-> [mid |-> s.trs[new[i]].mid, data |-> FALSE, tr |-> new[i],
                              offered |-> "none"]]

MediaSections(s, offering) ==
    LET remote == IF offering /\ s.curRemote = None THEN <<>> ELSE RemoteSections(s, offering)
        media == IF offering THEN remote \o LocalSections(s, remote) ELSE remote
        data == [mid |-> Len(media), data |-> TRUE, tr |-> 0, offered |-> "none"]
    IN IF offering /\ s.data /\ ~\E m \in Range(remote) : m.data
       THEN Append(media, data) ELSE media

AnswerDirectionFault(t, offered) == t.dir

AnswerDirection(t, offered) ==
    CASE offered \in {"sendonly", "recvonly"} -> Intersect(ReverseDirection(offered), t.dir)
      [] offered = "inactive" -> "inactive"
      [] OTHER -> t.dir

\* populate_sdp writes one section after another and keeps the media engine
\* up to date.  Writing stops at a data section whose mid a transceiver
\* of the description has, and at a track without a codec.
Clash(m, ms) == m.data /\ \E o \in Range(ms) : ~o.data /\ o.mid = m.mid

AddDataMediaSection(r, m) ==
    [r EXCEPT !.sections = Append(@, [kind |-> "application", mid |-> m.mid, dir |-> "sendrecv",
                                      codecs |-> <<>>, exts |-> {}])]

RejectSection(r, t) ==
    IF t.track THEN [r EXCEPT !.failed = TRUE]
    ELSE [r EXCEPT !.sections = Append(@, [kind |-> t.kind, mid |-> NoMid, dir |-> "none",
                                           codecs |-> <<>>, exts |-> {}])]

AddTransceiverSdp(r, m, t) ==
    LET codecs == GetCodecsByKind(r.engine, t.kind)
        params == GetRtpParametersByKind(r.engine, t.kind, t.dir)
        media == [kind |-> t.kind, mid |-> m.mid, dir |-> AnswerDirection(t, m.offered),
                  codecs |-> codecs, exts |-> params.ids]
    IN IF codecs = <<>> THEN RejectSection(r, t)
       ELSE [r EXCEPT !.engine = params.engine, !.sections = Append(@, media)]

WriteSection(trs, ms, r, m) ==
    CASE r.failed -> r
      [] ~r.failed /\ m.data ->
            IF Clash(m, ms) THEN [r EXCEPT !.failed = TRUE] ELSE AddDataMediaSection(r, m)
      [] OTHER -> AddTransceiverSdp(r, m, trs[m.tr])

\* A remote section without a transceiver fails before anything is written.
PopulateSdp(s, ms) ==
    FoldLeft(LAMBDA r, m : WriteSection(s.trs, ms, r, m),
             [engine |-> s.engine, sections |-> <<>>,
              failed |-> \E m \in Range(ms) : ~m.data /\ m.tr = 0], ms)

\* The credentials a reader finds: every section that is not rejected has
\* them.
ExtractIceDetails(sections, ufrag) == IF Mids(sections) = {} THEN 0 ELSE ufrag

\* The rest of create_offer and create_answer: the peer after the call and
\* the description it returns, if any.
Describe(s, type, n) ==
    LET w == PopulateSdp(s, MediaSections(s, type = "offer"))
        written == [s EXCEPT !.engine = w.engine]
    IN IF w.failed THEN [peer |-> written, texts |-> {}]
       ELSE [peer |-> [written EXCEPT
                        !.lastOffer = IF type = "offer" THEN n ELSE @,
                        !.lastAnswer = IF type = "answer" THEN n ELSE @],
             texts |-> {[type |-> type, n |-> n, sections |-> w.sections, lite |-> s.lite,
                         ufrag |-> ExtractIceDetails(w.sections, s.ufrag),
                         setup |-> IF type = "offer" THEN "actpass"
                                   ELSE ConnectionRole(s, RemoteDescription(s))]}]
-----------------------------------------------------------------------------
(* The operations of a peer connection.                                    *)

\* External: the code that makes transceivers is not compiled yet.
AddTransceiver(p, kind, dir) ==
    /\ Len(peer[p].trs) < bound.trs[p]
    /\ kind \in setup[p].kinds
    /\ peer' = [peer EXCEPT ![p].trs = Append(@,
                    [kind |-> kind, mid |-> NoMid, dir |-> dir, cur |-> "none",
                     track |-> HasSend(dir), muted |-> FALSE, paused |-> FALSE])]
    /\ UNCHANGED <<wire, held, made, setup, bound, history>>

SetDirection(p, i, dir) ==
    /\ bound.turns
    /\ i \in DOMAIN peer[p].trs
    /\ peer[p].trs[i].dir # dir
    /\ peer' = [peer EXCEPT ![p].trs[i].dir = dir]
    /\ UNCHANGED <<wire, held, made, setup, bound, history>>

CreateDataChannel(p) ==
    /\ bound.data[p] /\ ~peer[p].data
    /\ peer' = [peer EXCEPT ![p].data = TRUE]
    /\ UNCHANGED <<wire, held, made, setup, bound, history>>

\* What the application is given and whether it ever applies it are two
\* things: a call leaves its traces in the peer either way.
Created(p, w) ==
    /\ peer' = [peer EXCEPT ![p] = w.peer]
    /\ held' = [held EXCEPT ![p] = @ \cup w.texts]
    /\ made' = [made EXCEPT ![p] = @ + 1]
    /\ UNCHANGED <<wire, setup, bound, superseded, crossed>>

CreateOffer(p, restart) ==
    /\ made[p] < bound.made[p]
    /\ restart => bound.restart
    /\ LET s == NumberTransceivers(IF restart THEN Restart(peer[p]) ELSE peer[p])
       IN Created(p, Describe(s, "offer", made[p] + 1))
    /\ early' = (early \/ (/\ peer[p].penRemote # None
                          /\ \E t \in Range(peer[p].trs) : t.mid = NoMid))

CreateAnswer(p) ==
    /\ made[p] < bound.made[p]
    /\ peer[p].sig \in {"haveRemoteOffer", "haveLocalPranswer"}
    /\ Created(p, Describe(peer[p], "answer", made[p] + 1))
    /\ UNCHANGED early

\* set_local_description, after which the application sends the description
\* on.  It may apply an answer as a provisional one first, and otherwise
\* applies a description once.
SetLocalDescription(p, text, type) ==
    LET d == [text EXCEPT !.type = type]
        t == SetDescription(peer[p], d, "local")
    IN /\ \/ type = text.type
          \/ type = "pranswer" /\ text.type = "answer" /\ bound.pranswer
       /\ Accepted(peer[p], d, "local")
       /\ peer' = [peer EXCEPT ![p] =
                    IF type # "answer" THEN t
                    ELSE [t EXCEPT !.trs = SettleLocal(@, d.sections)]]
       /\ wire' = [wire EXCEPT ![Other(p)] = Append(@, d)]
       /\ superseded' = (superseded \/ (type = "offer" /\ peer[p].penLocal # None))
       /\ held' = IF type = "pranswer" THEN held ELSE [held EXCEPT ![p] = @ \ {text}]
       /\ UNCHANGED <<made, setup, bound, crossed, early>>

\* The mids a peer has given to transceivers and not negotiated.
UnusedMids(s) ==
    {s.trs[i].mid : i \in DOMAIN s.trs} \ ({NoMid} \cup
        IF s.curLocal = None THEN {} ELSE Mids(s.curLocal.sections))

\* set_remote_description.  The description is in force before its sections
\* are looked at: one without credentials fails and stays.
SetRemoteDescription(p) ==
    LET s == peer[p]
        d == Head(wire[p])
        t == SetDescription(s, d, "remote")
        e == [t EXCEPT !.engine = UpdateFromRemoteDescription(@, d.sections)]
        m == IF d.type # "answer"
             THEN [e EXCEPT !.trs = AssociateSections(@, d.sections)]
             ELSE [e EXCEPT !.trs = SettleRemote(@, d.sections)]
        r == CASE d.ufrag = 0 -> m
               [] d.ufrag # 0 /\ s.curRemote # None -> RenewCredentials(m, d)
               [] OTHER -> [m EXCEPT !.ice = IceRole(s, d), !.dtls = DtlsRole(s, d)]
    IN /\ wire[p] # <<>>
       /\ peer' = [peer EXCEPT ![p] = IF Accepted(s, d, "remote") THEN r ELSE s]
       /\ wire' = [wire EXCEPT ![p] = Tail(@)]
       /\ crossed' = (crossed \/ (/\ Accepted(s, d, "remote") /\ d.type = "offer"
                                  /\ UnusedMids(s) # {}))
       /\ UNCHANGED <<held, made, setup, bound, superseded, early>>

\* External: the ICE agent is started with the credentials of the remote
\* description (start_transports is not compiled yet).
StartTransports(p) ==
    /\ peer[p].remote = 0 /\ peer[p].ufrag = 1 /\ peer[p].sig = "stable"
    /\ peer[p].curRemote # None /\ peer[p].curRemote.ufrag # 0
    /\ peer' = [peer EXCEPT ![p].remote = peer[p].curRemote.ufrag]
    /\ UNCHANGED <<wire, held, made, setup, bound, history>>

SigNext ==
    \E p \in Peers :
        \/ \E kind \in Kinds : \E dir \in setup[p].dirs : AddTransceiver(p, kind, dir)
        \/ \E i \in 1..2 : \E dir \in setup[p].dirs : SetDirection(p, i, dir)
        \/ CreateDataChannel(p)
        \/ \E restart \in BOOLEAN : CreateOffer(p, restart)
        \/ CreateAnswer(p)
        \/ \E text \in held[p] : \E type \in {"offer", "answer", "pranswer"} :
                SetLocalDescription(p, text, type)
        \/ SetRemoteDescription(p)
        \/ StartTransports(p)

SigSpec == SigInit /\ [][SigNext]_sigVars
-----------------------------------------------------------------------------
(* Properties.                                                             *)

\* The pending descriptions of a peer are the ones its signalling state says
\* they are; in the stable state there are none, as the comments on
\* pending_local_description and pending_remote_description promise.
PendingFollowsState ==
    \A p \in Peers :
        <<peer[p].sig, peer[p].penLocal.type, peer[p].penRemote.type>> \in
            {<<"stable", "none", "none">>, <<"haveLocalOffer", "offer", "none">>,
             <<"haveRemoteOffer", "none", "offer">>,
             <<"haveLocalPranswer", "pranswer", "offer">>,
             <<"haveRemotePranswer", "offer", "pranswer">>}

\* Both ends have finished, nothing is under way, and no offer was replaced
\* by another before its answer came.
Settled ==
    /\ ~superseded
    /\ \A p \in Peers : /\ peer[p].sig = "stable" /\ wire[p] = <<>>
                         /\ peer[p].curLocal # None

\* Two peers that have finished an exchange hold the same two descriptions:
\* whatever was refused, failed half-way or was made and thrown away in
\* between, neither is left with another's answer.
ExchangesAgree ==
    Settled => \A p \in Peers : peer[p].curLocal = peer[Other(p)].curRemote

\* The offer and the answer a peer has settled on.
OfferOf(s) == IF s.curLocal.type = "offer" THEN s.curLocal ELSE s.curRemote

AnswerOf(s) == IF s.curLocal.type = "offer" THEN s.curRemote ELSE s.curLocal

\* The sections of an answer are those of the offer, one by one, with its
\* mids and kinds.  Two things break this, and are excluded: an offer that
\* itself rejects a section (the answer leaves it out), and a peer that had
\* numbered transceivers for an offer of its own and took another's instead
\* (find_by_mid then pairs sections by the number alone).
AnswersFollowOffers ==
    \A p \in Peers :
        LET s == peer[p]
            o == OfferOf(s).sections
            ans == AnswerOf(s).sections
        IN (Settled /\ ~crossed /\ ~early /\ \A i \in DOMAIN o : o[i].mid # NoMid) =>
            /\ Len(ans) = Len(o)
            /\ \A i \in DOMAIN o : ans[i].kind = o[i].kind /\ ans[i].mid \in {o[i].mid, NoMid}

\* No description names two of its sections alike: "update the greater mid if
\* the remote description provides a greater one" (create_offer).
MidsUnique ==
    \A p \in Peers : \A d \in held[p] :
        \A i, j \in DOMAIN d.sections :
            i # j => d.sections[i].mid # d.sections[j].mid \/ d.sections[i].mid = NoMid

\* The same of peers that number their transceivers only while no remote
\* offer is pending, whatever they offered and threw away before.
MidsKeptApart == early \/ MidsUnique

\* After an exchange, media flows one way or the other only if both ends
\* agree to it: the current directions of a section are each other's
\* reverse, neither end does more than it offered, and senders and receivers
\* are paused accordingly.
FlowsAgree ==
    Settled => \A p \in Peers : \A i \in DOMAIN peer[p].trs :
        LET t == peer[p].trs[i]
            q == peer[Other(p)]
            j == FindByMid(q.trs, t.mid)
            o == OfferOf(peer[p]).sections
            Of(m) == m.mid = t.mid /\ m.kind # "application"
            k == SelectInSeq(o, Of)
            ans == SelectInSeq(AnswerOf(peer[p]).sections, Of)
        IN (t.mid # NoMid /\ ans # 0 /\ k # 0 /\ ~crossed /\ ~early) =>
            /\ j # 0 /\ t.cur = ReverseDirection(q.trs[j].cur)
            /\ (peer[p].curLocal.type = "offer") => Intersect(t.cur, o[k].dir) = t.cur
            /\ t.paused = ~HasSend(t.cur) /\ t.muted = ~HasRecv(t.cur)

\* The two media engines agree on what a packet's payload type and extension
\* identifiers mean, and an engine never offers an identifier that already
\* means something else.
MediaAgrees ==
    /\ (Settled /\ ~crossed /\ ~early) => \A p \in Peers :
            LET x == peer[p].engine
                y == peer[Other(p)].engine
            IN \A k \in x.negotiated \cap y.negotiated : x.ncodecs[k] = y.ncodecs[k]
    /\ (~crossed /\ ~early) => \A p, q \in Peers :
            LET x == peer[p].engine.nexts
                y == peer[q].engine.nexts
            IN \A i \in DOMAIN x, j \in DOMAIN y : (x[i].uri = y[j].uri) <=> (i = j)
    /\ \A p \in Peers :
            DOMAIN peer[p].engine.nexts \cap DOMAIN peer[p].engine.proposed = {}

\* A retransmission codec is negotiated only together with the codec it
\* retransmits.
RetransmissionsHaveBase ==
    \A p \in Peers : \A k \in Kinds :
        LET cs == Range(peer[p].engine.ncodecs[k])
        IN \A c \in cs : "apt" \in DOMAIN c.fmtp => \E b \in cs : b.pt = c.fmtp["apt"]

\* The two ends of a session never take the same role: one controls the
\* choice of the ICE pair, and one sends the ClientHello, whichever of them
\* offered first and whichever is an ICE lite one.  The exception is a lite
\* peer and a full one that leaves the DTLS role open, which may both be the
\* client: the full one, answering a lite offerer, says passive because of it
\* (create_answer) while RTCDtlsTransport::role goes on to be the client.
RolesDiffer ==
    \A p \in Peers :
        LET s == peer[p]
            t == peer[Other(p)]
        IN (Settled /\ s.ice # "none" /\ t.ice # "none") =>
            /\ s.ice # t.ice
            /\ s.dtls # t.dtls \/ \E x, y \in {s, t} :
                    /\ x.answering = "unspecified" /\ ~x.lite /\ y.lite
                    /\ x.dtls = "client" /\ y.dtls = "client"

\* The ICE agent of a peer that has settled never goes on with credentials
\* the other end has replaced.
CredentialsFresh ==
    \A p \in Peers :
        (Settled /\ peer[p].remote # 0 /\ peer[p].curRemote.ufrag # 0) =>
            peer[p].remote = peer[p].curRemote.ufrag

\* An exchange leaves both peers in step: their states, their pending and their
\* current descriptions.
ExchangesSettle == PendingFollowsState /\ ExchangesAgree

\* The sections of all descriptions line up, and their mids tell them apart.
SectionsLineUp == AnswersFollowOffers /\ MidsKeptApart

\* The ends agree on the media between them: who sends, with which codecs and
\* under which numbers.
MediaMatches == FlowsAgree /\ MediaAgrees /\ RetransmissionsHaveBase

\* The transports below are given matching roles and current credentials.
TransportsMatch == RolesDiffer /\ CredentialsFresh
=============================================================================
