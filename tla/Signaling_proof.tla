--------------------------- MODULE Signaling_proof ---------------------------
(***************************************************************************)
(* Two peers that exchange offers and answers in exchanges of any number,  *)
(* whatever they have registered, offer, refuse, replace or throw away.    *)
(***************************************************************************)
EXTENDS SignalingState_proof, Signaling

\* Every end is in order, and the two of them are in a phase of an exchange.
SigInv ==
    /\ DOMAIN peer = Peers /\ DOMAIN wire = Peers /\ DOMAIN held = Peers
    /\ \A p \in Peers : Joint(peer[p], peer[Other(p)], wire[p], wire[Other(p)],
                              held[p], held[Other(p)], superseded, bound.pranswer)

-----------------------------------------------------------------------------
\* Each end has one other.
LEMMA TwoPeers ==
    ASSUME NEW p \in Peers
    PROVE  /\ Other(p) \in Peers /\ Other(p) # p /\ Other(Other(p)) = p
           /\ \A q \in Peers : q = p \/ q = Other(p)
<1>1. PICK x \in Peers, y \in Peers : x # y /\ Peers = {x, y}
  BY PeersAssumption, Zenon
<1>2. \E q \in Peers : q # p
  <2>1. p = x \/ p = y
    BY <1>1
  <2>2. x \in Peers /\ y \in Peers /\ x # y
    BY <1>1
  <2>. QED BY <2>1, <2>2, Zenon
<1>3. Other(p) \in Peers /\ Other(p) # p
  BY <1>2, Zenon DEF Other
<1>4. \E q \in Peers : q # Other(p)
  BY <1>3, Zenon
<1>5. Other(Other(p)) \in Peers /\ Other(Other(p)) # Other(p)
  BY <1>4, Zenon DEF Other
<1>. QED BY <1>1, <1>3, <1>5, Zenon

-----------------------------------------------------------------------------
(***************************************************************************)
(* The operations of a peer.                                               *)
(***************************************************************************)

\* set_local_description with an accepted description.
Settling(s, d) ==
    IF d.type # "answer" THEN SetDescription(s, d, "local")
    ELSE [SetDescription(s, d, "local") EXCEPT !.trs = SettleLocal(@, d.sections)]

\* It changes what set_description and the answer change.
LEMMA LocalSettled ==
    ASSUME NEW s, NEW d, DOMAIN s = Fields, Accepted(s, d, "local"),
           d.type \in {"offer", "answer", "pranswer"}
    PROVE  Local(Settling(s, d), s, d)
<1>. DEFINE c == SetDescription(s, d, "local")  a == SettleLocal(c.trs, d.sections)
<1>1. DOMAIN c = Fields /\ \A u : Resembles(u, c) => Local(u, s, d)
  BY LocalStep, Zenon
<1>2. Settling(s, d) = c \/ Settling(s, d) = [c EXCEPT !.trs = a]
  BY Zenon DEF Settling
<1>. HIDE DEF c, a
<1>3. Resembles(c, c) /\ Resembles([c EXCEPT !.trs = a], c)
  BY <1>1, Retouched, Zenon
<1>. QED BY <1>1, <1>2, <1>3, Zenon

\* The peer after set_remote_description, as SetRemoteDescription composes it.
After(s, d) ==
    LET t == SetDescription(s, d, "remote")
        e == [t EXCEPT !.engine = UpdateFromRemoteDescription(@, d.sections)]
        m == IF d.type # "answer"
             THEN [e EXCEPT !.trs = AssociateSections(@, d.sections)]
             ELSE [e EXCEPT !.trs = SettleRemote(@, d.sections)]
    IN  CASE d.ufrag = 0 -> m
          [] d.ufrag # 0 /\ s.curRemote # None -> RenewCredentials(m, d)
          [] OTHER -> [m EXCEPT !.ice = IceRole(s, d), !.dtls = DtlsRole(s, d)]

\* set_remote_description with an accepted description.
LEMMA RemoteSettled ==
    ASSUME NEW s, NEW d, DOMAIN s = Fields, Accepted(s, d, "remote"),
           d.type \in {"offer", "answer", "pranswer"}
    PROVE  Remote(After(s, d), s, d)
<1>. DEFINE c == SetDescription(s, d, "remote")
            f == UpdateFromRemoteDescription(c.engine, d.sections)
            e == [c EXCEPT !.engine = f]
            g == AssociateSections(e.trs, d.sections)  h == SettleRemote(e.trs, d.sections)
            m == IF d.type # "answer" THEN [e EXCEPT !.trs = g] ELSE [e EXCEPT !.trs = h]
            u == CASE d.ufrag = 0 -> m
                   [] d.ufrag # 0 /\ s.curRemote # None -> RenewCredentials(m, d)
                   [] OTHER -> [m EXCEPT !.ice = IceRole(s, d), !.dtls = DtlsRole(s, d)]
<1>1. After(s, d) = u
  BY Zenon DEF After
<1>2. /\ DOMAIN c = Fields
      /\ \A x : Resembles(x, c) =>
            /\ d.ufrag = 0 => Remote(x, s, d)
            /\ d.ufrag # 0 /\ s.curRemote # None => Remote(RenewCredentials(x, d), s, d)
            /\ d.ufrag # 0 /\ s.curRemote = None =>
                Remote([x EXCEPT !.ice = IceRole(s, d), !.dtls = DtlsRole(s, d)], s, d)
  BY RemoteStep, Zenon
<1>. HIDE DEF c, f
<1>3. Resembles(e, c)
  BY <1>2, Retouched, Zenon
<1>4. DOMAIN e = Fields
  BY <1>3, Zenon DEF Resembles
<1>. HIDE DEF e, g, h
<1>5. Resembles([e EXCEPT !.trs = g], e) /\ Resembles([e EXCEPT !.trs = h], e)
  BY <1>4, Retouched, Zenon
<1>6. Resembles(m, e)
  BY <1>5, Zenon
<1>. HIDE DEF m
<1>7. Resembles(m, c)
  BY <1>3, <1>6, Zenon DEF Resembles, At
<1>8. Remote(u, s, d)
  <2>1. CASE d.ufrag = 0
    <3>1. u = m
      BY <2>1, Zenon
    <3>. QED BY <1>2, <1>7, <2>1, <3>1, Zenon
  <2>2. CASE d.ufrag # 0 /\ s.curRemote # None
    <3>1. u = RenewCredentials(m, d)
      BY <2>2, Zenon
    <3>. QED BY <1>2, <1>7, <2>2, <3>1, Zenon
  <2>3. CASE d.ufrag # 0 /\ s.curRemote = None
    <3>1. u = [m EXCEPT !.ice = IceRole(s, d), !.dtls = DtlsRole(s, d)]
      BY <2>3, Zenon
    <3>. QED BY <1>2, <1>7, <2>3, <3>1, Zenon
  <2>. QED BY <2>1, <2>2, <2>3, Zenon
<1>. QED BY <1>1, <1>8, Zenon

\* create_offer numbers transceivers.
LEMMA Numbered ==
    ASSUME NEW s, DOMAIN s = Fields
    PROVE  Resembles(NumberTransceivers(s), s)
<1>1. PICK a, b : NumberTransceivers(s) = [s EXCEPT !.greater = a, !.trs = b]
  BY Zenon DEF NumberTransceivers
<1>2. Resembles([s EXCEPT !.greater = a, !.trs = b], s)
  BY Retouched, Zenon
<1>. QED BY <1>1, <1>2, Zenon

\* What a call writes, and the peer it leaves.
LEMMA Described ==
    ASSUME NEW s, DOMAIN s = Fields, NEW type \in {"offer", "answer"}, NEW n
    PROVE  /\ Resembles(Describe(s, type, n).peer, s)
           /\ \A d \in Describe(s, type, n).texts :
                /\ DOMAIN d = {"type", "n", "sections", "lite", "ufrag", "setup"}
                /\ d.type = type /\ d.lite = s.lite
                /\ type = "offer" => d.setup = "actpass"
                /\ type = "answer" => d.setup = ConnectionRole(s, RemoteDescription(s))
<1>. DEFINE w == PopulateSdp(s, MediaSections(s, type = "offer"))
            b == [s EXCEPT !.engine = w.engine]
            lo == IF type = "offer" THEN n ELSE b.lastOffer
            la == IF type = "answer" THEN n ELSE b.lastAnswer
            c == [b EXCEPT !.lastOffer = lo, !.lastAnswer = la]
            uf == ExtractIceDetails(w.sections, s.ufrag)
            se == IF type = "offer" THEN "actpass" ELSE ConnectionRole(s, RemoteDescription(s))
            d == [type |-> type, n |-> n, sections |-> w.sections, lite |-> s.lite,
                  ufrag |-> uf, setup |-> se]
<1>1. Describe(s, type, n) = IF w.failed THEN [peer |-> b, texts |-> {}]
                             ELSE [peer |-> c, texts |-> {d}]
  BY DEF Describe
<1>. HIDE DEF w
<1>. DEFINE e == w.engine
<1>2. Resembles(b, s)
  <2>. HIDE DEF e
  <2>1. Resembles([s EXCEPT !.engine = e], s)
    BY Retouched, Zenon
  <2>. QED BY <2>1, Zenon DEF e
<1>. HIDE DEF b, lo, la
<1>3. Resembles(c, b)
  <2>1. DOMAIN b = Fields
    BY <1>2, Zenon DEF Resembles
  <2>. QED BY <2>1, Retouched, Zenon
<1>. HIDE DEF c, uf, se
<1>4. Resembles(c, s)
  BY <1>2, <1>3, Zenon DEF Resembles, At
<1>5. /\ DOMAIN d = {"type", "n", "sections", "lite", "ufrag", "setup"}
      /\ d.type = type /\ d.lite = s.lite /\ d.setup = se
  OBVIOUS
<1>. HIDE DEF d
<1>6. CASE w.failed
  <2>1. Describe(s, type, n).peer = b /\ Describe(s, type, n).texts = {}
    BY <1>1, <1>6
  <2>. QED BY <1>2, <2>1, Zenon
<1>7. CASE ~w.failed
  <2>1. Describe(s, type, n).peer = c /\ Describe(s, type, n).texts = {d}
    BY <1>1, <1>7
  <2>. QED BY <1>4, <1>5, <2>1, Zenon DEF se
<1>. QED BY <1>6, <1>7, Zenon

-----------------------------------------------------------------------------
(***************************************************************************)
(* The invariant.                                                          *)
(***************************************************************************)
\* Two new peers.
LEMMA SignalingInit == SigInit => SigInv
<1>. SUFFICES ASSUME SigInit PROVE SigInv
  OBVIOUS
<1>1. PICK sc \in Scenarios : setup = sc.setup /\ bound = sc.bound
  BY Zenon DEF SigInit
<1>2. /\ peer = [p \in Peers |-> NewPeer(setup[p])] /\ wire = [p \in Peers |-> <<>>]
      /\ held = [p \in Peers |-> {}]
  BY Zenon DEF SigInit
<1>3. \A p \in Peers :
        /\ setup[p].lite \in BOOLEAN
        /\ setup[p].answering \in {"unspecified", "client", "server"}
  BY <1>1, PeersAssumption, Zenon
<1>4. ASSUME NEW r \in Peers
      PROVE  /\ DOMAIN peer[r] = Fields
             /\ peer[r].lite \in BOOLEAN
             /\ peer[r].answering \in {"unspecified", "client", "server"}
             /\ At(peer[r], "stable", None, None, None, None)
             /\ peer[r].remote = 0 /\ peer[r].ice = "none"
  <2>. DEFINE l == setup[r].lite  a == setup[r].answering
              e == NewEngine(setup[r].codecs, setup[r].exts)
  <2>1. peer[r] = [sig |-> "stable", lastOffer |-> 0, lastAnswer |-> 0,
           curLocal |-> None, curRemote |-> None, penLocal |-> None, penRemote |-> None,
           trs |-> <<>>, greater |-> -1, data |-> FALSE,
           engine |-> e, ufrag |-> 1, remote |-> 0,
           lite |-> l, answering |-> a, ice |-> "none", dtls |-> "none"]
    BY <1>2, Zenon DEF NewPeer
  <2>2. l \in BOOLEAN /\ a \in {"unspecified", "client", "server"}
    BY <1>3, Zenon
  <2>. HIDE DEF l, a, e
  <2>. QED BY <2>1, <2>2 DEF Fields, At
<1>5. ASSUME NEW p \in Peers, NEW q \in Peers
      PROVE  Joint(peer[p], peer[q], wire[p], wire[q], held[p], held[q], superseded, bound.pranswer)
  <2>. DEFINE s == peer[p]  t == peer[q]
  <2>1. \A z \in {s, t} : /\ DOMAIN z = Fields /\ z.lite \in BOOLEAN
                          /\ z.answering \in {"unspecified", "client", "server"}
                          /\ At(z, "stable", None, None, None, None)
                          /\ z.remote = 0 /\ z.ice = "none"
    BY <1>4, Zenon
  <2>2. wire[p] = <<>> /\ wire[q] = <<>> /\ held[p] = {} /\ held[q] = {}
    BY <1>2, Zenon
  <2>3. Joint(s, t, <<>>, <<>>, {}, {}, superseded, bound.pranswer)
    BY <2>1, JointStart, Zenon
  <2>. QED BY <2>2, <2>3, Zenon
<1>6. DOMAIN peer = Peers /\ DOMAIN wire = Peers /\ DOMAIN held = Peers
  BY <1>2, Zenon
<1>. QED BY <1>6, <1>5, TwoPeers, Zenon DEF SigInv

\* Both views of the pair follow from one.
LEMMA Paired ==
    ASSUME SigInv, NEW p \in Peers, NEW q, q = Other(p), NEW u, NEW v, NEW w, NEW k,
           peer' = [peer EXCEPT ![p] = u],
           DOMAIN wire' = Peers, wire'[p] = v, wire'[q] = w,
           DOMAIN held' = Peers, held'[p] = k, held'[q] = held[q], bound' = bound,
           Joint(u, peer[q], v, w, k, held[q], superseded', bound.pranswer)
    PROVE  SigInv'
<1>1. q \in Peers /\ q # p /\ Other(q) = p /\ \A r \in Peers : r = p \/ r = q
  BY TwoPeers, Zenon
<1>2. DOMAIN peer = Peers
  BY Zenon DEF SigInv
<1>3. DOMAIN peer' = Peers /\ peer'[p] = u /\ peer'[q] = peer[q]
  BY <1>1, <1>2, Zenon
<1>4. Joint(peer'[p], peer'[q], wire'[p], wire'[q], held'[p], held'[q], superseded',
      bound'.pranswer)
  BY <1>3, Zenon
<1>5. Joint(peer'[q], peer'[p], wire'[q], wire'[p], held'[q], held'[p], superseded',
      bound'.pranswer)
  BY <1>4, JointTurned, Zenon
<1>. QED BY <1>1, <1>3, <1>4, <1>5, Zenon DEF SigInv

\* A step that applies no description.
LEMMA Quiet ==
    ASSUME SigInv, NEW p \in Peers, NEW u, Same(u, peer[p]), peer' = [peer EXCEPT ![p] = u],
           wire' = wire, NEW k, DOMAIN held' = Peers, held'[p] = k,
           held'[Other(p)] = held[Other(p)], \A d \in k : Drafted(d, peer[p], peer[Other(p)]),
           bound' = bound, superseded' = superseded
    PROVE  SigInv'
<1>. DEFINE q == Other(p)
<1>1. Joint(peer[p], peer[q], wire[p], wire[q], held[p], held[q], superseded, bound.pranswer)
  BY Zenon DEF SigInv
<1>2. Joint(u, peer[q], wire[p], wire[q], k, held[q], superseded, bound.pranswer)
  BY <1>1, JointSame, Zenon
<1>3. Joint(u, peer[q], wire'[p], wire'[q], k, held[q], superseded', bound.pranswer)
  BY <1>2, Zenon
<1>4. DOMAIN wire' = Peers
  BY Zenon DEF SigInv
<1>. QED BY <1>3, <1>4, Paired, Zenon

\* A step that changes nothing but transceivers, the request for a data channel or
\* the credentials.
LEMMA Touched ==
    ASSUME SigInv, NEW p \in Peers, NEW u, Same(u, peer[p]), peer' = [peer EXCEPT ![p] = u],
           UNCHANGED <<wire, held, bound, superseded>>
    PROVE  SigInv'
<1>. DEFINE k == held[p]
<1>1. DOMAIN held' = Peers /\ held'[p] = k /\ held'[Other(p)] = held[Other(p)]
  BY Zenon DEF SigInv
<1>2. \A d \in k : Drafted(d, peer[p], peer[Other(p)])
  BY Zenon DEF SigInv, Joint, EndOK
<1>. HIDE DEF k
<1>. QED BY <1>1, <1>2, Quiet, Zenon

\* Every operation of either peer keeps the invariant.
LEMMA SignalingStep == SigInv /\ [SigNext]_sigVars => SigInv'
<1>. SUFFICES ASSUME SigInv, [SigNext]_sigVars PROVE SigInv'
  OBVIOUS
<1>1. CASE UNCHANGED sigVars
  BY <1>1, Zenon DEF SigInv, sigVars, history
<1>2. CASE SigNext
  <2>1. PICK p \in Peers :
        \/ \E kind \in Kinds : \E dir \in setup[p].dirs : AddTransceiver(p, kind, dir)
        \/ \E i \in 1..2 : \E dir \in setup[p].dirs : SetDirection(p, i, dir)
        \/ CreateDataChannel(p)
        \/ \E restart \in BOOLEAN : CreateOffer(p, restart)
        \/ CreateAnswer(p)
        \/ \E text \in held[p] : \E type \in {"offer", "answer", "pranswer"} :
                SetLocalDescription(p, text, type)
        \/ SetRemoteDescription(p)
        \/ StartTransports(p)
    BY <1>2, Zenon DEF SigNext
  <2>. DEFINE q == Other(p)  s == peer[p]  t == peer[q]
  <2>2. Joint(s, t, wire[p], wire[q], held[p], held[q], superseded, bound.pranswer)
    BY Zenon DEF SigInv
  <2>3. PeerOK(s, t) /\ DOMAIN s = Fields /\ \A d \in held[p] : Drafted(d, s, t)
    BY <2>2, Zenon DEF Joint, EndOK, PeerOK
  <2>4. DOMAIN peer = Peers /\ DOMAIN wire = Peers /\ DOMAIN held = Peers /\ q \in Peers /\ q # p
    BY TwoPeers, Zenon DEF SigInv
  <2>5. ASSUME NEW kind, NEW dir, AddTransceiver(p, kind, dir) PROVE SigInv'
    <3>1. PICK a : peer' = [peer EXCEPT ![p] = [s EXCEPT !.trs = a]]
      BY <2>5, Zenon DEF AddTransceiver
    <3>2. Same([s EXCEPT !.trs = a], s)
      BY <2>3, Retouched, Zenon
    <3>3. UNCHANGED <<wire, held, bound, superseded>>
      BY <2>5, Zenon DEF AddTransceiver, history
    <3>. QED BY <3>1, <3>2, <3>3, Touched, Zenon
  <2>6. ASSUME NEW i, NEW dir, SetDirection(p, i, dir) PROVE SigInv'
    <3>1. PICK a : peer' = [peer EXCEPT ![p] = [s EXCEPT !.trs = a]]
      BY <2>6, Zenon DEF SetDirection
    <3>2. Same([s EXCEPT !.trs = a], s)
      BY <2>3, Retouched, Zenon
    <3>3. UNCHANGED <<wire, held, bound, superseded>>
      BY <2>6, Zenon DEF SetDirection, history
    <3>. QED BY <3>1, <3>2, <3>3, Touched, Zenon
  <2>7. ASSUME CreateDataChannel(p) PROVE SigInv'
    <3>1. peer' = [peer EXCEPT ![p] = [s EXCEPT !.data = TRUE]]
      BY <2>7, Zenon DEF CreateDataChannel
    <3>2. Same([s EXCEPT !.data = TRUE], s)
      BY <2>3, Retouched, Zenon
    <3>3. UNCHANGED <<wire, held, bound, superseded>>
      BY <2>7, Zenon DEF CreateDataChannel, history
    <3>. QED BY <3>1, <3>2, <3>3, Touched, Zenon
  <2>8. ASSUME NEW w, Created(p, w), Same(w.peer, s), \A d \in w.texts : Drafted(d, s, t)
        PROVE  SigInv'
    <3>. DEFINE k == held[p] \cup w.texts
    <3>1. /\ peer' = [peer EXCEPT ![p] = w.peer] /\ held' = [held EXCEPT ![p] = k]
          /\ wire' = wire /\ bound' = bound /\ superseded' = superseded
      BY <2>8, Zenon DEF Created
    <3>2. \A d \in k : Drafted(d, s, t)
      BY <2>3, <2>8, Zenon
    <3>. HIDE DEF k
    <3>3. DOMAIN held' = Peers /\ held'[p] = k /\ held'[q] = held[q]
      BY <2>4, <3>1, Zenon
    <3>. QED BY <2>8, <3>1, <3>2, <3>3, Quiet, Zenon
  <2>9. ASSUME NEW restart, CreateOffer(p, restart) PROVE SigInv'
    <3>. DEFINE r == IF restart THEN Restart(s) ELSE s
                n == NumberTransceivers(r)  w == Describe(n, "offer", made[p] + 1)
    <3>1. Created(p, w)
      BY <2>9, Zenon DEF CreateOffer
    <3>2. Same(r, s)
      <4>1. Same(Restart(s), s)
        BY <2>3, Restarted, Zenon
      <4>2. Same(s, s)
        BY <2>3, Retouched, Zenon
      <4>. QED BY <4>1, <4>2, Zenon
    <3>. HIDE DEF r
    <3>3. Resembles(n, r) /\ DOMAIN n = Fields
      <4>1. DOMAIN r = Fields
        BY <3>2, Zenon DEF Same, Kept
      <4>. QED BY <4>1, Numbered, Zenon DEF Resembles
    <3>. HIDE DEF n
    <3>4. /\ Resembles(w.peer, n)
          /\ \A d \in w.texts :
                /\ DOMAIN d = {"type", "n", "sections", "lite", "ufrag", "setup"}
                /\ d.type = "offer" /\ d.lite = n.lite /\ d.setup = "actpass"
      <4>1. "offer" \in {"offer", "answer"}
        OBVIOUS
      <4>2. /\ Resembles(w.peer, n)
            /\ \A d \in w.texts :
                /\ DOMAIN d = {"type", "n", "sections", "lite", "ufrag", "setup"}
                /\ d.type = "offer" /\ d.lite = n.lite
                /\ "offer" = "offer" => d.setup = "actpass"
                /\ "offer" = "answer" => d.setup = ConnectionRole(n, RemoteDescription(n))
        BY <3>3, <4>1, Described
      <4>. QED BY <4>2, Zenon
    <3>. HIDE DEF w
    <3>5. Same(w.peer, s) /\ n.lite = s.lite
      <4>1. Same(r, s) /\ Resembles(n, r) /\ Resembles(w.peer, n)
        BY <3>2, <3>3, <3>4, Zenon
      <4>. QED BY <4>1, SameStill, Zenon
    <3>6. \A d \in w.texts : Drafted(d, s, t)
      BY <3>4, <3>5 DEF Drafted, Says
    <3>. QED BY <2>8, <3>1, <3>5, <3>6, Zenon
  <2>10. ASSUME CreateAnswer(p) PROVE SigInv'
    <3>. DEFINE w == Describe(s, "answer", made[p] + 1)
    <3>1. Created(p, w) /\ s.sig \in {"haveRemoteOffer", "haveLocalPranswer"}
      BY <2>10, Zenon DEF CreateAnswer
    <3>2. /\ Resembles(w.peer, s)
          /\ \A d \in w.texts :
                /\ DOMAIN d = {"type", "n", "sections", "lite", "ufrag", "setup"}
                /\ d.type = "answer" /\ d.lite = s.lite
                /\ d.setup = ConnectionRole(s, RemoteDescription(s))
      <4>1. "answer" \in {"offer", "answer"} /\ "answer" # "offer"
        OBVIOUS
      <4>2. /\ Resembles(w.peer, s)
            /\ \A d \in w.texts :
                /\ DOMAIN d = {"type", "n", "sections", "lite", "ufrag", "setup"}
                /\ d.type = "answer" /\ d.lite = s.lite
                /\ "answer" = "offer" => d.setup = "actpass"
                /\ "answer" = "answer" => d.setup = ConnectionRole(s, RemoteDescription(s))
        BY <2>3, <4>1, Described
      <4>. QED BY <4>2, Zenon
    <3>3. Says(s.penRemote, t, s)
      BY <2>3, <3>1, Pendings, Zenon
    <3>4. RemoteDescription(s).lite = t.lite
      BY <3>3, SaysSome, Zenon DEF RemoteDescription, Says
    <3>5. ConnectionRole(s, RemoteDescription(s)) = ConnectionRole(s, t)
      BY <3>4, Zenon DEF ConnectionRole
    <3>. HIDE DEF w
    <3>6. Same(w.peer, s)
      BY <3>2, Zenon DEF Same, Resembles, Kept
    <3>7. \A d \in w.texts : Drafted(d, s, t)
      BY <3>2, <3>5 DEF Drafted, Says
    <3>. QED BY <2>8, <3>1, <3>6, <3>7, Zenon
  <2>11. ASSUME NEW text \in held[p], NEW type \in {"offer", "answer", "pranswer"},
                SetLocalDescription(p, text, type)
         PROVE  SigInv'
    <3>. DEFINE d == [text EXCEPT !.type = type]
                u == Settling(s, d)
                k == IF type = "pranswer" THEN held[p] ELSE held[p] \ {text}
    <3>1. /\ \/ type = text.type
             \/ type = "pranswer" /\ text.type = "answer" /\ bound.pranswer
          /\ Accepted(s, d, "local") /\ peer' = [peer EXCEPT ![p] = u]
          /\ wire' = [wire EXCEPT ![q] = Append(wire[q], d)]
          /\ superseded' = (superseded \/ (type = "offer" /\ s.penLocal # None))
          /\ bound' = bound
      <4>1. d.type = type
        BY <2>3, <2>11 DEF Drafted, Says
      <4>2. u = IF type # "answer" THEN SetDescription(s, d, "local")
                ELSE [SetDescription(s, d, "local") EXCEPT !.trs = SettleLocal(@, d.sections)]
        <5>. HIDE DEF d
        <5>. QED BY <4>1, Zenon DEF Settling
      <4>3. /\ \/ type = text.type
               \/ type = "pranswer" /\ text.type = "answer" /\ bound.pranswer
            /\ Accepted(s, d, "local")
            /\ peer' = [peer EXCEPT ![p] =
                    IF type # "answer" THEN SetDescription(s, d, "local")
                    ELSE [SetDescription(s, d, "local") EXCEPT !.trs = SettleLocal(@, d.sections)]]
            /\ wire' = [wire EXCEPT ![q] = Append(wire[q], d)]
            /\ superseded' = (superseded \/ (type = "offer" /\ s.penLocal # None))
            /\ bound' = bound
        BY <2>11, Zenon DEF SetLocalDescription
      <4>. HIDE DEF u, d
      <4>. QED BY <4>2, <4>3, Zenon
    <3>2. Says(text, s, t) /\ text.type # "pranswer"
      BY <2>3, Zenon DEF Drafted
    <3>3. d.type = type /\ Says(d, s, t)
      BY <3>1, <3>2 DEF Says
    <3>4. DOMAIN held' = Peers /\ held'[p] = k /\ held'[q] = held[q]
      <4>1. held' = IF type = "pranswer" THEN held ELSE [held EXCEPT ![p] = @ \ {text}]
        BY <2>11, Zenon DEF SetLocalDescription
      <4>. QED BY <2>4, <4>1, Zenon
    <3>5. \A e \in k : e \in held[p]
      BY Zenon
    <3>. HIDE DEF d, k
    <3>6. Local(u, s, d)
      <4>1. d.type \in {"offer", "answer", "pranswer"}
        BY <3>3, Zenon
      <4>. QED BY <2>3, <3>1, <4>1, LocalSettled, Zenon
    <3>. HIDE DEF u
    <3>7. superseded \/ (d.type = "offer" /\ s.penLocal # None) => superseded'
      BY <3>1, <3>3, Zenon
    <3>8. d.type = "pranswer" => bound.pranswer
      BY <3>1, <3>2, <3>3, Zenon
    <3>9. Joint(u, t, wire[p], Append(wire[q], d), k, held[q], superseded', bound.pranswer)
      BY <2>2, <3>3, <3>5, <3>6, <3>7, <3>8, JointLocal, Zenon
    <3>10. DOMAIN wire' = Peers /\ wire'[p] = wire[p] /\ wire'[q] = Append(wire[q], d)
      BY <2>4, <3>1, Zenon
    <3>. QED BY <3>1, <3>4, <3>9, <3>10, Paired, Zenon
  <2>12. ASSUME SetRemoteDescription(p) PROVE SigInv'
    <3>. DEFINE d == Head(wire[p])  u == IF Accepted(s, d, "remote") THEN After(s, d) ELSE s
    <3>1. /\ wire[p] # <<>> /\ peer' = [peer EXCEPT ![p] = u]
          /\ wire' = [wire EXCEPT ![p] = Tail(wire[p])]
          /\ held' = held /\ bound' = bound /\ superseded' = superseded
      BY <2>12, Zenon DEF SetRemoteDescription, After
    <3>2. Says(d, t, s)
      <4>1. wire[p] \in Seq(Range(wire[p])) /\ \A i \in DOMAIN wire[p] : Says(wire[p][i], t, s)
        BY <2>2, Zenon DEF Joint, EndOK
      <4>. QED BY <3>1, <4>1, Taking, Zenon
    <3>. HIDE DEF d
    <3>3. Takes(u, s, d)
      <4>1. d.type \in {"offer", "answer", "pranswer"}
        BY <3>2, Zenon DEF Says
      <4>. QED BY <2>3, <4>1, RemoteSettled, Zenon DEF Takes
    <3>. HIDE DEF u
    <3>. DEFINE k == held[p]
    <3>4. DOMAIN held' = Peers /\ held'[p] = k /\ held'[q] = held[q]
      BY <2>4, <3>1, Zenon
    <3>5. Joint(u, t, Tail(wire[p]), wire[q], held[p], held[q], superseded, bound.pranswer)
      BY <2>2, <3>1, <3>3, JointRemote, Zenon DEF d
    <3>6. DOMAIN wire' = Peers /\ wire'[p] = Tail(wire[p]) /\ wire'[q] = wire[q]
      BY <2>4, <3>1, Zenon
    <3>. HIDE DEF k
    <3>7. Joint(u, t, Tail(wire[p]), wire[q], k, held[q], superseded', bound.pranswer)
      BY <3>1, <3>5, Zenon DEF k
    <3>. QED BY <3>1, <3>4, <3>6, <3>7, Paired, Zenon
  <2>13. ASSUME StartTransports(p) PROVE SigInv'
    <3>. DEFINE a == s.curRemote.ufrag
    <3>1. /\ peer' = [peer EXCEPT ![p] = [s EXCEPT !.remote = a]]
          /\ s.sig = "stable" /\ s.curRemote # None
      BY <2>13, Zenon DEF StartTransports
    <3>2. Same([s EXCEPT !.remote = a], s)
      BY <2>3, <3>1, Started, Zenon
    <3>3. UNCHANGED <<wire, held, bound, superseded>>
      BY <2>13, Zenon DEF StartTransports, history
    <3>. HIDE DEF a
    <3>. QED BY <3>1, <3>2, <3>3, Touched, Zenon
  <2>. QED BY <2>1, <2>5, <2>6, <2>7, <2>9, <2>10, <2>11, <2>12, <2>13, Zenon
<1>. QED BY <1>1, <1>2, Zenon

\* The invariant holds throughout: each peer has the pending descriptions of its
\* state, credentials that are not out of date, and only descriptions of the other
\* one; and unless an offer was replaced before its answer, the two are in one of
\* the phases of an exchange.
THEOREM SignalingInvariance == SigSpec => []SigInv
<1>. QED BY SignalingInit, SignalingStep, PTL DEF SigSpec

-----------------------------------------------------------------------------
(***************************************************************************)
(* What follows.                                                           *)
(***************************************************************************)

\* Both ends at rest are in the idle phase.
LEMMA AtRest ==
    ASSUME SigInv, Settled, NEW p \in Peers
    PROVE  LET s == peer[p]  t == peer[Other(p)]
           IN  /\ PeerOK(s, t) /\ PeerOK(t, s) /\ Agree(s, t) /\ s.sig = "stable"
               /\ s.curRemote # None /\ t.curRemote # None /\ (~bound.pranswer => Cast(s, t))
<1>. DEFINE q == Other(p)  s == peer[p]  t == peer[q]  v == wire[p]  w == wire[q]
<1>1. Joint(s, t, v, w, held[p], held[q], superseded, bound.pranswer)
  BY Zenon DEF SigInv
<1>2. q \in Peers
  BY TwoPeers, Zenon
<1>3. /\ ~superseded /\ s.sig = "stable" /\ t.sig = "stable" /\ v = <<>> /\ w = <<>>
      /\ s.curLocal # None /\ t.curLocal # None
  BY <1>2, Zenon DEF Settled
<1>4. PeerOK(s, t) /\ PeerOK(t, s) /\ Exchange(s, t, v, w) /\ (~bound.pranswer => Cast(s, t))
  BY <1>1, <1>3, Zenon DEF Joint, EndOK
<1>. HIDE DEF s, t, v, w
<1>5. Agree(s, t) /\ s.curRemote # None /\ t.curRemote # None
  BY <1>3, <1>4, ExchangeRest, Zenon
<1>. QED BY <1>3, <1>4, <1>5, Zenon DEF s, t

\* An exchange of any length, with offers refused, replaced and thrown away, leaves
\* both peers with the pending descriptions of their states and, once it has
\* settled, with the same two descriptions (set_description).
THEOREM ExchangesSettleTheorem == SigSpec => []ExchangesSettle
<1>1. ASSUME SigInv PROVE ExchangesSettle
  <2>1. PendingFollowsState
    <3>. SUFFICES ASSUME NEW p \in Peers
                  PROVE  <<peer[p].sig, peer[p].penLocal.type, peer[p].penRemote.type>> \in
            {<<"stable", "none", "none">>, <<"haveLocalOffer", "offer", "none">>,
             <<"haveRemoteOffer", "none", "offer">>,
             <<"haveLocalPranswer", "pranswer", "offer">>,
             <<"haveRemotePranswer", "offer", "pranswer">>}
      BY Zenon DEF PendingFollowsState
    <3>1. Follows(peer[p])
      BY <1>1, Zenon DEF SigInv, Joint, EndOK, PeerOK
    <3>. QED BY <3>1, Zenon DEF Follows
  <2>2. ExchangesAgree
    BY <1>1, AtRest, Zenon DEF ExchangesAgree, Agree
  <2>. QED BY <2>1, <2>2, Zenon DEF ExchangesSettle
<1>. QED BY <1>1, SignalingInvariance, PTL

\* However often either end restarts ICE, a peer that has settled never goes on with
\* credentials the other end has replaced (set_remote_description).
THEOREM CredentialsFreshTheorem == SigSpec => []CredentialsFresh
<1>1. ASSUME SigInv PROVE CredentialsFresh
  <2>. SUFFICES ASSUME NEW p \in Peers, Settled, peer[p].remote # 0, peer[p].curRemote.ufrag # 0
                PROVE  peer[p].remote = peer[p].curRemote.ufrag
    BY Zenon DEF CredentialsFresh
  <2>. DEFINE s == peer[p]  t == peer[Other(p)]
  <2>1. PeerOK(s, t) /\ s.sig = "stable" /\ s.curRemote # None
    BY <1>1, AtRest, Zenon
  <2>2. s.penRemote = None /\ Fresh(s)
    BY <2>1, Pendings, Zenon DEF PeerOK
  <2>. QED BY <2>1, <2>2, Zenon DEF Fresh, RemoteDescription
<1>. QED BY <1>1, SignalingInvariance, PTL

\* Where no provisional answer is used the two ends of a settled session have
\* different ICE roles and, but for a full peer and a lite one that are both the
\* client, different DTLS roles, whatever their settings and whoever offers
\* (set_remote_description, RTCDtlsTransport::role).
THEOREM RolesDifferTheorem == SigSpec => [](bound.pranswer \/ RolesDiffer)
<1>1. ASSUME SigInv, ~bound.pranswer PROVE RolesDiffer
  <2>1. ASSUME NEW p \in Peers, Settled, peer[p].ice # "none", peer[Other(p)].ice # "none"
        PROVE  Opposed(peer[p], peer[Other(p)])
    <3>. DEFINE s == peer[p]  t == peer[Other(p)]
    <3>1. /\ PeerOK(s, t) /\ PeerOK(t, s) /\ Cast(s, t) /\ s.curRemote # None /\ t.curRemote # None
      BY <1>1, <2>1, AtRest, Zenon
    <3>. QED BY <2>1, <3>1, CastOpposed, Zenon
  <2>. QED BY <2>1, Zenon DEF RolesDiffer, Opposed, BothClients
<1>2. SigInv => bound.pranswer \/ RolesDiffer
  BY <1>1, Zenon
<1>. QED BY <1>2, SignalingInvariance, PTL
=============================================================================
