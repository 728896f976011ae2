----------------------- MODULE SignalingState_proof -----------------------
(***************************************************************************)
(* What two peers that exchange offers and answers agree on: the phases of *)
(* an exchange, and that what either of them does with a description takes *)
(* it from one phase to another.  The sections of descriptions play no     *)
(* part in this: what matters is which description is applied where and in *)
(* which state.                                                            *)
(***************************************************************************)
EXTENDS SignalingState, Sequences, Functions, TLAPS

-----------------------------------------------------------------------------
(***************************************************************************)
(* The phases of an exchange.                                              *)
(***************************************************************************)
Fields == {"sig", "lastOffer", "lastAnswer", "curLocal", "curRemote", "penLocal", "penRemote",
           "trs", "greater", "data", "engine", "ufrag", "remote", "lite", "answering", "ice",
           "dtls"}

\* The description d was made by the peer s for the peer t: create_offer writes
\* actpass, create_answer the role that connection_role chooses.
Says(d, s, t) ==
    /\ DOMAIN d = {"type", "n", "sections", "lite", "ufrag", "setup"}
    /\ d.type \in {"offer", "answer", "pranswer"}
    /\ d.lite = s.lite
    /\ d.setup = IF d.type = "offer" THEN "actpass" ELSE ConnectionRole(s, t)

\* As create_offer and create_answer return it; a description becomes a provisional
\* answer when it is applied.
Drafted(d, s, t) == Says(d, s, t) /\ d.type # "pranswer"

Holds(d, s, t) == d = None \/ Says(d, s, t)

\* The pending descriptions are those of the signalling state.
Follows(s) ==
    <<s.sig, s.penLocal.type, s.penRemote.type>> \in
        {<<"stable", "none", "none">>, <<"haveLocalOffer", "offer", "none">>,
         <<"haveRemoteOffer", "none", "offer">>, <<"haveLocalPranswer", "pranswer", "offer">>,
         <<"haveRemotePranswer", "offer", "pranswer">>}

\* The agent has no credentials of the other side, or those it was sent last.
Fresh(s) ==
    /\ s.curRemote = None => s.remote = 0
    /\ (s.remote # 0 /\ RemoteDescription(s) # None /\ RemoteDescription(s).ufrag # 0)
        => s.remote = RemoteDescription(s).ufrag

PeerOK(s, t) ==
    /\ DOMAIN s = Fields
    /\ s.lite \in BOOLEAN /\ s.answering \in {"unspecified", "client", "server"}
    /\ Follows(s) /\ Fresh(s)
    /\ Holds(s.curLocal, s, t) /\ Holds(s.penLocal, s, t)
    /\ Holds(s.curRemote, t, s) /\ Holds(s.penRemote, t, s)
    /\ s.curLocal = None <=> s.curRemote = None

\* A peer, the other one, the descriptions under way to it and those it has made.
EndOK(s, t, w, h) ==
    /\ PeerOK(s, t)
    /\ w \in Seq(Range(w)) /\ \A i \in DOMAIN w : Says(w[i], t, s)
    /\ \A d \in h : Drafted(d, s, t)

Agree(s, t) == s.curLocal = t.curRemote /\ s.curRemote = t.curLocal

\* The phases of an exchange of which s made the last offer that was not refused;
\* v and w are under way to s and to t.  A peer that has answered may offer before
\* its answer has arrived (Behind); if both offer at once neither can go on (Glare).
Idle(s, t, v, w) ==
    s.sig = "stable" /\ t.sig = "stable" /\ v = <<>> /\ w = <<>> /\ Agree(s, t)
Offered(s, t, v, w) ==
    s.sig = "haveLocalOffer" /\ t.sig = "stable" /\ v = <<>> /\ w = <<s.penLocal>> /\ Agree(s, t)
Received(s, t, v, w) ==
    /\ s.sig = "haveLocalOffer" /\ t.sig = "haveRemoteOffer" /\ t.penRemote = s.penLocal
    /\ v = <<>> /\ w = <<>> /\ Agree(s, t)

\* What is under way to s is rest, possibly behind a provisional answer.
Due(s, v, rest) ==
    \/ s.sig \in {"haveLocalOffer", "haveRemotePranswer"} /\ v = rest
    \/ s.sig = "haveLocalOffer" /\ v # <<>> /\ Head(v).type = "pranswer" /\ Tail(v) = rest

Provisional(s, t, v, w) ==
    /\ t.sig = "haveLocalPranswer" /\ t.penRemote = s.penLocal
    /\ w = <<>> /\ Due(s, v, <<>>) /\ Agree(s, t)
Answered(s, t, v, w) ==
    /\ t.sig = "stable" /\ t.curRemote = s.penLocal /\ t.curLocal.type = "answer"
    /\ w = <<>> /\ Due(s, v, <<t.curLocal>>)
Behind(s, t, v, w) ==
    /\ t.sig = "haveLocalOffer" /\ t.curRemote = s.penLocal /\ t.curLocal.type = "answer"
    /\ w = <<>> /\ Due(s, v, <<t.curLocal, t.penLocal>>)
Glare(s, t, v, w) ==
    /\ s.sig = "haveLocalOffer" /\ t.sig = "haveLocalOffer"
    /\ \A i \in DOMAIN v : v[i].type = "offer"
    /\ \A i \in DOMAIN w : w[i].type = "offer"

Talk(s, t, v, w) ==
    \/ Idle(s, t, v, w) \/ Offered(s, t, v, w) \/ Received(s, t, v, w) \/ Provisional(s, t, v, w)
    \/ Answered(s, t, v, w) \/ Behind(s, t, v, w) \/ Glare(s, t, v, w)

Exchange(s, t, v, w) == Talk(s, t, v, w) \/ Talk(t, s, w, v)

\* The roles s takes if it answers the first offer, and if it made it.
AsAnswerer(s, t) ==
    /\ s.ice = IF t.lite /\ ~s.lite THEN "controlling" ELSE "controlled"
    /\ s.dtls = IF s.answering = "server" THEN "server" ELSE "client"
AsOfferer(s, t) ==
    /\ s.ice = IF t.lite = s.lite \/ (t.lite /\ ~s.lite) THEN "controlling" ELSE "controlled"
    /\ s.dtls = IF ConnectionRole(t, s) = "active" THEN "server" ELSE "client"

\* Until the other side has a current description only an answerer has a role.
Placed(s, t) ==
    /\ s.curRemote = None /\ s.penRemote = None => s.ice = "none"
    /\ t.curRemote = None => s.ice = "none" \/ AsAnswerer(s, t)
Chosen(s, t) ==
    (s.ice = "none" \/ AsOfferer(s, t)) /\ (t.ice = "none" \/ AsAnswerer(t, s))
Cast(s, t) ==
    /\ Placed(s, t) /\ Placed(t, s)
    /\ s.curRemote # None /\ t.curRemote # None => Chosen(s, t) \/ Chosen(t, s)

\* No provisional answer is used.
NoPranswer(s, v) ==
    /\ s.sig \notin {"haveLocalPranswer", "haveRemotePranswer"}
    /\ \A i \in DOMAIN v : v[i].type # "pranswer"

\* Two ends, with the descriptions under way to them and those they have made.
Joint(s, t, v, w, g, h, replaced, provisional) ==
    /\ EndOK(s, t, v, g) /\ EndOK(t, s, w, h)
    /\ replaced \/ Exchange(s, t, v, w)
    /\ provisional \/ (NoPranswer(s, v) /\ NoPranswer(t, w))
    /\ replaced \/ provisional \/ Cast(s, t)

-----------------------------------------------------------------------------
(***************************************************************************)
(* Sequences.                                                              *)
(***************************************************************************)
\* A sequence is one of its own elements.
LEMMA SeqOver ==
    ASSUME NEW S, NEW v \in Seq(S)
    PROVE  v \in Seq(Range(v))
<1>1. Len(v) \in Nat /\ DOMAIN v = 1 .. Len(v) /\ v \in [1 .. Len(v) -> S]
  OBVIOUS
<1>2. \A i \in 1 .. Len(v) : v[i] \in Range(v)
  BY <1>1, Zenon DEF Range
<1>. DEFINE V == Range(v)  n == Len(v)
<1>. HIDE DEF V, n
<1>3. v \in [1 .. n -> V] /\ n \in Nat
  <2>1. \A i \in 1 .. n : v[i] \in V
    BY <1>2, Zenon DEF V, n
  <2>2. n \in Nat /\ v \in [1 .. n -> S]
    BY <1>1, Zenon DEF n
  <2>. QED BY <2>1, <2>2
<1>4. v \in Seq(V)
  BY <1>3
<1>. QED BY <1>4, Zenon DEF V

\* A sequence is longer by what is appended.
LEMMA Appending ==
    ASSUME NEW w, w \in Seq(Range(w)), NEW d
    PROVE  /\ Append(w, d) \in Seq(Range(Append(w, d)))
           /\ \A i \in DOMAIN Append(w, d) :
                Append(w, d)[i] = d \/ \E j \in DOMAIN w : Append(w, d)[i] = w[j]
           /\ w = <<>> => Append(w, d) = <<d>>
           /\ w # <<>> => /\ Append(w, d) # <<>> /\ Head(Append(w, d)) = Head(w)
                          /\ Tail(Append(w, d)) = Append(Tail(w), d)
<1>. DEFINE R == Range(w)  v == Append(w, d)
<1>. HIDE DEF R
<1>0. w \in Seq(R)
  BY Zenon DEF R
<1>1. /\ Len(w) \in Nat /\ DOMAIN w = 1 .. Len(w)
      /\ Len(v) = Len(w) + 1 /\ DOMAIN v = 1 .. Len(w) + 1 /\ v[Len(w) + 1] = d
      /\ \A i \in 1 .. Len(w) : v[i] = w[i]
      /\ v \in Seq(R \cup {d})
  BY <1>0
<1>2. \A i \in DOMAIN v : v[i] = d \/ \E j \in DOMAIN w : v[i] = w[j]
  <2>. TAKE i \in DOMAIN v
  <2>1. i = Len(w) + 1 \/ i \in 1 .. Len(w)
    BY <1>1
  <2>. QED BY <1>1, <2>1, Zenon
<1>3. v \in Seq(Range(v))
  <2>. HIDE DEF v
  <2>. QED BY <1>1, SeqOver, Zenon
<1>4. w = <<>> => v = <<d>>
  BY <1>0
<1>5. w # <<>> => v # <<>> /\ Head(v) = Head(w) /\ Tail(v) = Append(Tail(w), d)
  BY <1>0
<1>. QED BY <1>2, <1>3, <1>4, <1>5, Zenon

\* Two descriptions, one behind the other.
LEMMA AppendSecond ==
    ASSUME NEW a, NEW d
    PROVE  Append(<<a>>, d) = <<a, d>>
<1>. DEFINE x == Append(<<a>>, d)  y == <<a, d>>
<1>1. <<a>> \in Seq({a}) /\ Len(<<a>>) = 1
  OBVIOUS
<1>2. x \in Seq({a, d}) /\ Len(x) = 2 /\ x[1] = a /\ x[2] = d
  BY <1>1
<1>3. y \in Seq({a, d}) /\ Len(y) = 2 /\ y[1] = a /\ y[2] = d
  OBVIOUS
<1>. HIDE DEF x, y
<1>4. x \in [1 .. 2 -> {a, d}] /\ y \in [1 .. 2 -> {a, d}]
  BY <1>2, <1>3
<1>5. \A i \in 1 .. 2 : x[i] = y[i]
  BY <1>2, <1>3
<1>6. x = y
  BY <1>4, <1>5
<1>. QED BY <1>6, Zenon DEF x, y

\* What is behind the head of a sequence.
LEMMA Taking ==
    ASSUME NEW w, w \in Seq(Range(w)), w # <<>>
    PROVE  /\ Tail(w) \in Seq(Range(Tail(w)))
           /\ \E j \in DOMAIN w : Head(w) = w[j]
           /\ \A i \in DOMAIN Tail(w) : \E j \in DOMAIN w : Tail(w)[i] = w[j]
<1>. DEFINE R == Range(w)  v == Tail(w)
<1>. HIDE DEF R
<1>0. w \in Seq(R)
  BY Zenon DEF R
<1>1. /\ Len(w) \in Nat /\ Len(w) > 0 /\ DOMAIN w = 1 .. Len(w) /\ Head(w) = w[1]
      /\ Len(v) = Len(w) - 1 /\ DOMAIN v = 1 .. Len(w) - 1
      /\ \A i \in 1 .. Len(w) - 1 : v[i] = w[i + 1]
      /\ v \in Seq(R)
  BY <1>0
<1>2. \A i \in DOMAIN v : \E j \in DOMAIN w : v[i] = w[j]
  <2>. TAKE i \in DOMAIN v
  <2>1. i + 1 \in DOMAIN w /\ v[i] = w[i + 1]
    BY <1>1
  <2>. QED BY <2>1, Zenon
<1>3. v \in Seq(Range(v))
  <2>. HIDE DEF v
  <2>. QED BY <1>1, SeqOver, Zenon
<1>4. 1 \in DOMAIN w
  BY <1>1
<1>. QED BY <1>1, <1>2, <1>3, <1>4, Zenon

-----------------------------------------------------------------------------
(***************************************************************************)
(* One peer.                                                               *)
(***************************************************************************)
\* The five descriptions and states of a peer.
At(s, sig, curLocal, curRemote, penLocal, penRemote) ==
    /\ s.sig = sig /\ s.curLocal = curLocal /\ s.curRemote = curRemote
    /\ s.penLocal = penLocal /\ s.penRemote = penRemote

\* What no operation changes.
Kept(u, s) == DOMAIN u = Fields /\ u.lite = s.lite /\ u.answering = s.answering

\* set_local_description(d) turns s into u.
Local(u, s, d) ==
    /\ Kept(u, s) /\ u.ice = s.ice /\ u.dtls = s.dtls /\ u.remote = s.remote
    /\ \/ /\ d.type = "offer" /\ s.sig \in {"stable", "haveLocalOffer"}
          /\ At(u, "haveLocalOffer", s.curLocal, s.curRemote, d, s.penRemote)
       \/ /\ d.type = "pranswer" /\ s.sig = "haveRemoteOffer"
          /\ At(u, "haveLocalPranswer", s.curLocal, s.curRemote, d, s.penRemote)
       \/ /\ d.type = "answer" /\ s.sig \in {"haveRemoteOffer", "haveLocalPranswer"}
          /\ At(u, "stable", d, s.penRemote, None, None)

\* set_remote_description(d) turns s into u.
Remote(u, s, d) ==
    /\ Kept(u, s)
    /\ IF d.ufrag # 0 /\ s.curRemote = None
       THEN u.ice = IceRole(s, d) /\ u.dtls = DtlsRole(s, d)
       ELSE u.ice = s.ice /\ u.dtls = s.dtls
    /\ IF d.ufrag # 0 /\ s.curRemote # None
       THEN u.remote = d.ufrag \/ u.remote = 0 ELSE u.remote = s.remote
    /\ \/ /\ d.type = "offer" /\ s.sig = "stable"
          /\ At(u, "haveRemoteOffer", s.curLocal, s.curRemote, s.penLocal, d)
       \/ /\ d.type = "pranswer" /\ s.sig = "haveLocalOffer"
          /\ At(u, "haveRemotePranswer", s.curLocal, s.curRemote, s.penLocal, d)
       \/ /\ d.type = "answer" /\ s.sig \in {"haveLocalOffer", "haveRemotePranswer"}
          /\ At(u, "stable", s.penLocal, d, None, None)

\* The state SetDescription chooses.
LEMMA ChosenState ==
    ASSUME NEW x, NEW op, NEW type, NextStates(x, op, type) # {}
    PROVE  <<x, op, type, CHOOSE y \in NextStates(x, op, type) : TRUE>> \in Transitions
<1>1. (CHOOSE y \in NextStates(x, op, type) : TRUE) \in NextStates(x, op, type)
  BY Zenon
<1>. QED BY <1>1, Zenon DEF NextStates

\* Where there is a transition a state can be chosen.
LEMMA HasNext ==
    ASSUME NEW x, NEW op, NEW type, NEW y, <<x, op, type, y>> \in Transitions
    PROVE  NextStates(x, op, type) # {}
<1>1. <<x, op, type, y>>[4] = y
  OBVIOUS
<1>2. y \in NextStates(x, op, type)
  BY <1>1, Zenon DEF NextStates
<1>. QED BY <1>2, Zenon

\* Two records of a peer that differ at most in transceivers, engine and counters.
Resembles(u, s) ==
    /\ DOMAIN u = Fields /\ u.lite = s.lite /\ u.answering = s.answering /\ u.ice = s.ice
    /\ u.dtls = s.dtls /\ u.remote = s.remote
    /\ At(u, s.sig, s.curLocal, s.curRemote, s.penLocal, s.penRemote)

\* A step that applies no description: the descriptions made are of this peer, and
\* the credentials are at most forgotten, or taken from the current description.
Same(u, s) ==
    /\ Kept(u, s) /\ u.ice = s.ice /\ u.dtls = s.dtls
    /\ At(u, s.sig, s.curLocal, s.curRemote, s.penLocal, s.penRemote)
    /\ \/ u.remote = s.remote \/ u.remote = 0
       \/ s.sig = "stable" /\ s.curRemote # None /\ u.remote = s.curRemote.ufrag

\* Transceivers, the media engine and the request for a data channel are no part of
\* this.
LEMMA Retouched ==
    ASSUME NEW s, DOMAIN s = Fields, NEW a
    PROVE  /\ Resembles(s, s) /\ Same(s, s)
           /\ Resembles([s EXCEPT !.trs = a], s) /\ Resembles([s EXCEPT !.engine = a], s)
           /\ Same([s EXCEPT !.trs = a], s) /\ Same([s EXCEPT !.data = a], s)
           /\ \A b : Resembles([s EXCEPT !.greater = a, !.trs = b], s)
           /\ \A b : Resembles([s EXCEPT !.lastOffer = a, !.lastAnswer = b], s)
<1>1. Resembles(s, s) /\ Same(s, s)
  BY Zenon DEF Resembles, Same, Kept, At
<1>2. Resembles([s EXCEPT !.trs = a], s) /\ Resembles([s EXCEPT !.engine = a], s)
  BY DEF Fields, At, Resembles
<1>3. Same([s EXCEPT !.trs = a], s) /\ Same([s EXCEPT !.data = a], s)
  BY DEF Fields, At, Kept, Same
<1>4. ASSUME NEW b PROVE Resembles([s EXCEPT !.greater = a, !.trs = b], s)
  BY DEF Fields, At, Resembles
<1>5. ASSUME NEW b PROVE Resembles([s EXCEPT !.lastOffer = a, !.lastAnswer = b], s)
  BY DEF Fields, At, Resembles
<1>. QED BY <1>1, <1>2, <1>3, <1>4, <1>5, Zenon

\* Such steps, one after another.
LEMMA SameStill ==
    ASSUME NEW s, NEW x, NEW n, NEW w, Same(x, s), Resembles(n, x), Resembles(w, n)
    PROVE  Same(w, s) /\ n.lite = s.lite /\ Resembles(w, x)
  BY Zenon DEF Same, Resembles, Kept, At

\* set_local_description on a peer: its state and its descriptions.
LEMMA LocalStep ==
    ASSUME NEW s, NEW d, DOMAIN s = Fields, Accepted(s, d, "local"),
           d.type \in {"offer", "answer", "pranswer"}
    PROVE  LET c == SetDescription(s, d, "local")
           IN  DOMAIN c = Fields /\ \A u : Resembles(u, c) => Local(u, s, d)
<1>. DEFINE x == CHOOSE y \in NextStates(s.sig, "local", d.type) : TRUE
            b == Store(s, d, "local")  c == [b EXCEPT !.sig = x]
<1>1. <<s.sig, "local", d.type, x>> \in Transitions
  BY ChosenState, Zenon DEF Accepted
<1>2. \/ s.sig \in {"stable", "haveLocalOffer"} /\ d.type = "offer" /\ x = "haveLocalOffer"
      \/ s.sig = "haveRemoteOffer" /\ d.type = "pranswer" /\ x = "haveLocalPranswer"
      \/ s.sig \in {"haveRemoteOffer", "haveLocalPranswer"} /\ d.type = "answer" /\ x = "stable"
  <2>. HIDE DEF x
  <2>. QED BY <1>1 DEF Transitions
<1>3. SetDescription(s, d, "local") = c
  BY Zenon DEF SetDescription
<1>. HIDE DEF x
<1>4. /\ DOMAIN b = Fields /\ b.lite = s.lite /\ b.answering = s.answering /\ b.ice = s.ice
      /\ b.dtls = s.dtls /\ b.remote = s.remote
      /\ IF d.type = "answer"
         THEN b.curLocal = d /\ b.curRemote = s.penRemote /\ b.penLocal = None /\ b.penRemote = None
         ELSE b.curLocal = s.curLocal /\ b.curRemote = s.curRemote /\ b.penLocal = d
              /\ b.penRemote = s.penRemote
  <2>1. CASE d.type = "answer"
    <3>1. b = [s EXCEPT !.curLocal = d, !.curRemote = s.penRemote, !.penLocal = None,
          !.penRemote = None]
      BY <2>1 DEF Store
    <3>. QED BY <2>1, <3>1 DEF Fields
  <2>2. CASE d.type # "answer"
    <3>1. b = [s EXCEPT !.penLocal = d]
      BY <2>2 DEF Store
    <3>. QED BY <2>2, <3>1 DEF Fields
  <2>. QED BY <2>1, <2>2, Zenon
<1>. HIDE DEF b
<1>5. /\ DOMAIN c = Fields /\ c.lite = b.lite /\ c.answering = b.answering /\ c.ice = b.ice
      /\ c.dtls = b.dtls /\ c.remote = b.remote
      /\ At(c, x, b.curLocal, b.curRemote, b.penLocal, b.penRemote)
  BY <1>4 DEF Fields, At
<1>. HIDE DEF c
<1>6. ASSUME NEW u, Resembles(u, c) PROVE Local(u, s, d)
  <2>1. /\ Kept(u, s) /\ u.ice = s.ice /\ u.dtls = s.dtls /\ u.remote = s.remote
        /\ At(u, x, b.curLocal, b.curRemote, b.penLocal, b.penRemote)
    BY <1>4, <1>5, <1>6, Zenon DEF Resembles, At, Kept
  <2>. QED BY <1>2, <1>4, <2>1 DEF Local, At
<1>. QED BY <1>3, <1>5, <1>6, Zenon

\* set_remote_description on a peer: m is the peer once it has the description and
\* has looked at its sections.
LEMMA RemoteStep ==
    ASSUME NEW s, NEW d, DOMAIN s = Fields, Accepted(s, d, "remote"),
           d.type \in {"offer", "answer", "pranswer"}
    PROVE  LET c == SetDescription(s, d, "remote")
           IN  /\ DOMAIN c = Fields
               /\ \A m : Resembles(m, c) =>
                    /\ d.ufrag = 0 => Remote(m, s, d)
                    /\ d.ufrag # 0 /\ s.curRemote # None => Remote(RenewCredentials(m, d), s, d)
                    /\ d.ufrag # 0 /\ s.curRemote = None =>
                        Remote([m EXCEPT !.ice = IceRole(s, d), !.dtls = DtlsRole(s, d)], s, d)
<1>. DEFINE x == CHOOSE y \in NextStates(s.sig, "remote", d.type) : TRUE
            b == Store(s, d, "remote")  c == [b EXCEPT !.sig = x]
<1>1. <<s.sig, "remote", d.type, x>> \in Transitions
  BY ChosenState, Zenon DEF Accepted
<1>2. \/ s.sig = "stable" /\ d.type = "offer" /\ x = "haveRemoteOffer"
      \/ s.sig = "haveLocalOffer" /\ d.type = "pranswer" /\ x = "haveRemotePranswer"
      \/ s.sig \in {"haveLocalOffer", "haveRemotePranswer"} /\ d.type = "answer" /\ x = "stable"
  <2>. HIDE DEF x
  <2>. QED BY <1>1 DEF Transitions
<1>3. SetDescription(s, d, "remote") = c
  BY Zenon DEF SetDescription
<1>. HIDE DEF x
<1>4. /\ DOMAIN b = Fields /\ b.lite = s.lite /\ b.answering = s.answering /\ b.ice = s.ice
      /\ b.dtls = s.dtls /\ b.remote = s.remote
      /\ IF d.type = "answer"
         THEN b.curLocal = s.penLocal /\ b.curRemote = d /\ b.penLocal = None /\ b.penRemote = None
         ELSE b.curLocal = s.curLocal /\ b.curRemote = s.curRemote /\ b.penLocal = s.penLocal
              /\ b.penRemote = d
  <2>1. CASE d.type = "answer"
    <3>1. b = [s EXCEPT !.curRemote = d, !.curLocal = s.penLocal, !.penLocal = None,
          !.penRemote = None]
      BY <2>1 DEF Store
    <3>. QED BY <2>1, <3>1 DEF Fields
  <2>2. CASE d.type # "answer"
    <3>1. b = [s EXCEPT !.penRemote = d]
      BY <2>2 DEF Store
    <3>. QED BY <2>2, <3>1 DEF Fields
  <2>. QED BY <2>1, <2>2, Zenon
<1>. HIDE DEF b
<1>5. /\ DOMAIN c = Fields /\ c.lite = b.lite /\ c.answering = b.answering /\ c.ice = b.ice
      /\ c.dtls = b.dtls /\ c.remote = b.remote
      /\ At(c, x, b.curLocal, b.curRemote, b.penLocal, b.penRemote)
  BY <1>4 DEF Fields, At
<1>. HIDE DEF c
<1>6. ASSUME NEW m, Resembles(m, c)
      PROVE  /\ d.ufrag = 0 => Remote(m, s, d)
             /\ d.ufrag # 0 /\ s.curRemote # None => Remote(RenewCredentials(m, d), s, d)
             /\ d.ufrag # 0 /\ s.curRemote = None =>
                  Remote([m EXCEPT !.ice = IceRole(s, d), !.dtls = DtlsRole(s, d)], s, d)
  <2>1. /\ Kept(m, s) /\ m.ice = s.ice /\ m.dtls = s.dtls /\ m.remote = s.remote
        /\ At(m, x, b.curLocal, b.curRemote, b.penLocal, b.penRemote)
    BY <1>4, <1>5, <1>6, Zenon DEF Resembles, At, Kept
  <2>2. ASSUME d.ufrag = 0 PROVE Remote(m, s, d)
    BY <1>2, <1>4, <2>1, <2>2 DEF Remote, At
  <2>3. ASSUME d.ufrag # 0, s.curRemote # None PROVE Remote(RenewCredentials(m, d), s, d)
    <3>. DEFINE u == RenewCredentials(m, d)
    <3>1. /\ DOMAIN u = Fields /\ u.lite = m.lite /\ u.answering = m.answering /\ u.ice = m.ice
          /\ u.dtls = m.dtls /\ (u.remote = d.ufrag \/ u.remote = 0)
          /\ At(u, m.sig, m.curLocal, m.curRemote, m.penLocal, m.penRemote)
      BY <2>1 DEF RenewCredentials, HaveRemoteCredentialsChange, Restart, Fields, At, Kept
    <3>. HIDE DEF u
    <3>2. Remote(u, s, d)
      BY <1>2, <1>4, <2>1, <2>3, <3>1 DEF Remote, At, Kept
    <3>. QED BY <3>2, Zenon DEF u
  <2>4. ASSUME d.ufrag # 0, s.curRemote = None
        PROVE  Remote([m EXCEPT !.ice = IceRole(s, d), !.dtls = DtlsRole(s, d)], s, d)
    <3>. DEFINE u == [m EXCEPT !.ice = IceRole(s, d), !.dtls = DtlsRole(s, d)]
    <3>1. /\ DOMAIN u = Fields /\ u.lite = m.lite /\ u.answering = m.answering
          /\ u.ice = IceRole(s, d) /\ u.dtls = DtlsRole(s, d) /\ u.remote = m.remote
          /\ At(u, m.sig, m.curLocal, m.curRemote, m.penLocal, m.penRemote)
      BY <2>1 DEF Fields, At, Kept
    <3>. HIDE DEF u
    <3>2. Remote(u, s, d)
      BY <1>2, <1>4, <2>1, <2>4, <3>1 DEF Remote, At, Kept
    <3>. QED BY <3>2, Zenon DEF u
  <2>. QED BY <2>2, <2>3, <2>4, Zenon
<1>. QED BY <1>3, <1>5, <1>6, Zenon

\* Who a description is from depends on settings only.
LEMMA SaysStill ==
    ASSUME NEW s, NEW t, NEW x, NEW y, NEW d, Says(d, s, t), x.lite = s.lite,
           x.answering = s.answering, y.lite = t.lite
    PROVE  Says(d, x, y)
  BY Zenon DEF Says, ConnectionRole

\* The same of a description that may be missing.
LEMMA HoldsStill ==
    ASSUME NEW s, NEW t, NEW x, NEW y, NEW d, Holds(d, s, t), x.lite = s.lite,
           x.answering = s.answering, y.lite = t.lite
    PROVE  Holds(d, x, y)
  BY SaysStill, Zenon DEF Holds

\* The other end is as good after a step of this one.
LEMMA OtherEnd ==
    ASSUME NEW s, NEW t, NEW w, NEW h, EndOK(t, s, w, h), NEW u, Kept(u, s)
    PROVE  EndOK(t, u, w, h)
<1>1. u.lite = s.lite /\ u.answering = s.answering
  BY Zenon DEF Kept
<1>2. PeerOK(t, u)
  <2>1. PeerOK(t, s)
    BY Zenon DEF EndOK
  <2>2. Holds(t.curLocal, t, u) /\ Holds(t.penLocal, t, u) /\ Holds(t.curRemote, u, t) /\
        Holds(t.penRemote, u, t)
    BY <1>1, <2>1, HoldsStill, Zenon DEF PeerOK
  <2>. QED BY <2>1, <2>2, Zenon DEF PeerOK
<1>3. \A i \in DOMAIN w : Says(w[i], u, t)
  BY <1>1, SaysStill, Zenon DEF EndOK
<1>4. \A d \in h : Drafted(d, t, u)
  BY <1>1, SaysStill, Zenon DEF EndOK, Drafted
<1>. QED BY <1>2, <1>3, <1>4, Zenon DEF EndOK

\* A description is not None.
LEMMA SaysSome ==
    ASSUME NEW s, NEW t, NEW d, Says(d, s, t)
    PROVE  d # None
<1>1. None.type = "none"
  BY DEF None
<1>2. d.type # "none"
  BY DEF Says
<1>. QED BY <1>1, <1>2, Zenon

\* The state of a peer and its pending descriptions.
LEMMA Pendings ==
    ASSUME NEW s, NEW t, PeerOK(s, t)
    PROVE  /\ s.sig = "stable" => s.penLocal = None /\ s.penRemote = None
           /\ s.sig = "haveLocalOffer" =>
                Says(s.penLocal, s, t) /\ s.penLocal.type = "offer" /\ s.penRemote = None
           /\ s.sig = "haveRemoteOffer" =>
                s.penLocal = None /\ Says(s.penRemote, t, s) /\ s.penRemote.type = "offer"
           /\ s.sig = "haveLocalPranswer" =>
                /\ Says(s.penLocal, s, t) /\ s.penLocal.type = "pranswer"
                /\ Says(s.penRemote, t, s) /\ s.penRemote.type = "offer"
           /\ s.sig = "haveRemotePranswer" =>
                /\ Says(s.penLocal, s, t) /\ s.penLocal.type = "offer"
                /\ Says(s.penRemote, t, s) /\ s.penRemote.type = "pranswer"
           /\ s.sig \in {"stable", "haveLocalOffer", "haveRemoteOffer", "haveLocalPranswer",
                         "haveRemotePranswer"}
<1>1. None.type = "none"
  BY DEF None
<1>2. \/ s.sig = "stable" /\ s.penLocal.type = "none" /\ s.penRemote.type = "none"
      \/ s.sig = "haveLocalOffer" /\ s.penLocal.type = "offer" /\ s.penRemote.type = "none"
      \/ s.sig = "haveRemoteOffer" /\ s.penLocal.type = "none" /\ s.penRemote.type = "offer"
      \/ s.sig = "haveLocalPranswer" /\ s.penLocal.type = "pranswer" /\ s.penRemote.type = "offer"
      \/ s.sig = "haveRemotePranswer" /\ s.penLocal.type = "offer" /\ s.penRemote.type = "pranswer"
  BY DEF PeerOK, Follows
<1>3. s.penLocal.type # "none" => Says(s.penLocal, s, t)
  BY <1>1, Zenon DEF PeerOK, Holds
<1>4. s.penRemote.type # "none" => Says(s.penRemote, t, s)
  BY <1>1, Zenon DEF PeerOK, Holds
<1>5. s.penLocal.type = "none" => s.penLocal = None
  BY DEF PeerOK, Holds, Says
<1>6. s.penRemote.type = "none" => s.penRemote = None
  BY DEF PeerOK, Holds, Says
<1>. QED BY <1>2, <1>3, <1>4, <1>5, <1>6

\* set_local_description leaves a peer in order.
LEMMA LocalPeer ==
    ASSUME NEW s, NEW t, PeerOK(s, t), NEW d, Says(d, s, t), NEW u, Local(u, s, d)
    PROVE  PeerOK(u, t)
<1>0. None.type = "none" /\ d # None /\ u.lite = s.lite /\ u.answering = s.answering
      /\ u.remote = s.remote /\ DOMAIN u = Fields
  BY SaysSome DEF None, Local, Kept
<1>1. Says(d, u, t)
  BY <1>0, SaysStill, Zenon
<1>2. /\ Holds(s.curLocal, u, t) /\ Holds(s.penLocal, u, t)
      /\ Holds(s.curRemote, t, u) /\ Holds(s.penRemote, t, u)
  BY <1>0, HoldsStill, Zenon DEF PeerOK
<1>3. u.lite \in BOOLEAN /\ u.answering \in {"unspecified", "client", "server"}
  BY <1>0, Zenon DEF PeerOK
<1>4. Fresh(s) /\ (s.curLocal = None <=> s.curRemote = None)
  BY Zenon DEF PeerOK
<1>5. CASE /\ d.type = "offer" /\ s.sig \in {"stable", "haveLocalOffer"}
           /\ At(u, "haveLocalOffer", s.curLocal, s.curRemote, d, s.penRemote)
  <2>1. s.penRemote = None
    BY <1>5, Pendings, Zenon
  <2>2. Follows(u)
    BY <1>0, <1>5, <2>1 DEF Follows, At
  <2>3. Fresh(u)
    BY <1>0, <1>4, <1>5, Zenon DEF Fresh, RemoteDescription, At
  <2>. QED BY <1>0, <1>1, <1>2, <1>3, <1>4, <1>5, <2>2, <2>3, Zenon DEF PeerOK, At, Holds
<1>6. CASE /\ d.type = "pranswer" /\ s.sig = "haveRemoteOffer"
           /\ At(u, "haveLocalPranswer", s.curLocal, s.curRemote, d, s.penRemote)
  <2>1. s.penRemote.type = "offer"
    BY <1>6, Pendings, Zenon
  <2>2. Follows(u)
    BY <1>0, <1>6, <2>1 DEF Follows, At
  <2>3. Fresh(u)
    BY <1>0, <1>4, <1>6, Zenon DEF Fresh, RemoteDescription, At
  <2>. QED BY <1>0, <1>1, <1>2, <1>3, <1>4, <1>6, <2>2, <2>3, Zenon DEF PeerOK, At, Holds
<1>7. CASE /\ d.type = "answer" /\ s.sig \in {"haveRemoteOffer", "haveLocalPranswer"}
           /\ At(u, "stable", d, s.penRemote, None, None)
  <2>1. Says(s.penRemote, t, s)
    BY <1>7, Pendings, Zenon
  <2>2. s.penRemote # None
    BY <2>1, SaysSome, Zenon
  <2>3. Follows(u)
    BY <1>0, <1>7 DEF Follows, At
  <2>4. RemoteDescription(s) = s.penRemote /\ RemoteDescription(u) = s.penRemote /\
        u.curRemote # None
    BY <1>7, <2>2, Zenon DEF RemoteDescription, At
  <2>5. Fresh(u)
    BY <1>0, <1>4, <2>4, Zenon DEF Fresh
  <2>. QED BY <1>0, <1>1, <1>2, <1>3, <1>7, <2>2, <2>3, <2>5, Zenon DEF PeerOK, At, Holds
<1>. QED BY <1>5, <1>6, <1>7, Zenon DEF Local

\* set_remote_description leaves a peer in order.
LEMMA RemotePeer ==
    ASSUME NEW s, NEW t, PeerOK(s, t), NEW d, Says(d, t, s), NEW u, Remote(u, s, d)
    PROVE  PeerOK(u, t)
<1>0. None.type = "none" /\ d # None /\ u.lite = s.lite /\ u.answering = s.answering
      /\ DOMAIN u = Fields
  BY SaysSome DEF None, Remote, Kept
<1>1. Says(d, t, u)
  BY <1>0, SaysStill, Zenon
<1>2. /\ Holds(s.curLocal, u, t) /\ Holds(s.penLocal, u, t)
      /\ Holds(s.curRemote, t, u) /\ Holds(s.penRemote, t, u)
  BY <1>0, HoldsStill, Zenon DEF PeerOK
<1>3. u.lite \in BOOLEAN /\ u.answering \in {"unspecified", "client", "server"}
  BY <1>0, Zenon DEF PeerOK
<1>4. Fresh(s) /\ (s.curLocal = None <=> s.curRemote = None)
  BY Zenon DEF PeerOK
<1>5. RemoteDescription(u) = d
  BY <1>0, Zenon DEF Remote, At, RemoteDescription
<1>6. Fresh(u)
  <2>1. CASE s.curRemote = None
    <3>1. s.remote = 0
      BY <1>4, <2>1, Zenon DEF Fresh
    <3>2. u.remote = s.remote
      BY <2>1, Zenon DEF Remote
    <3>. QED BY <3>1, <3>2, Zenon DEF Fresh
  <2>2. CASE s.curRemote # None
    <3>1. u.curRemote # None
      BY <1>0, <2>2, Zenon DEF Remote, At
    <3>2. d.ufrag # 0 => u.remote = d.ufrag \/ u.remote = 0
      BY <2>2, Zenon DEF Remote
    <3>. QED BY <1>5, <3>1, <3>2, Zenon DEF Fresh
  <2>. QED BY <2>1, <2>2, Zenon
<1>7. CASE /\ d.type = "offer" /\ s.sig = "stable"
           /\ At(u, "haveRemoteOffer", s.curLocal, s.curRemote, s.penLocal, d)
  <2>1. s.penLocal = None
    BY <1>7, Pendings, Zenon
  <2>2. Follows(u)
    BY <1>0, <1>7, <2>1 DEF Follows, At
  <2>. QED BY <1>0, <1>1, <1>2, <1>3, <1>4, <1>6, <1>7, <2>2, Zenon DEF PeerOK, At, Holds
<1>8. CASE /\ d.type = "pranswer" /\ s.sig = "haveLocalOffer"
           /\ At(u, "haveRemotePranswer", s.curLocal, s.curRemote, s.penLocal, d)
  <2>1. s.penLocal.type = "offer"
    BY <1>8, Pendings, Zenon
  <2>2. Follows(u)
    BY <1>0, <1>8, <2>1 DEF Follows, At
  <2>. QED BY <1>0, <1>1, <1>2, <1>3, <1>4, <1>6, <1>8, <2>2, Zenon DEF PeerOK, At, Holds
<1>9. CASE /\ d.type = "answer" /\ s.sig \in {"haveLocalOffer", "haveRemotePranswer"}
           /\ At(u, "stable", s.penLocal, d, None, None)
  <2>1. Says(s.penLocal, s, t)
    BY <1>9, Pendings, Zenon
  <2>2. s.penLocal # None
    BY <2>1, SaysSome, Zenon
  <2>3. Follows(u)
    BY <1>0, <1>9 DEF Follows, At
  <2>. QED BY <1>0, <1>1, <1>2, <1>3, <1>6, <1>9, <2>2, <2>3, Zenon DEF PeerOK, At, Holds
<1>. QED BY <1>7, <1>8, <1>9, Zenon DEF Remote
-----------------------------------------------------------------------------
(***************************************************************************)
(* Both peers.                                                             *)
(***************************************************************************)

\* The phases look at states and descriptions only.
LEMMA TalkStill ==
    ASSUME NEW s, NEW t, NEW v, NEW w, NEW x, NEW y,
           At(x, s.sig, s.curLocal, s.curRemote, s.penLocal, s.penRemote),
           At(y, t.sig, t.curLocal, t.curRemote, t.penLocal, t.penRemote),
           Talk(s, t, v, w)
    PROVE  Talk(x, y, v, w)
  BY Zenon DEF At, Talk, Idle, Offered, Received, Provisional, Answered, Behind, Glare, Due, Agree

\* A description queued behind what is due.
LEMMA DueAppend ==
    ASSUME NEW s, NEW w, NEW rest, NEW d, w \in Seq(Range(w)), Due(s, w, rest)
    PROVE  Due(s, Append(w, d), Append(rest, d))
<1>1. CASE s.sig \in {"haveLocalOffer", "haveRemotePranswer"} /\ w = rest
  BY <1>1, Zenon DEF Due
<1>2. CASE s.sig = "haveLocalOffer" /\ w # <<>> /\ Head(w).type = "pranswer" /\ Tail(w) = rest
  <2>1. Append(w, d) # <<>> /\ Head(Append(w, d)) = Head(w) /\
        Tail(Append(w, d)) = Append(Tail(w), d)
    BY <1>2, Appending, Zenon
  <2>. QED BY <1>2, <2>1, Zenon DEF Due
<1>. QED BY <1>1, <1>2, Zenon DEF Due

\* set_local_description takes an exchange to its next phase.
LEMMA TalkLocal ==
    ASSUME NEW s, NEW t, NEW v, NEW w, PeerOK(s, t), PeerOK(t, s), w \in Seq(Range(w)),
           NEW d, NEW u, Local(u, s, d), Exchange(s, t, v, w),
           d.type = "offer" => s.penLocal = None
    PROVE  Exchange(u, t, v, Append(w, d))
<1>1. w = <<>> => Append(w, d) = <<d>>
  BY Appending, Zenon
<1>2. s.sig = "haveLocalOffer" => s.penLocal # None
  <2>1. s.sig = "haveLocalOffer" => Says(s.penLocal, s, t)
    BY Pendings, Zenon
  <2>. QED BY <2>1, SaysSome, Zenon
<1>3. t.sig = "haveLocalOffer" => t.penLocal.type = "offer"
  BY Pendings, Zenon
<1>4. CASE /\ d.type = "offer" /\ s.sig \in {"stable", "haveLocalOffer"}
           /\ At(u, "haveLocalOffer", s.curLocal, s.curRemote, d, s.penRemote)
  <2>1. s.sig = "stable"
    BY <1>2, <1>4, Zenon
  <2>2. CASE Idle(s, t, v, w) \/ Idle(t, s, w, v)
    <3>1. Offered(u, t, v, Append(w, d))
      BY <1>1, <1>4, <2>2, Zenon DEF Idle, Offered, At, Agree
    <3>. QED BY <3>1, Zenon DEF Exchange, Talk
  <2>3. CASE Offered(t, s, w, v)
    <3>1. v = <<t.penLocal>> /\ Append(w, d) = <<d>> /\ t.sig = "haveLocalOffer" /\
          u.sig = "haveLocalOffer"
      BY <1>1, <1>4, <2>3, Zenon DEF Offered, At
    <3>2. \A i \in DOMAIN v : v[i].type = "offer"
      BY <1>3, <3>1
    <3>3. \A i \in DOMAIN Append(w, d) : Append(w, d)[i].type = "offer"
      <4>1. \A i \in DOMAIN <<d>> : <<d>>[i].type = "offer"
        BY <1>4
      <4>. QED BY <3>1, <4>1, Zenon
    <3>4. Glare(u, t, v, Append(w, d))
      BY <3>1, <3>2, <3>3, Zenon DEF Glare
    <3>. QED BY <3>4, Zenon DEF Exchange, Talk
  <2>4. CASE Answered(t, s, w, v)
    <3>1. Due(t, Append(w, d), Append(<<s.curLocal>>, d))
      BY <2>4, DueAppend, Zenon DEF Answered
    <3>2. Append(<<s.curLocal>>, d) = <<s.curLocal, d>>
      BY AppendSecond, Zenon
    <3>3. Due(t, Append(w, d), <<u.curLocal, u.penLocal>>)
      BY <1>4, <3>1, <3>2, Zenon DEF At
    <3>4. Behind(t, u, Append(w, d), v)
      BY <1>4, <2>4, <3>3, Zenon DEF Answered, Behind, At
    <3>. QED BY <3>4, Zenon DEF Exchange, Talk
  <2>5. \/ Idle(s, t, v, w) \/ Idle(t, s, w, v) \/ Offered(t, s, w, v) \/ Answered(t, s, w, v)
    BY <2>1 DEF Exchange, Talk, Idle, Offered, Received, Provisional, Answered, Behind, Glare, Due
  <2>. QED BY <2>2, <2>3, <2>4, <2>5, Zenon
<1>5. CASE /\ d.type = "pranswer" /\ s.sig = "haveRemoteOffer"
           /\ At(u, "haveLocalPranswer", s.curLocal, s.curRemote, d, s.penRemote)
  <2>1. Received(t, s, w, v)
    BY <1>5 DEF Exchange, Talk, Idle, Offered, Received, Provisional, Answered, Behind, Glare, Due
  <2>2. Append(w, d) = <<d>>
    BY <1>1, <2>1, Zenon DEF Received
  <2>3. <<d>> # <<>> /\ Head(<<d>>) = d /\ Tail(<<d>>) = <<>>
    OBVIOUS
  <2>4. Due(t, Append(w, d), <<>>)
    BY <1>5, <2>1, <2>2, <2>3, Zenon DEF Due, Received
  <2>5. Provisional(t, u, Append(w, d), v)
    BY <1>5, <2>1, <2>4, Zenon DEF Received, Provisional, At, Agree
  <2>. QED BY <2>5, Zenon DEF Exchange, Talk
<1>6. CASE /\ d.type = "answer" /\ s.sig \in {"haveRemoteOffer", "haveLocalPranswer"}
           /\ At(u, "stable", d, s.penRemote, None, None)
  <2>1. Received(t, s, w, v) \/ Provisional(t, s, w, v)
    BY <1>6 DEF Exchange, Talk, Idle, Offered, Received, Provisional, Answered, Behind, Glare, Due
  <2>2. Due(t, w, <<>>) /\ s.penRemote = t.penLocal /\ v = <<>>
    BY <2>1, Zenon DEF Received, Provisional, Due
  <2>3. Append(<<>>, d) = <<d>>
    OBVIOUS
  <2>4. Due(t, Append(w, d), <<d>>)
    BY <2>2, <2>3, DueAppend, Zenon
  <2>5. Answered(t, u, Append(w, d), v)
    BY <1>6, <2>2, <2>4, Zenon DEF Answered, At
  <2>. QED BY <2>5, Zenon DEF Exchange, Talk
<1>. QED BY <1>4, <1>5, <1>6, Zenon DEF Local

\* What a peer has accepted.
LEMMA Taken ==
    ASSUME NEW s, NEW d
    PROVE  /\ Accepted(s, d, "remote") =>
                \/ s.sig = "stable" /\ d.type = "offer"
                \/ s.sig = "haveLocalOffer" /\ d.type = "pranswer"
                \/ s.sig \in {"haveLocalOffer", "haveRemotePranswer"} /\ d.type = "answer"
           /\ s.sig = "stable" /\ d.type = "offer" => Accepted(s, d, "remote")
           /\ s.sig = "haveLocalOffer" /\ d.type = "pranswer" => Accepted(s, d, "remote")
           /\ s.sig \in {"haveLocalOffer", "haveRemotePranswer"} /\ d.type = "answer"
                => Accepted(s, d, "remote")
<1>1. Matches(s, d, "remote")
  BY DEF Matches
<1>2. ASSUME Accepted(s, d, "remote")
      PROVE  \/ s.sig = "stable" /\ d.type = "offer"
             \/ s.sig = "haveLocalOffer" /\ d.type = "pranswer"
             \/ s.sig \in {"haveLocalOffer", "haveRemotePranswer"} /\ d.type = "answer"
  <2>1. PICK x : <<s.sig, "remote", d.type, x>> \in Transitions
    BY <1>2, ChosenState, Zenon DEF Accepted
  <2>. QED BY <2>1 DEF Transitions
<1>3. ASSUME s.sig = "stable" /\ d.type = "offer" PROVE Accepted(s, d, "remote")
  <2>1. <<s.sig, "remote", d.type, "haveRemoteOffer">> \in Transitions
    BY <1>3 DEF Transitions
  <2>. QED BY <1>1, <2>1, HasNext, Zenon DEF Accepted
<1>4. ASSUME s.sig = "haveLocalOffer" /\ d.type = "pranswer" PROVE Accepted(s, d, "remote")
  <2>1. <<s.sig, "remote", d.type, "haveRemotePranswer">> \in Transitions
    BY <1>4 DEF Transitions
  <2>. QED BY <1>1, <2>1, HasNext, Zenon DEF Accepted
<1>5. ASSUME s.sig \in {"haveLocalOffer", "haveRemotePranswer"} /\ d.type = "answer"
      PROVE  Accepted(s, d, "remote")
  <2>1. <<s.sig, "remote", d.type, "stable">> \in Transitions
    BY <1>5 DEF Transitions
  <2>. QED BY <1>1, <2>1, HasNext, Zenon DEF Accepted
<1>. QED BY <1>2, <1>3, <1>4, <1>5, Zenon

\* What set_remote_description(d) makes of s.
Takes(u, s, d) == IF Accepted(s, d, "remote") THEN Remote(u, s, d) ELSE u = s

\* Taking what is due: a provisional answer, or the first of the rest.
LEMMA DueHead ==
    ASSUME NEW s, NEW v, NEW rest, v # <<>>, Due(s, v, rest), NEW u, Takes(u, s, Head(v))
    PROVE  \/ /\ Head(v).type = "pranswer" /\ Due(u, Tail(v), rest)
              /\ At(u, "haveRemotePranswer", s.curLocal, s.curRemote, s.penLocal, Head(v))
           \/ v = rest /\ s.sig \in {"haveLocalOffer", "haveRemotePranswer"}
<1>1. CASE s.sig = "haveLocalOffer" /\ v # <<>> /\ Head(v).type = "pranswer" /\ Tail(v) = rest
  <2>1. Remote(u, s, Head(v))
    BY <1>1, Taken, Zenon DEF Takes
  <2>2. At(u, "haveRemotePranswer", s.curLocal, s.curRemote, s.penLocal, Head(v))
    BY <1>1, <2>1 DEF Remote
  <2>. QED BY <1>1, <2>2, Zenon DEF Due, At
<1>. QED BY <1>1, Zenon DEF Due

\* set_remote_description takes an exchange to its next phase, or refuses an offer
\* for good.
LEMMA TalkRemote ==
    ASSUME NEW s, NEW t, NEW v, NEW w, PeerOK(s, t), PeerOK(t, s), v \in Seq(Range(v)), v # <<>>,
           NEW u, Takes(u, s, Head(v)), Exchange(s, t, v, w)
    PROVE  Exchange(u, t, Tail(v), w)
<1>. DEFINE d == Head(v)
<1>1. t.sig = "haveLocalOffer" => t.penLocal.type = "offer"
  BY Pendings, Zenon
<1>2. CASE Provisional(s, t, v, w)
  <2>1. Due(s, v, <<>>)
    BY <1>2, Zenon DEF Provisional
  <2>2. /\ Due(u, Tail(v), <<>>)
        /\ At(u, "haveRemotePranswer", s.curLocal, s.curRemote, s.penLocal, Head(v))
    BY <2>1, DueHead, Zenon
  <2>3. Provisional(u, t, Tail(v), w)
    BY <1>2, <2>2, Zenon DEF Provisional, At, Agree
  <2>. QED BY <2>3, Zenon DEF Exchange, Talk
<1>3. CASE Answered(s, t, v, w)
  <2>1. Due(s, v, <<t.curLocal>>)
    BY <1>3, Zenon DEF Answered
  <2>2. CASE /\ Due(u, Tail(v), <<t.curLocal>>)
             /\ At(u, "haveRemotePranswer", s.curLocal, s.curRemote, s.penLocal, Head(v))
    <3>1. Answered(u, t, Tail(v), w)
      BY <1>3, <2>2, Zenon DEF Answered, At
    <3>. QED BY <3>1, Zenon DEF Exchange, Talk
  <2>3. CASE v = <<t.curLocal>> /\ s.sig \in {"haveLocalOffer", "haveRemotePranswer"}
    <3>1. Head(v) = t.curLocal /\ Tail(v) = <<>>
      BY <2>3
    <3>2. Head(v).type = "answer"
      BY <1>3, <3>1, Zenon DEF Answered
    <3>3. Remote(u, s, Head(v))
      BY <2>3, <3>2, Taken, Zenon DEF Takes
    <3>4. At(u, "stable", s.penLocal, Head(v), None, None)
      BY <3>2, <3>3 DEF Remote
    <3>5. Idle(u, t, Tail(v), w)
      BY <1>3, <3>1, <3>4, Zenon DEF Answered, Idle, At, Agree
    <3>. QED BY <3>5, Zenon DEF Exchange, Talk
  <2>. QED BY <2>1, <2>2, <2>3, DueHead, Zenon
<1>4. CASE Behind(s, t, v, w)
  <2>1. Due(s, v, <<t.curLocal, t.penLocal>>)
    BY <1>4, Zenon DEF Behind
  <2>2. CASE /\ Due(u, Tail(v), <<t.curLocal, t.penLocal>>)
             /\ At(u, "haveRemotePranswer", s.curLocal, s.curRemote, s.penLocal, Head(v))
    <3>1. Behind(u, t, Tail(v), w)
      BY <1>4, <2>2, Zenon DEF Behind, At
    <3>. QED BY <3>1, Zenon DEF Exchange, Talk
  <2>3. CASE v = <<t.curLocal, t.penLocal>> /\ s.sig \in {"haveLocalOffer", "haveRemotePranswer"}
    <3>1. Head(v) = t.curLocal /\ Tail(v) = <<t.penLocal>>
      BY <2>3
    <3>2. Head(v).type = "answer"
      BY <1>4, <3>1, Zenon DEF Behind
    <3>3. Remote(u, s, Head(v))
      BY <2>3, <3>2, Taken, Zenon DEF Takes
    <3>4. At(u, "stable", s.penLocal, Head(v), None, None)
      BY <3>2, <3>3 DEF Remote
    <3>5. Offered(t, u, w, Tail(v))
      BY <1>4, <3>1, <3>4, Zenon DEF Behind, Offered, At, Agree
    <3>. QED BY <3>5, Zenon DEF Exchange, Talk
  <2>. QED BY <2>1, <2>2, <2>3, DueHead, Zenon
<1>5. CASE Glare(s, t, v, w) \/ Glare(t, s, w, v)
  <2>1. /\ s.sig = "haveLocalOffer" /\ t.sig = "haveLocalOffer"
        /\ \A i \in DOMAIN v : v[i].type = "offer"
        /\ \A i \in DOMAIN w : w[i].type = "offer"
    BY <1>5, Zenon DEF Glare
  <2>2. Head(v).type = "offer" /\ \A i \in DOMAIN Tail(v) : Tail(v)[i].type = "offer"
    <3>1. /\ \E j \in DOMAIN v : Head(v) = v[j]
          /\ \A i \in DOMAIN Tail(v) : \E j \in DOMAIN v : Tail(v)[i] = v[j]
      BY Taking, Zenon
    <3>2. Head(v).type = "offer"
      BY <2>1, <3>1, Zenon
    <3>3. \A i \in DOMAIN Tail(v) : Tail(v)[i].type = "offer"
      BY <2>1, <3>1, Zenon
    <3>. QED BY <3>2, <3>3, Zenon
  <2>3. ~Accepted(s, d, "remote")
    BY <2>1, <2>2, Taken
  <2>4. u = s
    BY <2>3, Zenon DEF Takes
  <2>5. Glare(u, t, Tail(v), w)
    BY <2>1, <2>2, <2>4, Zenon DEF Glare
  <2>. QED BY <2>5, Zenon DEF Exchange, Talk
<1>6. CASE Offered(t, s, w, v)
  <2>1. Head(v) = t.penLocal /\ Tail(v) = <<>> /\ s.sig = "stable"
    BY <1>6 DEF Offered
  <2>2. Head(v).type = "offer"
    BY <1>1, <1>6, <2>1, Zenon DEF Offered
  <2>3. Remote(u, s, Head(v))
    BY <2>1, <2>2, Taken, Zenon DEF Takes
  <2>4. At(u, "haveRemoteOffer", s.curLocal, s.curRemote, s.penLocal, Head(v))
    BY <2>2, <2>3 DEF Remote
  <2>5. Received(t, u, w, Tail(v))
    BY <1>6, <2>1, <2>4, Zenon DEF Offered, Received, At, Agree
  <2>. QED BY <2>5, Zenon DEF Exchange, Talk
<1>7. \/ Provisional(s, t, v, w) \/ Answered(s, t, v, w) \/ Behind(s, t, v, w)
      \/ Glare(s, t, v, w) \/ Glare(t, s, w, v) \/ Offered(t, s, w, v)
  BY Zenon DEF Exchange, Talk, Idle, Offered, Received, Provisional, Answered, Behind
<1>. QED BY <1>2, <1>3, <1>4, <1>5, <1>6, <1>7, Zenon

\* The roles look at current and pending descriptions and settings only.
LEMMA CastStill ==
    ASSUME NEW s, NEW t, NEW u, Same(u, s), Cast(s, t)
    PROVE  Cast(u, t)
  BY Zenon DEF Same, Kept, At, Cast, Placed, Chosen, AsAnswerer, AsOfferer, ConnectionRole

\* set_local_description leaves the roles alone.
LEMMA CastLocal ==
    ASSUME NEW s, NEW t, NEW v, NEW w, PeerOK(s, t), PeerOK(t, s), NEW d, NEW u, Local(u, s, d),
           Exchange(s, t, v, w), Cast(s, t)
    PROVE  Cast(u, t)
<1>1. /\ u.lite = s.lite /\ u.answering = s.answering /\ u.ice = s.ice /\ u.dtls = s.dtls
  BY Zenon DEF Local, Kept
<1>2. CASE u.curRemote = s.curRemote /\ u.penRemote = s.penRemote
  BY <1>1, <1>2, Zenon DEF Cast, Placed, Chosen, AsAnswerer, AsOfferer, ConnectionRole
<1>3. CASE /\ d.type = "answer" /\ s.sig \in {"haveRemoteOffer", "haveLocalPranswer"}
           /\ At(u, "stable", d, s.penRemote, None, None)
  <2>1. Received(t, s, w, v) \/ Provisional(t, s, w, v)
    BY <1>3 DEF Exchange, Talk, Idle, Offered, Received, Provisional, Answered, Behind, Glare, Due
  <2>2. Agree(t, s)
    BY <2>1, Zenon DEF Received, Provisional
  <2>3. s.curRemote = None <=> t.curRemote = None
    BY <2>2, Zenon DEF Agree, PeerOK
  <2>4. s.penRemote # None
    <3>1. Says(s.penRemote, t, s)
      BY <1>3, Pendings, Zenon
    <3>. QED BY <3>1, SaysSome, Zenon
  <2>5. u.curRemote = s.penRemote
    BY <1>3, Zenon DEF At
  <2>. QED BY <1>1, <2>3, <2>4, <2>5, Zenon DEF Cast, Placed, Chosen, AsAnswerer, AsOfferer,
           ConnectionRole
<1>. QED BY <1>2, <1>3, Zenon DEF Local, At

\* The first description a peer accepts gives it its roles.
LEMMA CastRemote ==
    ASSUME NEW s, NEW t, NEW v, NEW w, PeerOK(s, t), PeerOK(t, s), v \in Seq(Range(v)), v # <<>>,
           NEW u, Remote(u, s, Head(v)), Says(Head(v), t, s), Exchange(s, t, v, w),
           Head(v).type # "pranswer", s.sig # "haveRemotePranswer", Cast(s, t),
           Accepted(s, Head(v), "remote")
    PROVE  Cast(u, t)
<1>. DEFINE d == Head(v)
<1>1. u.lite = s.lite /\ u.answering = s.answering /\ d # None /\ d.lite = t.lite
  BY SaysSome, Zenon DEF Remote, Kept, Says
<1>2. CASE d.type = "offer"
  <2>1. s.sig = "stable" /\ At(u, "haveRemoteOffer", s.curLocal, s.curRemote, s.penLocal, d)
    BY <1>2 DEF Remote
  <2>2. s.penRemote = None /\ d.setup = "actpass"
    BY <1>2, <2>1, Pendings, Zenon DEF Says
  <2>3. Offered(t, s, w, v)
    <3>1. v # <<>> /\ s.sig = "stable"
      BY <2>1, Zenon
    <3>. QED BY <3>1 DEF Exchange, Talk, Idle, Offered, Received, Provisional, Answered,
             Behind, Glare, Due
  <2>4. s.curRemote = None <=> t.curRemote = None
    BY <2>3, Zenon DEF Offered, Agree, PeerOK
  <2>5. t.penRemote = None
    BY <2>3, Pendings, Zenon DEF Offered
  <2>6. CASE s.curRemote # None
    <3>1. u.ice = s.ice /\ u.dtls = s.dtls
      BY <2>6, Zenon DEF Remote
    <3>. QED BY <1>1, <2>1, <2>4, <2>6, <3>1, Zenon
             DEF At, Cast, Placed, Chosen, AsAnswerer, AsOfferer, ConnectionRole
  <2>7. CASE s.curRemote = None
    <3>1. s.ice = "none" /\ t.ice = "none"
      BY <2>2, <2>4, <2>5, <2>7, Zenon DEF Cast, Placed
    <3>2. u.ice = "none" \/ AsAnswerer(u, t)
      <4>1. CASE d.ufrag = 0
        BY <3>1, <4>1, Zenon DEF Remote
      <4>2. CASE d.ufrag # 0
        <5>1. u.ice = IceRole(s, d) /\ u.dtls = DtlsRole(s, d)
          BY <2>7, <4>2, Zenon DEF Remote
        <5>. HIDE DEF d
        <5>2. u.ice = IF t.lite /\ ~s.lite THEN "controlling" ELSE "controlled"
          BY <1>1, <1>2, <5>1 DEF IceRole
        <5>3. u.dtls = IF s.answering = "server" THEN "server" ELSE "client"
          BY <2>2, <5>1 DEF DtlsRole
        <5>. QED BY <1>1, <5>2, <5>3, Zenon DEF AsAnswerer
      <4>. QED BY <4>1, <4>2, Zenon
    <3>3. u.curRemote = None /\ u.penRemote = d
      BY <2>1, <2>7, Zenon DEF At
    <3>. QED BY <1>1, <2>4, <2>7, <3>1, <3>2, <3>3, Zenon DEF Cast, Placed
  <2>. QED BY <2>6, <2>7, Zenon
<1>3. CASE d.type = "answer"
  <2>1. s.sig = "haveLocalOffer" /\ At(u, "stable", s.penLocal, d, None, None)
    BY <1>3 DEF Remote
  <2>2. s.penRemote = None /\ d.setup = ConnectionRole(t, s) /\ s.penLocal # None
    <3>1. Says(s.penLocal, s, t) /\ s.penRemote = None
      BY <2>1, Pendings, Zenon
    <3>2. d.setup = ConnectionRole(t, s)
      BY <1>3 DEF Says
    <3>. QED BY <3>1, <3>2, SaysSome, Zenon
  <2>3. Answered(s, t, v, w) \/ Behind(s, t, v, w)
    <3>1. v # <<>> /\ Head(v).type = "answer" /\ s.sig = "haveLocalOffer"
      BY <1>3, <2>1, Zenon
    <3>2. ~Glare(s, t, v, w) /\ ~Glare(t, s, w, v)
      BY <3>1, Taking DEF Glare
    <3>. QED BY <3>1, <3>2 DEF Exchange, Talk, Idle, Offered, Received, Provisional, Answered,
             Behind, Due
  <2>4. t.curRemote # None
    BY <2>2, <2>3, Zenon DEF Answered, Behind
  <2>5. CASE s.curRemote # None
    <3>1. u.ice = s.ice /\ u.dtls = s.dtls /\ u.curRemote # None
      BY <1>1, <2>1, <2>5, Zenon DEF Remote, At
    <3>. QED BY <1>1, <2>4, <2>5, <3>1, Zenon
             DEF At, Cast, Placed, Chosen, AsAnswerer, AsOfferer, ConnectionRole
  <2>6. CASE s.curRemote = None
    <3>1. s.ice = "none" /\ (t.ice = "none" \/ AsAnswerer(t, s))
      BY <2>2, <2>6, Zenon DEF Cast, Placed
    <3>2. u.ice = "none" \/ AsOfferer(u, t)
      <4>1. CASE d.ufrag = 0
        BY <3>1, <4>1, Zenon DEF Remote
      <4>2. CASE d.ufrag # 0
        <5>1. u.ice = IceRole(s, d) /\ u.dtls = DtlsRole(s, d)
          BY <2>6, <4>2, Zenon DEF Remote
        <5>. HIDE DEF d
        <5>2. u.ice = IF t.lite = s.lite \/ (t.lite /\ ~s.lite) THEN "controlling" ELSE "controlled"
          BY <1>1, <1>3, <5>1 DEF IceRole
        <5>3. ConnectionRole(t, s) = "active" \/ ConnectionRole(t, s) = "passive"
          BY DEF ConnectionRole
        <5>4. u.dtls = IF ConnectionRole(t, s) = "active" THEN "server" ELSE "client"
          BY <2>2, <5>1, <5>3 DEF DtlsRole
        <5>5. ConnectionRole(t, u) = ConnectionRole(t, s)
          BY <1>1, Zenon DEF ConnectionRole
        <5>. QED BY <1>1, <5>2, <5>4, <5>5, Zenon DEF AsOfferer
      <4>. QED BY <4>1, <4>2, Zenon
    <3>3. u.curRemote # None
      BY <1>1, <2>1, Zenon DEF At
    <3>4. t.ice = "none" \/ AsAnswerer(t, u)
      BY <1>1, <3>1, Zenon DEF AsAnswerer
    <3>. QED BY <2>4, <3>2, <3>3, <3>4, Zenon DEF Cast, Placed, Chosen
  <2>. QED BY <2>5, <2>6, Zenon
<1>. QED BY <1>2, <1>3, Zenon DEF Remote
-----------------------------------------------------------------------------
(***************************************************************************)
(* The steps of one end, seen from both.                                   *)
(***************************************************************************)

\* The two ends may change places.
LEMMA JointTurned ==
    ASSUME NEW s, NEW t, NEW v, NEW w, NEW g, NEW h, NEW x, NEW y, Joint(s, t, v, w, g, h, x, y)
    PROVE  Joint(t, s, w, v, h, g, x, y)
  BY Zenon DEF Joint, Exchange, Cast

\* A step that applies no description.
LEMMA JointSame ==
    ASSUME NEW s, NEW t, NEW v, NEW w, NEW g, NEW h, NEW x, NEW y, Joint(s, t, v, w, g, h, x, y),
           NEW u, Same(u, s), NEW k, \A d \in k : Drafted(d, s, t)
    PROVE  Joint(u, t, v, w, k, h, x, y)
<1>1. EndOK(s, t, v, g) /\ EndOK(t, s, w, h) /\ PeerOK(s, t)
  BY Zenon DEF Joint, EndOK
<1>2. /\ Kept(u, s) /\ u.lite = s.lite /\ u.answering = s.answering /\ DOMAIN u = Fields
      /\ At(u, s.sig, s.curLocal, s.curRemote, s.penLocal, s.penRemote)
  BY Zenon DEF Same, Kept
<1>3. EndOK(t, u, w, h)
  BY <1>1, <1>2, OtherEnd, Zenon
<1>4. PeerOK(u, t)
  <2>1. /\ Holds(s.curLocal, u, t) /\ Holds(s.penLocal, u, t)
        /\ Holds(s.curRemote, t, u) /\ Holds(s.penRemote, t, u)
    BY <1>1, <1>2, HoldsStill, Zenon DEF PeerOK
  <2>2. Fresh(u)
    <3>1. s.sig = "stable" => s.penRemote = None
      BY <1>1, Pendings, Zenon
    <3>2. Fresh(s)
      BY <1>1, Zenon DEF PeerOK
    <3>. QED BY <1>2, <3>1, <3>2, Zenon DEF Same, Fresh, At, RemoteDescription
  <2>3. Follows(u)
    BY <1>1, <1>2, Zenon DEF PeerOK, Follows, At
  <2>. QED BY <1>1, <1>2, <2>1, <2>2, <2>3, Zenon DEF PeerOK, At
<1>5. EndOK(u, t, v, k)
  <2>1. \A i \in DOMAIN v : Says(v[i], t, u)
    BY <1>1, <1>2, SaysStill, Zenon DEF EndOK
  <2>2. \A d \in k : Drafted(d, u, t)
    BY <1>2, SaysStill, Zenon DEF Drafted
  <2>. QED BY <1>1, <1>4, <2>1, <2>2, Zenon DEF EndOK
<1>6. Exchange(s, t, v, w) => Exchange(u, t, v, w)
  <2>1. At(t, t.sig, t.curLocal, t.curRemote, t.penLocal, t.penRemote)
    BY Zenon DEF At
  <2>. QED BY <1>2, <2>1, TalkStill, Zenon DEF Exchange
<1>7. NoPranswer(s, v) => NoPranswer(u, v)
  BY <1>2, Zenon DEF NoPranswer, At
<1>8. Cast(s, t) => Cast(u, t)
  BY CastStill, Zenon
<1>. QED BY <1>3, <1>5, <1>6, <1>7, <1>8, Zenon DEF Joint

\* set_local_description, and the description on its way.
LEMMA JointLocal ==
    ASSUME NEW s, NEW t, NEW v, NEW w, NEW g, NEW h, NEW x, NEW y, Joint(s, t, v, w, g, h, x, y),
           NEW u, NEW d, Local(u, s, d), Says(d, s, t), NEW k, \A e \in k : e \in g,
           d.type = "pranswer" => y, NEW z, x \/ (d.type = "offer" /\ s.penLocal # None) => z
    PROVE  Joint(u, t, v, Append(w, d), k, h, z, y)
<1>1. EndOK(s, t, v, g) /\ EndOK(t, s, w, h) /\ PeerOK(s, t) /\ PeerOK(t, s) /\ w \in Seq(Range(w))
  BY Zenon DEF Joint, EndOK
<1>2. Kept(u, s) /\ u.lite = s.lite /\ u.answering = s.answering /\ DOMAIN u = Fields
  BY Zenon DEF Local, Kept
<1>3. /\ Append(w, d) \in Seq(Range(Append(w, d)))
      /\ \A i \in DOMAIN Append(w, d) :
            Append(w, d)[i] = d \/ \E j \in DOMAIN w : Append(w, d)[i] = w[j]
  BY <1>1, Appending
<1>4. EndOK(t, u, Append(w, d), h)
  <2>1. EndOK(t, u, w, h)
    BY <1>1, <1>2, OtherEnd, Zenon
  <2>2. Says(d, u, t)
    BY <1>2, SaysStill, Zenon
  <2>3. \A i \in DOMAIN w : Says(w[i], u, t)
    BY <2>1, Zenon DEF EndOK
  <2>4. \A i \in DOMAIN Append(w, d) : Says(Append(w, d)[i], u, t)
    BY <1>3, <2>2, <2>3, Zenon
  <2>. QED BY <1>3, <2>1, <2>4, Zenon DEF EndOK
<1>5. EndOK(u, t, v, k)
  <2>1. PeerOK(u, t)
    BY <1>1, LocalPeer, Zenon
  <2>2. \A i \in DOMAIN v : Says(v[i], t, u)
    BY <1>1, <1>2, SaysStill, Zenon DEF EndOK
  <2>3. \A e \in k : Drafted(e, u, t)
    BY <1>1, <1>2, SaysStill, Zenon DEF EndOK, Drafted
  <2>. QED BY <1>1, <2>1, <2>2, <2>3, Zenon DEF EndOK
<1>6. z \/ Exchange(u, t, v, Append(w, d))
  <2>1. ASSUME ~z PROVE Exchange(u, t, v, Append(w, d))
    <3>1. Exchange(s, t, v, w) /\ (d.type = "offer" => s.penLocal = None)
      BY <2>1, Zenon DEF Joint
    <3>. QED BY <1>1, <3>1, TalkLocal, Zenon
  <2>. QED BY <2>1, Zenon
<1>7. y \/ (NoPranswer(u, v) /\ NoPranswer(t, Append(w, d)))
  <2>1. ASSUME ~y PROVE NoPranswer(u, v) /\ NoPranswer(t, Append(w, d))
    <3>1. NoPranswer(s, v) /\ NoPranswer(t, w) /\ d.type # "pranswer"
      BY <2>1, Zenon DEF Joint
    <3>2. u.sig = "haveLocalOffer" \/ u.sig = "stable"
      BY <3>1, Zenon DEF Local, At
    <3>3. u.sig \notin {"haveLocalPranswer", "haveRemotePranswer"}
      BY <3>2
    <3>4. \A i \in DOMAIN Append(w, d) : Append(w, d)[i].type # "pranswer"
      BY <1>3, <3>1, Zenon DEF NoPranswer
    <3>. QED BY <3>1, <3>3, <3>4, Zenon DEF NoPranswer
  <2>. QED BY <2>1, Zenon
<1>8. z \/ y \/ Cast(u, t)
  <2>1. ASSUME ~z, ~y PROVE Cast(u, t)
    <3>1. Exchange(s, t, v, w) /\ Cast(s, t)
      BY <2>1, Zenon DEF Joint
    <3>. QED BY <1>1, <3>1, CastLocal, Zenon
  <2>. QED BY <2>1, Zenon
<1>. QED BY <1>4, <1>5, <1>6, <1>7, <1>8, Zenon DEF Joint

\* set_remote_description, with what has arrived first.
LEMMA JointRemote ==
    ASSUME NEW s, NEW t, NEW v, NEW w, NEW g, NEW h, NEW x, NEW y, Joint(s, t, v, w, g, h, x, y),
           v # <<>>, NEW u, Takes(u, s, Head(v))
    PROVE  Joint(u, t, Tail(v), w, g, h, x, y)
<1>1. EndOK(s, t, v, g) /\ EndOK(t, s, w, h) /\ PeerOK(s, t) /\ PeerOK(t, s) /\ v \in Seq(Range(v))
  BY Zenon DEF Joint, EndOK
<1>2. Kept(u, s) /\ u.lite = s.lite /\ u.answering = s.answering /\ DOMAIN u = Fields
  BY <1>1, Zenon DEF Takes, Remote, Kept, PeerOK
<1>3. /\ Tail(v) \in Seq(Range(Tail(v)))
      /\ \E j \in DOMAIN v : Head(v) = v[j]
      /\ \A i \in DOMAIN Tail(v) : \E j \in DOMAIN v : Tail(v)[i] = v[j]
  BY <1>1, Taking, Zenon
<1>4. Says(Head(v), t, s) /\ \A i \in DOMAIN Tail(v) : Says(Tail(v)[i], t, s)
  BY <1>1, <1>3, Zenon DEF EndOK
<1>5. EndOK(t, u, w, h)
  BY <1>1, <1>2, OtherEnd, Zenon
<1>6. EndOK(u, t, Tail(v), g)
  <2>1. PeerOK(u, t)
    BY <1>1, <1>4, RemotePeer, Zenon DEF Takes
  <2>2. \A i \in DOMAIN Tail(v) : Says(Tail(v)[i], t, u)
    BY <1>2, <1>4, SaysStill, Zenon
  <2>3. \A e \in g : Drafted(e, u, t)
    BY <1>1, <1>2, SaysStill, Zenon DEF EndOK, Drafted
  <2>. QED BY <1>3, <2>1, <2>2, <2>3, Zenon DEF EndOK
<1>7. Exchange(s, t, v, w) => Exchange(u, t, Tail(v), w)
  BY <1>1, TalkRemote, Zenon
<1>8. ASSUME NoPranswer(s, v)
      PROVE  Head(v).type # "pranswer" /\ s.sig # "haveRemotePranswer" /\ NoPranswer(u, Tail(v))
  <2>1. /\ Head(v).type # "pranswer" /\ \A i \in DOMAIN Tail(v) : Tail(v)[i].type # "pranswer"
        /\ s.sig # "haveRemotePranswer"
    <3>1. s.sig # "haveRemotePranswer"
      BY <1>8 DEF NoPranswer
    <3>. QED BY <1>3, <1>8, <3>1, Zenon DEF NoPranswer
  <2>2. u.sig \notin {"haveLocalPranswer", "haveRemotePranswer"}
    <3>1. u.sig = s.sig \/ u.sig = "haveRemoteOffer" \/ u.sig = "stable"
      BY <2>1, Zenon DEF Takes, Remote, At
    <3>. QED BY <1>8, <3>1 DEF NoPranswer
  <2>. QED BY <2>1, <2>2, Zenon DEF NoPranswer
<1>9. x \/ y \/ Cast(u, t)
  <2>1. ASSUME ~x, ~y PROVE Cast(u, t)
    <3>1. Exchange(s, t, v, w) /\ Cast(s, t) /\ NoPranswer(s, v)
      BY <2>1, Zenon DEF Joint
    <3>2. CASE Accepted(s, Head(v), "remote")
      <4>1. Remote(u, s, Head(v))
        BY <3>2, Zenon DEF Takes
      <4>. QED BY <1>1, <1>4, <1>8, <3>1, <3>2, <4>1, CastRemote, Zenon
    <3>3. CASE ~Accepted(s, Head(v), "remote")
      BY <3>1, <3>3, Zenon DEF Takes
    <3>. QED BY <3>2, <3>3, Zenon
  <2>. QED BY <2>1, Zenon
<1>. QED BY <1>5, <1>6, <1>7, <1>8, <1>9, Zenon DEF Joint

\* Agent::restart forgets the credentials of the other side.
LEMMA Restarted ==
    ASSUME NEW s, DOMAIN s = Fields
    PROVE  Same(Restart(s), s)
<1>. DEFINE a == s.ufrag + 1
<1>1. Restart(s) = [s EXCEPT !.ufrag = a, !.remote = 0]
  BY DEF Restart
<1>. HIDE DEF a
<1>. QED BY <1>1 DEF Fields, Same, Kept, At

\* The ICE agent is started with the credentials of the current description.
LEMMA Started ==
    ASSUME NEW s, DOMAIN s = Fields, s.sig = "stable", s.curRemote # None, NEW a,
           a = s.curRemote.ufrag
    PROVE  Same([s EXCEPT !.remote = a], s)
<1>. DEFINE u == [s EXCEPT !.remote = a]
<1>1. /\ DOMAIN u = Fields /\ u.lite = s.lite /\ u.answering = s.answering /\ u.ice = s.ice
      /\ u.dtls = s.dtls /\ u.remote = a
      /\ At(u, s.sig, s.curLocal, s.curRemote, s.penLocal, s.penRemote)
  BY DEF Fields, At
<1>. HIDE DEF u
<1>2. Same(u, s)
  BY <1>1, Zenon DEF Same, Kept
<1>. QED BY <1>2, Zenon DEF u

\* The ends before anything has happened.
LEMMA JointStart ==
    ASSUME NEW s, NEW t, NEW x, NEW y,
           \A z \in {s, t} : /\ DOMAIN z = Fields /\ z.lite \in BOOLEAN
                             /\ z.answering \in {"unspecified", "client", "server"}
                             /\ At(z, "stable", None, None, None, None)
                             /\ z.remote = 0 /\ z.ice = "none"
    PROVE  Joint(s, t, <<>>, <<>>, {}, {}, x, y)
<1>1. None.type = "none"
  BY DEF None
<1>2. ASSUME NEW z \in {s, t}, NEW o \in {s, t} PROVE EndOK(z, o, <<>>, {}) /\ NoPranswer(z, <<>>)
  <2>1. Follows(z)
    BY <1>1 DEF Follows, At
  <2>2. Fresh(z)
    BY Zenon DEF Fresh, At, RemoteDescription
  <2>3. PeerOK(z, o)
    BY <2>1, <2>2, Zenon DEF PeerOK, At, Holds
  <2>4. <<>> \in Seq(Range(<<>>)) /\ DOMAIN <<>> = {}
    OBVIOUS
  <2>5. z.sig \notin {"haveLocalPranswer", "haveRemotePranswer"}
    BY DEF At
  <2>. QED BY <2>3, <2>4, <2>5, Zenon DEF EndOK, NoPranswer
<1>3. Idle(s, t, <<>>, <<>>)
  BY Zenon DEF Idle, At, Agree
<1>4. Cast(s, t)
  BY Zenon DEF Cast, Placed, At
<1>. QED BY <1>2, <1>3, <1>4, Zenon DEF Joint, Exchange, Talk

\* Both ends at rest are in the idle phase.
LEMMA ExchangeRest ==
    ASSUME NEW s, NEW t, NEW v, NEW w, PeerOK(s, t), PeerOK(t, s), Exchange(s, t, v, w),
           s.sig = "stable", t.sig = "stable", v = <<>>, w = <<>>,
           s.curLocal # None, t.curLocal # None
    PROVE  Agree(s, t) /\ s.curRemote # None /\ t.curRemote # None
<1>1. s.curRemote # None /\ t.curRemote # None
  BY Zenon DEF PeerOK
<1>2. Idle(s, t, v, w) \/ Idle(t, s, w, v)
  BY DEF Exchange, Talk, Idle, Offered, Received, Provisional, Answered, Behind, Glare, Due
<1>3. Agree(s, t)
  BY <1>2, Zenon DEF Idle, Agree
<1>. QED BY <1>1, <1>3, Zenon

\* Two clients: what a full peer and a lite one become when the full one answers.
BothClients(x, y) ==
    /\ x.answering = "unspecified" /\ ~x.lite /\ y.lite
    /\ x.dtls = "client" /\ y.dtls = "client"

\* Roles that differ, but for these.
Opposed(s, t) ==
    /\ s.ice # t.ice
    /\ s.dtls # t.dtls \/ \E x, y \in {s, t} : BothClients(x, y)

\* The roles of two ends that have both settled are such.
LEMMA CastOpposed ==
    ASSUME NEW s, NEW t, PeerOK(s, t), PeerOK(t, s), Cast(s, t),
           s.curRemote # None, t.curRemote # None, s.ice # "none", t.ice # "none"
    PROVE  Opposed(s, t)
<1>1. ASSUME NEW o, NEW a, PeerOK(o, a), PeerOK(a, o), Chosen(o, a), o.ice # "none", a.ice # "none"
      PROVE  /\ o.ice # a.ice
             /\ o.dtls # a.dtls \/ BothClients(a, o)
  <2>1. AsOfferer(o, a) /\ AsAnswerer(a, o)
    BY <1>1, Zenon DEF Chosen
  <2>2. o.lite \in BOOLEAN /\ a.lite \in BOOLEAN /\
        a.answering \in {"unspecified", "client", "server"}
    BY <1>1, Zenon DEF PeerOK
  <2>3. o.ice # a.ice
    BY <2>1, <2>2 DEF AsOfferer, AsAnswerer
  <2>4. o.dtls # a.dtls \/ BothClients(a, o)
    BY <2>1, <2>2 DEF AsOfferer, AsAnswerer, ConnectionRole, BothClients
  <2>. QED BY <2>3, <2>4, Zenon
<1>2. Chosen(s, t) \/ Chosen(t, s)
  BY Zenon DEF Cast
<1>. QED BY <1>1, <1>2, Zenon DEF Opposed
=============================================================================
