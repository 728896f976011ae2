---------------------------- MODULE DataChannels ----------------------------
(***************************************************************************)
(* Data channels over one SCTP association: RTCSctpTransport (the handler  *)
(* in rtc/src/handler/sctp.rs and the channel table), the DataChannel of   *)
(* rtc-datachannel and the establishment protocol (DCEP: OPEN and ACK).    *)
(*                                                                         *)
(*   dcs    data_channels: the RTCDataChannels by label                    *)
(*   chan   the DataChannels that are open, by stream identifier           *)
(*   assoc  the association, as far as the handler sees it: whether there  *)
(*          is one, the unread messages of each stream and the Readable    *)
(*          events that have not been polled                               *)
(*   routs  the messages the handler has for the layer above               *)
(*                                                                         *)
(* The layer that joins the handler and the DataChannels is not in the     *)
(* source yet; OpenChannel, Pump, Deliver and CloseChannel stand for it.   *)
(* The association below delivers the messages of a stream as SctpStreams  *)
(* shows: ordered ones in order, unordered ones in any order, a reset of a *)
(* stream after everything sent before it, and those of a partially        *)
(* reliable channel unless it abandons them.                               *)
(***************************************************************************)
EXTENDS Integers, Sequences, FiniteSets, SequencesExt

CONSTANTS
    Ends,            \* the two ends
    MaxChannels,     \* max_channels
    MaxMessageSize,  \* max_message_size
    Setups           \* roles, what may be created and how often: see MCDataChannels

VARIABLES dcs, chan, assoc, net, routs, setup, wrote, got, spilt, refused, acked, closed

\* The last six record what happened: the messages written and read on each
\* stream, the messages failing calls of handle_read had read and the
\* streams whose events the last one left in the queue, the messages no
\* channel was there for, the streams whose OPEN was acknowledged and those
\* closed.
dcHistory == <<wrote, got, spilt, refused, acked, closed>>

dcVars == <<dcs, chan, assoc, net, routs, setup, dcHistory>>

Peer(p) == CHOOSE q \in Ends : q # p

StreamIds == 0..MaxChannels

Put(f, k, v) == [x \in DOMAIN f \cup {k} |-> IF x = k THEN v ELSE f[x]]

Drop(f, k) == [x \in DOMAIN f \ {k} |-> f[x]]

DcInit ==
    /\ setup \in Setups
    /\ dcs = [p \in Ends |-> <<>>]
    /\ chan = [p \in Ends |-> <<>>]
    /\ assoc = [p \in Ends |-> [up |-> TRUE, streams |-> <<>>, events |-> <<>>]]
    /\ net = [p \in Ends |-> <<>>]
    /\ routs = [p \in Ends |-> <<>>]
    /\ wrote = [p \in Ends |-> [id \in StreamIds |-> <<>>]]
    /\ got = [p \in Ends |-> [id \in StreamIds |-> <<>>]]
    /\ spilt = [p \in Ends |-> [lost |-> {}, behind |-> {}]]
    /\ refused = [p \in Ends |-> {}]
    /\ acked = [p \in Ends |-> {}]
    /\ closed = [p \in Ends |-> {}]
-----------------------------------------------------------------------------
(* DataChannel.                                                            *)

\* get_reliability_params: <<unordered, reliability type>>.
ReliabilityParamsFault(type) ==
    CASE type \in {"reliable", "reliableUnordered"} -> <<TRUE, "reliable">>
      [] type \in {"rexmit", "rexmitUnordered"} -> <<TRUE, "rexmit">>
      [] type \in {"timed", "timedUnordered"} -> <<TRUE, "timed">>

ReliabilityParams(type) ==
    CASE type = "reliable" -> <<FALSE, "reliable">>
      [] type = "reliableUnordered" -> <<TRUE, "reliable">>
      [] type = "rexmit" -> <<FALSE, "rexmit">>
      [] type = "rexmitUnordered" -> <<TRUE, "rexmit">>
      [] type = "timed" -> <<FALSE, "timed">>
      [] type = "timedUnordered" -> <<TRUE, "timed">>

Message(c, ppi, body) ==
    [params |-> ReliabilityParams(c.type), ppi |-> ppi, body |-> body]

Dial(config) ==
    [type |-> config.type, label |-> config.label,
     out |-> IF config.negotiated THEN <<>>
             ELSE <<Message(config, "dcep", [dcep |-> "open", type |-> config.type,
                                             label |-> config.label, size |-> 1])>>]

Acknowledge(c) ==
    [c EXCEPT !.out = Append(@, Message(c, "dcep", [dcep |-> "ack", size |-> 1]))]

Accept(open) == Acknowledge([type |-> open.type, label |-> open.label, out |-> <<>>])

\* write_data_channel: an empty message is a zero byte with a type of its own.
WriteDataChannel(c, n, text, size) ==
    LET ppi == CASE text /\ size # 0 -> "string"
                 [] text /\ size = 0 -> "stringEmpty"
                 [] ~text /\ size # 0 -> "binary"
                 [] OTHER -> "binaryEmpty"
    IN [c EXCEPT !.out = Append(@, Message(c, ppi, [n |-> n, size |-> IF size = 0 THEN 1 ELSE size]))]
-----------------------------------------------------------------------------
(* RTCSctpTransport.                                                       *)

ToDataMessageType(ppi) ==
    CASE ppi = "dcep" -> "control"
      [] ppi \in {"string", "stringEmpty"} -> "text"
      [] ppi \in {"binary", "binaryEmpty"} -> "binary"

ToPpid(type, length) ==
    CASE type = "text" -> IF length > 0 THEN "string" ELSE "stringEmpty"
      [] type = "binary" -> IF length > 0 THEN "binary" ELSE "binaryEmpty"
      [] OTHER -> "dcep"

\* generate_and_set_data_channel_id: the first even (client) or odd (server)
\* identifier that no channel of the table has; 0 is also what a channel has
\* before it is opened.
FreeIdsFault(p) ==
    {id \in 0..(MaxChannels - 2) : ~\E l \in DOMAIN dcs[p] : dcs[p][l].id = id}

FreeIds(p) ==
    {id \in 0..(MaxChannels - 2) :
        /\ id % 2 = IF setup.role[p] = "client" THEN 0 ELSE 1
        /\ ~\E l \in DOMAIN dcs[p] : dcs[p][l].id = id}

CreateDataChannel(p, label, type, negotiated) ==
    /\ label \notin DOMAIN dcs[p]
    /\ dcs' = [dcs EXCEPT ![p] = Put(@, label,
                    [type |-> type, label |-> label, open |-> FALSE,
                     negotiated |-> negotiated # {},
                     id |-> IF negotiated = {} THEN 0 ELSE CHOOSE id \in negotiated : TRUE])]
    /\ UNCHANGED <<chan, assoc, net, routs, setup, dcHistory>>

\* External: the channel is given its identifier and its stream.
OpenChannel(p, label) ==
    LET dc == dcs[p][label]
        id == IF dc.negotiated THEN dc.id ELSE Min(FreeIds(p))
    IN /\ assoc[p].up
       /\ ~dc.open
       /\ dc.negotiated \/ FreeIds(p) # {}
       /\ id \notin DOMAIN chan[p]
       /\ dcs' = [dcs EXCEPT ![p][label].open = TRUE, ![p][label].id = id]
       /\ chan' = [chan EXCEPT ![p] = Put(@, id, Dial(dc))]
       /\ assoc' = IF id \in DOMAIN assoc[p].streams THEN assoc
                   ELSE [assoc EXCEPT ![p].streams = Put(@, id, <<>>)]
       /\ UNCHANGED <<net, routs, setup, dcHistory>>

Write(p, id, text, size) ==
    /\ id \in DOMAIN chan[p]
    /\ Len(wrote[p][id]) < setup.writes[p]
    /\ chan' = [chan EXCEPT ![p][id] =
                    WriteDataChannel(@, Len(wrote[p][id]) + 1, text, size)]
    /\ wrote' = [wrote EXCEPT ![p][id] =
                    Append(@, [text |-> text, size |-> size, known |-> id \in DOMAIN chan[Peer(p)]])]
    /\ UNCHANGED <<dcs, assoc, net, routs, setup, got, spilt, refused, acked, closed>>

\* handle_write: the message on its way, or an error and nothing sent.  DCEP
\* messages are always sent in order.
HandleWrite(p, id, m) ==
    LET ppi == ToPpid(ToDataMessageType(m.ppi), m.body.size)
        item == [id |-> id, ppi |-> ppi, body |-> m.body, rely |-> m.params[2],
                 unordered |-> ppi # "dcep" /\ m.params[1]]
    IN IF m.body.size > MaxMessageSize \/ ~assoc[p].up \/ id \notin DOMAIN assoc[p].streams
       THEN net
       ELSE [net EXCEPT ![Peer(p)] = Append(@, item)]

\* External: what a DataChannel has to send is given to the handler.
Pump(p, id) ==
    /\ id \in DOMAIN chan[p] /\ chan[p][id].out # <<>>
    /\ net' = HandleWrite(p, id, Head(chan[p][id].out))
    /\ chan' = [chan EXCEPT ![p][id].out = Tail(@)]
    /\ UNCHANGED <<dcs, assoc, routs, setup, dcHistory>>

\* check_partial_reliability_status: a message that was sent often enough or
\* has waited for long enough is given up, and FORWARD-TSN takes the other
\* end past it.  DCEP messages never are.
Abandon(p, i) ==
    LET q == Peer(p)
        item == net[q][i]
    IN /\ assoc[p].up
       /\ item.ppi \notin {"dcep", "reset"}
       /\ item.id \in DOMAIN assoc[p].streams
       /\ item.rely \in {"rexmit", "timed"}
       /\ net' = [net EXCEPT ![q] = RemoveAt(@, i)]
       /\ UNCHANGED <<dcs, chan, assoc, routs, setup, dcHistory>>

\* Whether an item under way may be read next: a message of an ordered
\* channel after those before it, a reset after everything.
MayArrive(q, i) ==
    LET Before(j) == j < i /\ q[j].id = q[i].id
    IN CASE q[i].ppi = "reset" -> i = 1
         [] q[i].unordered -> ~\E j \in DOMAIN q : Before(j) /\ q[j].ppi = "reset"
         [] OTHER -> ~\E j \in DOMAIN q : Before(j) /\ ~q[j].unordered

Arrive(a, item) ==
    LET unread == IF item.id \in DOMAIN a.streams THEN a.streams[item.id] ELSE <<>>
    IN IF item.ppi = "reset" THEN [a EXCEPT !.streams = Drop(@, item.id)]
       ELSE [a EXCEPT !.streams = Put(@, item.id, Append(unread, item)),
                      !.events = Append(@, item.id)]

PollEventsOnce(a) ==
    LET id == Head(a.events)
    IN CASE a.events = <<>> -> [a |-> a, read |-> <<>>, failed |-> FALSE]
         [] a.events # <<>> /\ id \notin DOMAIN a.streams ->
                [a |-> [a EXCEPT !.events = Tail(@)], read |-> <<>>, failed |-> TRUE]
         [] OTHER -> [a |-> [a EXCEPT !.streams[id] = <<>>, !.events = Tail(@)],
                      read |-> a.streams[id], failed |-> FALSE]

\* The loop over poll(): what has been read so far is handed on only if the
\* loop comes to its end.
PollEvents(a) ==
    LET Poll(r, id) ==
            CASE r.failed -> r
              [] ~r.failed /\ id \notin DOMAIN r.a.streams ->
                    [r EXCEPT !.failed = TRUE, !.a.events = Tail(@)]
              [] OTHER -> [r EXCEPT !.read = @ \o r.a.streams[id],
                                    !.a.streams[id] = <<>>, !.a.events = Tail(@)]
    IN FoldLeft(Poll, [a |-> a, read |-> <<>>, failed |-> FALSE], a.events)

\* handle_read with a datagram that completes the items of picks, in order
\* (none: it held nothing but acknowledgements).
RECURSIVE Picks(_, _)
Picks(q, k) ==
    {<<>>} \cup IF k = 0 THEN {} ELSE
        UNION {{<<i>> \o s : s \in Picks(RemoveAt(q, i), k - 1)} :
                    i \in {j \in DOMAIN q : MayArrive(q, j)}}

HandleRead(p, picks) ==
    LET Take(r, i) == [a |-> Arrive(r.a, r.q[i]), q |-> RemoveAt(r.q, i)]
        taken == FoldLeft(Take, [a |-> assoc[p], q |-> net[p]], picks)
        r == PollEvents(taken.a)
    IN /\ assoc[p].up
       /\ picks # <<>> \/ assoc[p].events # <<>>
       /\ assoc' = [assoc EXCEPT ![p] = r.a]
       /\ net' = [net EXCEPT ![p] = taken.q]
       /\ routs' = [routs EXCEPT ![p] = IF r.failed THEN @ ELSE @ \o r.read]
       /\ spilt' = [spilt EXCEPT ![p] =
                        IF r.failed THEN [lost |-> @.lost \cup ToSet(r.read), behind |-> ToSet(r.a.events)]
                        ELSE [@ EXCEPT !.behind = {}]]
       /\ UNCHANGED <<dcs, chan, setup, wrote, got, refused, acked, closed>>

\* handle_timeout of an association that gives up: the endpoint event
\* removes it with everything in it.
HandleTimeout(p) ==
    /\ setup.drain /\ assoc[p].up
    /\ assoc' = [assoc EXCEPT ![p] = [up |-> FALSE, streams |-> <<>>, events |-> <<>>]]
    /\ UNCHANGED <<dcs, chan, net, routs, setup, dcHistory>>

\* read_data_channel.
ReadDataChannel(p, m) ==
    LET open == m.ppi = "dcep" /\ m.body.dcep = "open"
        ack == m.ppi = "dcep" /\ m.body.dcep = "ack"
    IN /\ chan' = IF open THEN [chan EXCEPT ![p][m.id] = Acknowledge(@)] ELSE chan
       /\ acked' = IF ack THEN [acked EXCEPT ![p] = @ \cup {m.id}] ELSE acked
       /\ got' = IF m.ppi = "dcep" THEN got
                 ELSE [got EXCEPT ![p][m.id] =
                        Append(@, [n |-> m.body.n, text |-> m.ppi \in {"string", "stringEmpty"},
                                   size |-> IF m.ppi \in {"stringEmpty", "binaryEmpty"} THEN 0
                                            ELSE m.body.size])]
       /\ UNCHANGED refused

\* accept: only an OPEN makes a channel.
AcceptMessage(p, m) ==
    LET open == m.ppi = "dcep" /\ m.body.dcep = "open"
    IN /\ chan' = IF open THEN [chan EXCEPT ![p] = Put(@, m.id, Accept(m.body))] ELSE chan
       /\ refused' = IF open THEN refused ELSE [refused EXCEPT ![p] = @ \cup {m}]
       /\ UNCHANGED <<acked, got>>

\* External: the layer above takes a message and gives it to its channel, or
\* to accept when there is none.
Deliver(p) ==
    /\ routs[p] # <<>>
    /\ LET m == Head(routs[p])
       IN IF m.id \in DOMAIN chan[p] THEN ReadDataChannel(p, m) ELSE AcceptMessage(p, m)
    /\ routs' = [routs EXCEPT ![p] = Tail(@)]
    /\ UNCHANGED <<dcs, assoc, net, setup, wrote, spilt, closed>>

\* External: an end resets the stream of a channel it has done with.
CloseChannel(p, id) ==
    /\ id \in setup.close[p] \ closed[p]
    /\ id \in DOMAIN chan[p] /\ id \in DOMAIN assoc[p].streams
    /\ closed' = [closed EXCEPT ![p] = @ \cup {id}]
    /\ chan' = [chan EXCEPT ![p] = Drop(@, id)]
    /\ assoc' = [assoc EXCEPT ![p].streams = Drop(@, id)]
    /\ net' = [net EXCEPT ![Peer(p)] = Append(@, [id |-> id, ppi |-> "reset", unordered |-> FALSE])]
    /\ UNCHANGED <<dcs, routs, setup, wrote, got, spilt, refused, acked>>

DcStep(p) ==
    \/ \E c \in setup.create[p] : CreateDataChannel(p, c.label, c.type, c.negotiated)
    \/ \E l \in DOMAIN dcs[p] : OpenChannel(p, l)
    \/ \E id \in DOMAIN chan[p] : \E m \in setup.messages : Write(p, id, m.text, m.size)
    \/ \E id \in DOMAIN chan[p] : Pump(p, id)
    \/ \E picks \in Picks(net[p], setup.burst) : HandleRead(p, picks)
    \/ \E i \in DOMAIN net[Peer(p)] : Abandon(p, i)
    \/ HandleTimeout(p)
    \/ Deliver(p)
    \/ \E id \in DOMAIN chan[p] : CloseChannel(p, id)

DcNext == \E p \in Ends : DcStep(p)

\* What is scheduled: the layer above keeps polling, and a datagram that was
\* sent arrives.  Nobody calls handle_read without a datagram.
Progress(p) ==
    \/ \E id \in DOMAIN chan[p] : Pump(p, id)
    \/ \E picks \in Picks(net[p], 1) \ {<<>>} : HandleRead(p, picks)
    \/ Deliver(p)

DcSpec == DcInit /\ [][DcNext]_dcVars /\ WF_dcVars(\E p \in Ends : Progress(p))
-----------------------------------------------------------------------------
(* Properties.                                                             *)

\* The association is gone, or the application closed the stream.
Ended(p, id) ==
    \/ ~assoc[p].up \/ ~assoc[Peer(p)].up
    \/ id \in closed[p] \cup closed[Peer(p)]

Unordered(type) == type \in {"reliableUnordered", "rexmitUnordered", "timedUnordered"}

Reliable(type) == type \in {"reliable", "reliableUnordered"}

Negotiated(p, id) == \E l \in DOMAIN dcs[p] : dcs[p][l].id = id /\ dcs[p][l].negotiated

\* The n-th message p wrote on a stream may come to an end that has no
\* channel for it: there was none when it was written, and no OPEN is sure
\* to come before it.
Early(p, id, n) ==
    ~wrote[p][id][n].known /\ (Unordered(chan[p][id].type) \/ Negotiated(p, id))

\* handle_read of q dropped the n-th message of a stream, having read it
\* before the event on which it failed, or the OPEN or ACK of the stream.
DroppedMessage(q, id, n) ==
    \E m \in spilt[q].lost : m.id = id /\ m.ppi # "dcep" /\ m.body.n = n

DroppedControl(q, id) == \E m \in spilt[q].lost : m.id = id /\ m.ppi = "dcep"

\* What the channel promises to bring to the other end.
Promised(p, id, n) ==
    /\ ~Ended(p, id) /\ Reliable(chan[p][id].type)
    /\ wrote[p][id][n].size <= MaxMessageSize
    /\ ~Early(p, id, n)
    /\ ~DroppedMessage(Peer(p), id, n)
    /\ wrote[p][id][n].known \/ ~DroppedControl(Peer(p), id)

\* Where the n-th message p wrote on a stream is now: each place it is in.
Places(p, id, n) ==
    LET q == Peer(p)
        Here(m) == m.id = id /\ m.ppi \notin {"dcep", "reset"} /\ m.body.n = n
        Of(seq) == {i \in DOMAIN seq : Here(seq[i])}
        out == chan[p][id].out
    IN  {<<"out", i>> : i \in {j \in DOMAIN out : out[j].ppi # "dcep" /\ out[j].body.n = n}}
        \cup {<<"net", i>> : i \in Of(net[q])}
        \cup (IF id \in DOMAIN assoc[q].streams
              THEN {<<"unread", i>> : i \in Of(assoc[q].streams[id])} ELSE {})
        \cup {<<"routs", i>> : i \in Of(routs[q])}
        \cup {<<"got", i>> : i \in {j \in DOMAIN got[q][id] : got[q][id][j].n = n}}

\* No message is ever in two places, and one of a reliable channel is in
\* exactly one until it is read: the handler and the channels neither repeat
\* nor lose one, whichever messages of other streams share the datagram.
\* Not promised are the messages that accept takes for a channel that never
\* was (Early) and those that a failing handle_read drops; the code loses
\* both.
NothingLost ==
    \A p \in Ends : \A id \in DOMAIN chan[p] : \A n \in DOMAIN wrote[p][id] :
        LET places == Cardinality(Places(p, id, n))
        IN places <= 1 /\ (Promised(p, id, n) => places = 1)

\* The messages of an ordered channel are read in the order they were
\* written, also when some were abandoned, or dropped by a failed call:
\* "reliable in-order bi-directional communication" (ChannelType).
ReadInOrder ==
    \A p \in Ends : \A id \in DOMAIN chan[p] :
        LET r == got[Peer(p)][id]
        IN ~Unordered(chan[p][id].type) =>
                \A i, j \in DOMAIN r : i < j => r[i].n < r[j].n

\* A message is turned away for want of a channel only if it is Early, or
\* the channel was closed, or its OPEN was dropped by a handle_read that
\* failed: on an ordered channel OPEN always comes first.
OnlyEarlyRefused ==
    \A p \in Ends : \A m \in refused[p] :
        LET q == Peer(p)
        IN \/ m.id \in closed[p] \cup closed[q] \/ DroppedControl(p, m.id)
           \/ m.ppi # "dcep" /\ m.id \in DOMAIN chan[q] /\ Early(q, m.id, m.body.n)

\* A message is read as what it was written: text or binary, and with its
\* size.  Nothing is said of the size of an empty one: to_ppid looks at the
\* length of what write_data_channel has already padded, so the code hands
\* out one zero byte.
KindsKept ==
    \A p \in Ends : \A id \in DOMAIN chan[p] : \A i \in DOMAIN got[Peer(p)][id] :
        LET r == got[Peer(p)][id][i]
            w == wrote[p][id][r.n]
        IN id \notin closed[p] =>
            r.text = w.text /\ (w.size # 0 => r.size = w.size)

\* What is written is read at most once, in order and as it was written; on
\* a reliable channel it is on its way until it is read, and it is turned
\* away only where no channel can be known for it.
MessagesKept == NothingLost /\ ReadInOrder /\ OnlyEarlyRefused /\ KindsKept

\* The two ends of a channel agree on its kind and label, and two channels
\* opened at the same time from both ends never share a stream: one end
\* takes even identifiers and the other odd ones.
ChannelsAgree ==
    /\ \A id \in StreamIds : \A p, q \in Ends :
            (id \in DOMAIN chan[p] /\ id \in DOMAIN chan[q] /\ ~Ended(p, id)) =>
                /\ chan[p][id].type = chan[q][id].type
                /\ \/ chan[p][id].label = chan[q][id].label
                   \/ Negotiated(p, id)
    /\ \A p, q \in Ends : \A l \in DOMAIN dcs[p] : \A k \in DOMAIN dcs[q] :
            (/\ <<p, l>> # <<q, k>>
             /\ dcs[p][l].open /\ ~dcs[p][l].negotiated
             /\ dcs[q][k].open /\ ~dcs[q][k].negotiated) => dcs[p][l].id # dcs[q][k].id

\* Once nothing more is opened, every OPEN has been acknowledged, for
\* accept answers each one; unless a handle_read that failed dropped the
\* OPEN or the ACK, or left its event for a datagram that did not come.  On
\* an unordered channel that abandons messages nothing is claimed: SctpStreams
\* shows a FORWARD-TSN pass over the OPEN there (AcknowledgedKept).
OpenIsAcknowledged ==
    []<>(\A p \in Ends : \A l \in DOMAIN dcs[p] :
            LET id == dcs[p][l].id
            IN (/\ dcs[p][l].open /\ ~dcs[p][l].negotiated
                /\ Reliable(dcs[p][l].type) \/ ~Unordered(dcs[p][l].type)) =>
                \/ id \in acked[p] \/ Ended(p, id)
                \/ \E q \in Ends : DroppedControl(q, id) \/ id \in spilt[q].behind)

\* Once nothing more is written, every message a channel promised to bring
\* to the other end has been read there: no event of the association waits
\* for a datagram that never comes, but those behind the event on which
\* handle_read failed.
WrittenIsRead ==
    []<>(\A p \in Ends : \A id \in DOMAIN chan[p] : \A n \in DOMAIN wrote[p][id] :
            Promised(p, id, n) =>
                \/ id \in spilt[Peer(p)].behind
                \/ \E i \in DOMAIN got[Peer(p)][id] : got[Peer(p)][id][i].n = n)

\* Every channel that is opened, and every message promised on one, gets through.
ChannelsServe == OpenIsAcknowledged /\ WrittenIsRead
=============================================================================
