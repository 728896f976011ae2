----------------------------- MODULE SctpStreams -----------------------------
(***************************************************************************)
(* The streams of an established SCTP association, in one direction        *)
(* (rtc-sctp/src/association/stream.rs, queue/pending_queue.rs,            *)
(* queue/reassembly_queue.rs and association/mod.rs): fragmentation, the   *)
(* ordered and unordered pending queues, reassembly, partial reliability   *)
(* with FORWARD-TSN, and the reset of streams with RECONFIG.               *)
(*                                                                         *)
(* Side A writes, side B reads; either may stop a stream.  Packets may be  *)
(* lost, repeated and reordered.  The windows and the choice of what is    *)
(* retransmitted when are SctpTransfer's: here any chunk in flight may be  *)
(* sent again at any time, and a SACK, when it arrives, is B's latest.     *)
(* A fragment is the unit of length and TSNs count from 1.                 *)
(***************************************************************************)
EXTENDS Integers, Sequences, FiniteSets, FiniteSetsExt, Functions

CONSTANTS Streams,     \* stream identifiers
          Configs,     \* the configurations checked, as
                       \* [stream, writes, frags, opens, retrans]
          SsnMod       \* 2^16: stream sequence numbers are counted modulo it

\* What the applications do with a stream: set_reliability_params, whether it is
\* announced by a DCEP OPEN message, and how they may end it.
Settings == [unordered : BOOLEAN, type : {"Reliable", "Rexmit", "Timed"}, value : Nat,
             dcep : BOOLEAN, ends : SUBSET {"stop", "stopB", "finish"}]

ASSUME StreamsAssumption ==
    /\ SsnMod \in Nat /\ SsnMod >= 4 /\ SsnMod % 2 = 0
    /\ \A c \in Configs : /\ \A s \in DOMAIN c.stream : s \in Streams /\ c.stream[s] \in Settings
                          \* bounds: messages, fragments of one, calls of open_stream
                          /\ c.writes \in Nat /\ c.frags \in Nat \ {0} /\ c.opens \in Nat
                          /\ c.retrans \in Nat   \* max_reconfig_retrans

VARIABLES
    config,        \* the configuration, one of Configs
    \* side A
    registered,    \* the keys of Association::streams
    state,         \* RecvSendState, as the set of the directions still open
    ssn,           \* StreamState::sequence_number
    buffered,      \* StreamState::buffered_amount
    silent,        \* streams opened and not written to yet
    pending,       \* PendingQueue
    tsn,           \* the chunks that have a TSN: my_next_tsn is Len(tsn) + 1
    cum, acked,    \* cumulative_tsn_ack_point and the chunks acked beyond it
    abandoned,     \* chunks with the flag abandoned
    resent,        \* chunks with nsent > 1
    advanced,      \* advanced_peer_tsn_ack_point
    will_forward,  \* will_send_forward_tsn
    reconfigs,     \* [rsn, own]: requests without a response; own: made for stop()
    rsn,           \* my_next_rsn
    t_reconfig,    \* the Reconfig timer runs
    retrans,       \* how often it has expired since it was last stopped
    again,         \* will_retransmit_reconfig
    \* side B
    last_tsn, queue,      \* peer_last_tsn and payload_queue
    live,                 \* the keys of Association::streams
    rcv,                  \* their ReassemblyQueues
    reset_requests,       \* reconfig_requests
    notified,             \* streams with a Readable event not yet served
    \* the network
    forwards, requests, replies, responses,
    \* what happened
    written,       \* every message written
    sent,          \* sent[s]: of those of s, in order, what the service promises
    got,           \* got[s]: the messages read from s as indexes in sent[s], 0 for one
                   \* that is not whole
    opens, stopped

timer == <<t_reconfig, retrans, again>>
a == <<registered, state, ssn, buffered, silent, pending, tsn, cum, acked, abandoned,
       resent, advanced, will_forward, reconfigs, rsn, timer>>
b == <<last_tsn, queue, live, rcv, reset_requests, notified>>
network == <<forwards, requests, replies, responses>>
history == <<written, sent, got, opens, stopped>>
vars == <<config, a, b, network, history>>

-----------------------------------------------------------------------------
(***************************************************************************)
(* Serial number arithmetic (util.rs).                                     *)
(***************************************************************************)
Half == SsnMod \div 2
Sna16lt(i, j) == (i < j /\ j - i < Half) \/ (i > j /\ i - j > Half)
Sna16lte(i, j) == i = j \/ Sna16lt(i, j)
Sna16gt(i, j) == (i < j /\ j - i >= Half) \/ (i > j /\ i - j <= Half)

(***************************************************************************)
(* Chunks.  A chunk is the k-th fragment of the message m; m = 0 is the    *)
(* empty chunk that send_reset_request queues behind the stream's data.    *)
(***************************************************************************)
Begins(c) == c.k <= 1
Ends(c) == c.m = 0 \/ c.k = written[c.m].frags
Unordered(c) == c.m # 0 /\ written[c.m].unordered
Ssn(c) == written[c.m].ssn

TSNs == 1 .. Len(tsn)
Inflight == {t \in TSNs : cum < t}
OfStream(s) == {t \in TSNs : tsn[t].s = s}
Fragments(m) == {t \in TSNs : tsn[t].m = m}
Whole(S) == \E m \in 1 .. Len(written) :
              S = Fragments(m) /\ Cardinality(S) = written[m].frags

NewQueue == [next |-> 0, ordered |-> {}, unordered |-> <<>>, chunks |-> {},
             flag |-> FALSE, readable |-> TRUE, bytes |-> 0]

Init ==
    /\ config \in Configs
    /\ registered = {} /\ state = [s \in Streams |-> {}]
    /\ ssn = [s \in Streams |-> 0] /\ buffered = [s \in Streams |-> 0] /\ silent = {}
    /\ pending = [u |-> <<>>, o |-> <<>>, selected |-> FALSE, unordered_is_selected |-> FALSE]
    /\ tsn = <<>> /\ cum = 0 /\ acked = {} /\ abandoned = {} /\ resent = {}
    /\ advanced = 0 /\ will_forward = FALSE
    /\ reconfigs = {} /\ rsn = 1 /\ t_reconfig = FALSE /\ retrans = 0 /\ again = FALSE
    /\ last_tsn = 0 /\ queue = {} /\ live = {} /\ rcv = [s \in Streams |-> NewQueue]
    /\ reset_requests = {} /\ notified = {}
    /\ forwards = {} /\ requests = {} /\ replies = {} /\ responses = {}
    /\ written = <<>> /\ sent = [s \in Streams |-> <<>>] /\ got = [s \in Streams |-> <<>>] /\ opens = 0 /\ stopped = {}

-----------------------------------------------------------------------------
(***************************************************************************)
(* Side A: the application.                                                *)
(***************************************************************************)

\* open_stream and create_stream.
Open(s) ==
    /\ s \in DOMAIN config.stream /\ opens < config.opens /\ s \notin registered
    /\ opens' = opens + 1
    /\ registered' = registered \cup {s}
    /\ state' = [state EXCEPT ![s] = {"r", "w"}]
    /\ ssn' = [ssn EXCEPT ![s] = 0]
    /\ buffered' = [buffered EXCEPT ![s] = 0]
    /\ silent' = IF config.stream[s].dcep THEN silent \cup {s} ELSE silent
    /\ UNCHANGED <<config, pending, tsn, cum, acked, abandoned, resent, advanced, will_forward,
                   reconfigs, rsn, timer, b, network, written, sent, got, stopped>>

\* Ordered messages of s that have not been read: the application lets fewer
\* than half of the sequence numbers be under way.
Unread(s) == {m \in 1 .. Len(written) :
                /\ written[m].s = s /\ ~written[m].unordered
                /\ written[m].pos \notin Range(got[s])}

\* packetize does not count unordered messages.
NextSsn(s, unordered) == IF unordered THEN ssn[s] ELSE (ssn[s] + 1) % SsnMod

\* write_source, packetize and send_payload_data.  The first message of a stream
\* may be the data channel's OPEN: DCEP, always ordered and reliable.
Write(s, n) ==
    LET unordered == config.stream[s].unordered /\ s \notin silent
        reliable == s \in silent \/ config.stream[s].type = "Reliable"
        chunks == [k \in 1 .. n |-> [m |-> Len(written) + 1, k |-> k, s |-> s]]
    IN  /\ s \in registered /\ "w" \in state[s]
        /\ Len(written) < config.writes /\ Cardinality(Unread(s)) < Half
        /\ written' = Append(written, [s |-> s, ssn |-> ssn[s], unordered |-> unordered, frags |-> n, pos |-> Len(sent[s]) + 1,
                                       dcep |-> s \in silent,
                                       reliable |-> reliable])
        /\ sent' = [sent EXCEPT ![s] = Append(@, [ordered |-> ~unordered, reliable |-> reliable])]
        /\ ssn' = [ssn EXCEPT ![s] = NextSsn(s, unordered)]
        /\ buffered' = [buffered EXCEPT ![s] = @ + n]
        /\ pending' = IF unordered THEN [pending EXCEPT !.u = @ \o chunks]
                                   ELSE [pending EXCEPT !.o = @ \o chunks]
        /\ silent' = silent \ {s}
        /\ UNCHANGED <<config, registered, state, tsn, cum, acked, abandoned, resent, advanced,
                       will_forward, reconfigs, rsn, timer, b, network, got, opens, stopped>>

\* Stream::stop on side A: the read direction is closed, and a marker behind what
\* has been written will become a request to reset the outgoing stream.
Stop(s) ==
    /\ s \in registered /\ "stop" \in config.stream[s].ends /\ "r" \in state[s]
    /\ state' = [state EXCEPT ![s] = @ \ {"r"}]
    /\ pending' = [pending EXCEPT !.o = Append(@, [m |-> 0, k |-> 0, s |-> s])]
    /\ stopped' = stopped \cup {s}
    /\ UNCHANGED <<config, registered, ssn, buffered, silent, tsn, cum, acked, abandoned, resent,
                   advanced, will_forward, reconfigs, rsn, timer, b, network,
                   written, sent, got, opens>>

\* Stream::finish on side A.
Finish(s) ==
    /\ s \in registered /\ "finish" \in config.stream[s].ends /\ "w" \in state[s]
    /\ state' = [state EXCEPT ![s] = @ \ {"w"}]
    /\ UNCHANGED <<config, registered, ssn, buffered, silent, pending, tsn, cum, acked, abandoned,
                   resent, advanced, will_forward, reconfigs, rsn, timer, b, network, history>>

-----------------------------------------------------------------------------
(***************************************************************************)
(* Side A: sending.                                                        *)
(***************************************************************************)

\* PendingQueue::peek: the queue of the message that is being sent, else
\* unordered chunks first.
Peek(p) == IF p.selected
           THEN IF p.unordered_is_selected THEN Head(p.u) ELSE Head(p.o)
           ELSE IF p.u # <<>> THEN Head(p.u) ELSE Head(p.o)

\* PendingQueue::pop of the chunk c that peek returned.
Pop(p, c) ==
    [u |-> IF Unordered(c) THEN Tail(p.u) ELSE p.u,
     o |-> IF Unordered(c) THEN p.o ELSE Tail(p.o),
     selected |-> ~Ends(c),
     unordered_is_selected |-> IF p.selected \/ Ends(c) THEN p.unordered_is_selected
                               ELSE Unordered(c)]

\* One turn of the loop of pop_pending_data_chunks_to_send when the windows let n
\* chunks out: the markers it meets go to sis_to_reset, whatever the windows.
Turn(last, n) ==
    LET c == Peek(last.p)
    IN  IF last.p.u \o last.p.o = <<>> THEN last
        ELSE IF c.m = 0
        THEN [last EXCEPT !.p = Pop(@, c), !.sis = @ \cup {c.s}]
        ELSE IF Len(last.out) < n
        THEN [last EXCEPT !.p = Pop(@, c), !.out = Append(@, c)]
        ELSE last

\* The loop, which ends when a turn changes nothing.
Popped(n) ==
    LET take[i \in 0 .. Len(pending.u) + Len(pending.o)] ==
          IF i = 0 THEN [p |-> pending, out |-> <<>>, sis |-> {}] ELSE Turn(take[i - 1], n)
    IN  take[Len(pending.u) + Len(pending.o)]

\* check_partial_reliability_status of a chunk that has now been sent nsent
\* times: it must be abandoned, or, where time decides, it may be.
MustAbandon(c, nsent) ==
    /\ ~written[c.m].dcep /\ c.s \in registered
    /\ config.stream[c.s].type = "Rexmit" /\ nsent >= config.stream[c.s].value
MayAbandon(c) ==
    ~written[c.m].dcep /\ c.s \in registered /\ config.stream[c.s].type = "Timed"

\* ChunkPayloadData::abandoned: packetize gives every fragment flags of its own,
\* and set_all_inflight sets the one of the last fragment only.
Abandoned(t) == t \in abandoned /\ Ends(tsn[t])

\* create_forward_tsn.
TheForward ==
    LET skipped == {t \in TSNs : cum < t /\ t <= advanced}
    IN  [cum |-> advanced,
         ssns |-> {<<tsn[t].s, Ssn(tsn[t])>> :
                     t \in {x \in skipped : \A y \in skipped : tsn[y].s = tsn[x].s =>
                                              ~Sna16lt(Ssn(tsn[x]), Ssn(tsn[y]))}}]

ArmedFault(sis) == t_reconfig \/ (again /\ reconfigs' # {})
\* The Reconfig timer is started where a request is sent for stop(), and where
\* those without a response are sent again.
Armed(sis) == t_reconfig \/ ((sis # {} \/ again) /\ reconfigs' # {})

\* Chunks whose next retransmission counts: every chunk once sent may arrive again
\* at any time, and nothing more comes of sending a reliable one again.
Retransmittable == {t \in Inflight \ (acked \cup resent) :
                      /\ ~Abandoned(t) /\ ~written[tsn[t].m].reliable}

\* gather_outbound in state Established: retransmissions R, n new chunks, the
\* requests to reset the streams whose markers were popped, FORWARD-TSN.
PollTransmit(R, n) ==
    LET popped == Popped(n)
        fresh == {Len(tsn) + i : i \in 1 .. Len(popped.out)}
        all == tsn \o popped.out
        must == {t \in fresh : MustAbandon(all[t], 1)} \cup {t \in R : MustAbandon(tsn[t], 2)}
        may == {t \in R \cup fresh : MayAbandon(all[t])}
    IN  /\ R # {} \/ popped.out # <<>> \/ popped.sis # {} \/ again \/ will_forward
        /\ Len(popped.out) = n
        /\ pending' = popped.p
        /\ tsn' = all
        /\ resent' = resent \cup R
        /\ \E timed \in SUBSET may : abandoned' = abandoned \cup must \cup timed
        /\ IF popped.sis = {} THEN UNCHANGED <<rsn, reconfigs, requests>>
           ELSE /\ rsn' = rsn + 1
                /\ reconfigs' = reconfigs \cup {[rsn |-> rsn, own |-> TRUE]}
                /\ requests' = requests \cup {[rsn |-> rsn, last |-> Len(all), sis |-> popped.sis]}
        /\ t_reconfig' = Armed(popped.sis) /\ again' = FALSE /\ UNCHANGED retrans
        /\ forwards' = IF will_forward /\ advanced > cum THEN forwards \cup {TheForward} ELSE forwards
        /\ will_forward' = FALSE
        /\ UNCHANGED <<config, registered, state, ssn, buffered, silent, cum, acked, advanced, b,
                       replies, responses, history>>

\* RFC 3758 C2: the advanced ack point moves over abandoned chunks.
AdvancesTo(from, p) ==
    /\ from <= p /\ p <= Len(tsn)
    /\ \A t \in from + 1 .. p : Abandoned(t)
    /\ p = Len(tsn) \/ ~Abandoned(p + 1)

\* Chunks of s that the SACK of B acknowledges for the first time.
NewlyAcked(s) == {t \in OfStream(s) : /\ t > cum /\ t \notin acked
                                      /\ t <= last_tsn \/ t \in queue}

\* handle_sack (process_selective_ack, on_buffer_released, C1 to C3).
HandleSack ==
    /\ last_tsn > cum \/ queue # acked
    /\ cum' = last_tsn
    /\ acked' = queue
    /\ buffered' = [s \in Streams |->
                      IF s \in registered
                      THEN Max({0, buffered[s] - Cardinality(NewlyAcked(s))}) ELSE buffered[s]]
    /\ \E p \in 0 .. Len(tsn) : AdvancesTo(Max({advanced, last_tsn}), p) /\ advanced' = p
    /\ will_forward' = (will_forward \/ advanced' > last_tsn)
    /\ UNCHANGED <<config, registered, state, ssn, silent, pending, tsn, abandoned, resent,
                   reconfigs, rsn, timer, b, network, history>>

\* on_retransmission_timeout for T3-rtx, as far as FORWARD-TSN is concerned.
T3Timeout ==
    /\ Inflight # {}
    /\ \E p \in 0 .. Len(tsn) : AdvancesTo(advanced, p) /\ advanced' = p
    /\ will_forward' = (will_forward \/ advanced' > cum)
    /\ UNCHANGED <<config, registered, state, ssn, buffered, silent, pending, tsn, cum, acked,
                   abandoned, resent, reconfigs, rsn, timer, b, network, history>>

\* handle_timeout for the Reconfig timer: the requests are sent again, until it has
\* expired more than max_reconfig_retrans times: on_retransmission_failure does
\* nothing.
ReconfigTimeout ==
    /\ t_reconfig
    /\ retrans' = retrans + 1
    /\ IF retrans' > config.retrans THEN t_reconfig' = FALSE /\ UNCHANGED again
       ELSE again' = TRUE /\ UNCHANGED t_reconfig
    /\ UNCHANGED <<config, registered, state, ssn, buffered, silent, pending, tsn, cum, acked,
                   abandoned, resent, advanced, will_forward, reconfigs, rsn, b, network, history>>

\* reset_streams_if_any on a request of side B, which has no data to wait for:
\* the streams are unregistered and answered with a request of A's own.
HandleReply(sis) ==
    LET found == sis \cap registered
    IN  /\ found # {}
        /\ registered' = registered \ found
        /\ state' = [s \in Streams |-> IF s \in found THEN {} ELSE state[s]]
        /\ silent' = silent \ found
        /\ rsn' = rsn + 1
        /\ reconfigs' = reconfigs \cup {[rsn |-> rsn, own |-> FALSE]}
        /\ requests' = requests \cup {[rsn |-> rsn, last |-> Len(tsn), sis |-> found]}
        /\ UNCHANGED <<config, ssn, buffered, pending, tsn, cum, acked, abandoned, resent, advanced,
                       will_forward, timer, b, forwards, replies, responses, history>>

\* handle_reconfig_param on a response: whatever its result, the request is done.
HandleResponse(n) ==
    /\ \E r \in reconfigs : r.rsn = n
    /\ reconfigs' = {r \in reconfigs : r.rsn # n}
    /\ t_reconfig' = (t_reconfig /\ reconfigs' # {})
    /\ retrans' = IF reconfigs' = {} THEN 0 ELSE retrans
    /\ UNCHANGED <<config, registered, state, ssn, buffered, silent, pending, tsn, cum, acked,
                   abandoned, resent, advanced, will_forward, rsn, again, b, network, history>>

-----------------------------------------------------------------------------
(***************************************************************************)
(* Side B.                                                                 *)
(***************************************************************************)
IsCompleteFault(S) == S # {} /\ Begins(tsn[Min(S)]) /\ Ends(tsn[Max(S)])
\* Chunks::is_complete.
IsComplete(S) ==
    /\ S # {} /\ Begins(tsn[Min(S)]) /\ Ends(tsn[Max(S)])
    /\ S = Min(S) .. Max(S)

\* find_complete_unordered_chunk_set: the sets a scan of the sorted chunks can
\* return; it returns the first of them.
Runs(S) == {f \in {x .. y : x \in S, y \in S} :
              f \subseteq S /\ IsComplete(f) /\ \A t \in f : Begins(tsn[t]) => t = Min(f)
                                             /\ (Ends(tsn[t]) => t = Max(f))}
FirstRun(S) == CHOOSE f \in Runs(S) : \A g \in Runs(S) : Min(f) <= Min(g)

PushUnordered(r, t) ==
    LET chunks == r.chunks \cup {t}
        counted == [r EXCEPT !.bytes = @ + 1]
    IN  IF Runs(chunks) = {} THEN [counted EXCEPT !.chunks = chunks]
        ELSE [counted EXCEPT !.chunks = chunks \ FirstRun(chunks),
                             !.unordered = Append(@, FirstRun(chunks))]

PushOrdered(r, t) ==
    LET n == Ssn(tsn[t])
        same == {c \in r.ordered : c.ssn = n}
    IN  IF Sna16lt(n, r.next) THEN r
        ELSE [r EXCEPT !.bytes = @ + 1,
                       !.ordered = (@ \ same) \cup {[ssn |-> n, tsns |-> {t} \cup UNION {c.tsns : c \in same}]}]

\* ReassemblyQueue::push.
Push(r, t) == IF Unordered(tsn[t]) THEN PushUnordered(r, t) ELSE PushOrdered(r, t)

\* The first of the ordered sets, which sort_chunks_by_ssn keeps sorted, if it can
\* be read.
ReadableOrdered(r) ==
    {c \in r.ordered : /\ \A d \in r.ordered : Sna16lte(c.ssn, d.ssn)
                       /\ IsComplete(c.tsns) /\ ~Sna16gt(c.ssn, r.next)}
\* ReassemblyQueue::is_readable.
IsReadable(r) == r.unordered # <<>> \/ ReadableOrdered(r) # {}

\* handle_data's Readable event: the chunk completed a set.
Completes(r, t) ==
    /\ r # Push(r, t)
    /\ IF Unordered(tsn[t]) THEN Len(Push(r, t).unordered) > Len(r.unordered)
       ELSE \E c \in Push(r, t).ordered : t \in c.tsns /\ IsComplete(c.tsns)
    /\ IsReadable(Push(r, t))

\* handle_peer_last_tsn_and_acknowledgement from the point p: peer_last_tsn
\* moves over what has been received, and whenever it has moved the pending reset
\* requests are looked at again, this time without a request of B's own.
Reaches(p, received, q) ==
    /\ p <= q
    /\ \A t \in p + 1 .. q : t \in received
    /\ q + 1 \notin received

Performed(p, q) == IF q > p THEN {r \in reset_requests : r.last <= q} ELSE {}
Answered(p, q) == IF q > p THEN {r.rsn : r \in reset_requests} ELSE {}

\* The streams of side B afterwards, given those it had before.
AfterResets(p, q, streams) == streams \ UNION {r.sis : r \in Performed(p, q)}

\* PayloadQueue::can_push.
Accepts(t) == t > last_tsn /\ t \notin queue

\* handle_data: get_or_create_stream, StreamState::handle_data and then
\* handle_peer_last_tsn_and_acknowledgement.
HandleData(t) ==
    LET s == tsn[t].s
        r == IF s \in live THEN rcv[s] ELSE NewQueue
    IN  /\ Accepts(t)
        /\ \E q \in 0 .. Len(tsn) :
             /\ Reaches(last_tsn, queue \cup {t}, q)
             /\ last_tsn' = q
             /\ queue' = {x \in queue \cup {t} : x > q}
             /\ live' = AfterResets(last_tsn, q, live \cup {s})
             /\ rcv' = [x \in Streams |-> IF x \notin live' THEN NewQueue
                                         ELSE IF x = s THEN Push(r, t) ELSE rcv[x]]
             /\ reset_requests' = reset_requests \ Performed(last_tsn, q)
             /\ responses' = responses \cup Answered(last_tsn, q)
        /\ notified' = notified \cup (IF Completes(r, t) THEN {s} ELSE {})
        /\ UNCHANGED <<config, a, forwards, requests, replies, history>>

ForwardOrderedFault(r, n) ==
    LET gone == {c \in r.ordered : Sna16lte(c.ssn, n)}
    IN  [r EXCEPT !.ordered = @ \ gone,
                  !.bytes = @ - Cardinality(UNION {c.tsns : c \in gone}),
                  !.next = IF Sna16lte(@, n) THEN (n + 1) % SsnMod ELSE @]
\* ReassemblyQueue::forward_tsn_for_ordered.
ForwardOrdered(r, n) ==
    LET gone == {c \in r.ordered : Sna16lte(c.ssn, n) /\ ~IsComplete(c.tsns)}
    IN  [r EXCEPT !.ordered = @ \ gone,
                  !.bytes = @ - Cardinality(UNION {c.tsns : c \in gone}),
                  !.next = IF Sna16lte(@, n) THEN (n + 1) % SsnMod ELSE @]

\* ReassemblyQueue::forward_tsn_for_unordered.
ForwardUnordered(r, p) ==
    [r EXCEPT !.chunks = {t \in @ : t > p},
              !.bytes = @ - Cardinality({t \in r.chunks : t <= p})]

\* handle_forward_tsn_for_ordered and _for_unordered on the stream s.
Forwarded(s, f) ==
    IF rcv[s].flag THEN ForwardUnordered(rcv[s], f.cum)
    ELSE IF \E e \in f.ssns : e[1] = s
    THEN ForwardOrdered(rcv[s], (CHOOSE e \in f.ssns : e[1] = s)[2])
    ELSE rcv[s]

\* handle_forward_tsn on one that is not out of date.
HandleForward(f) ==
    /\ f.cum > last_tsn
    /\ \E q \in 0 .. Len(tsn) :
         /\ Reaches(f.cum, queue, q)
         /\ last_tsn' = q
         /\ queue' = {x \in queue : x > q}
         /\ live' = AfterResets(f.cum, q, live)
         /\ rcv' = [s \in Streams |-> IF s \in live' THEN Forwarded(s, f) ELSE NewQueue]
         /\ reset_requests' = reset_requests \ Performed(f.cum, q)
         /\ responses' = responses \cup Answered(f.cum, q)
         /\ notified' = notified \cup {s \in live : IsReadable(Forwarded(s, f))}
    /\ UNCHANGED <<config, a, forwards, requests, replies, history>>

\* sender_last_tsn has been reached.
MayReset(r) == r.last <= last_tsn

\* handle_reconfig_param on a reset request of side A, and reset_streams_if_any.
HandleRequest(r) ==
    LET found == r.sis \cap live
    IN  /\ IF MayReset(r)
           THEN /\ live' = live \ found
                /\ rcv' = [s \in Streams |-> IF s \in live' THEN rcv[s] ELSE NewQueue]
                /\ reset_requests' = {x \in reset_requests : x.rsn # r.rsn}
                /\ replies' = IF found = {} THEN replies ELSE replies \cup {found}
           ELSE /\ reset_requests' = reset_requests \cup {r}
                /\ UNCHANGED <<live, rcv, replies>>
        /\ responses' = responses \cup {r.rsn}
        /\ UNCHANGED <<config, a, last_tsn, queue, notified, forwards, requests, history>>

\* Stream::stop on side B, and the poll_transmit that sends its request.
StopB(s) ==
    /\ s \in live /\ "stopB" \in config.stream[s].ends /\ rcv[s].readable
    /\ rcv' = [rcv EXCEPT ![s].readable = FALSE]
    /\ replies' = replies \cup {{s}}
    /\ stopped' = stopped \cup {s}
    /\ UNCHANGED <<config, a, last_tsn, queue, live, reset_requests, notified, forwards, requests,
                   responses, written, sent, got, opens>>

Taken(S) == IF Whole(S) THEN written[tsn[Min(S)].m].pos ELSE 0

\* ReassemblyQueue::read of the ordered set c.
ReadOrdered(r, c) ==
    [r EXCEPT !.ordered = @ \ {c}, !.bytes = @ - Cardinality(c.tsns),
              !.next = IF c.ssn = @ THEN (@ + 1) % SsnMod ELSE @]
ReadUnordered(r) ==
    [r EXCEPT !.unordered = Tail(@), !.bytes = @ - Cardinality(Head(r.unordered))]

\* read_sctp on a Readable event, until it returns None; when both kinds can be
\* read the older one is, and either may be.  On a stream that was stopped or
\* unregistered it fails.
Read(s) ==
    /\ s \in notified
    /\ \/ /\ s \in live /\ rcv[s].readable /\ rcv[s].unordered # <<>>
          /\ got' = [got EXCEPT ![s] = Append(@, Taken(Head(rcv[s].unordered)))]
          /\ rcv' = [rcv EXCEPT ![s] = ReadUnordered(@)]
          /\ UNCHANGED notified
       \/ \E c \in ReadableOrdered(rcv[s]) :
          /\ s \in live /\ rcv[s].readable
          /\ got' = [got EXCEPT ![s] = Append(@, Taken(c.tsns))]
          /\ rcv' = [rcv EXCEPT ![s] = ReadOrdered(@, c)]
          /\ UNCHANGED notified
       \/ /\ s \notin live \/ ~rcv[s].readable \/ ~IsReadable(rcv[s])
          /\ notified' = notified \ {s}
          /\ UNCHANGED <<got, rcv>>
    /\ UNCHANGED <<config, a, last_tsn, queue, live, reset_requests, network,
                   written, sent, opens, stopped>>

\* Side B writes on the stream itself, an ACK first where there was an OPEN: the
\* SCTP handler's handle_write then sets the reliability parameters.
Accept(s) ==
    /\ s \in live /\ ~rcv[s].flag /\ config.stream[s].unordered
    /\ config.stream[s].dcep => \E m \in 1 .. Len(written) :
         written[m].s = s /\ written[m].dcep /\ written[m].pos \in Range(got[s])
    /\ rcv' = [rcv EXCEPT ![s].flag = TRUE]
    /\ UNCHANGED <<config, a, last_tsn, queue, live, reset_requests, notified, network, history>>

-----------------------------------------------------------------------------
Next ==
    \/ \E s \in Streams : Open(s) \/ Stop(s) \/ Finish(s) \/ StopB(s) \/ Read(s) \/ Accept(s)
    \/ \E s \in Streams, n \in 1 .. config.frags : Write(s, n)
    \/ \E R \in SUBSET Retransmittable, n \in 0 .. Len(pending.u) + Len(pending.o) : PollTransmit(R, n)
    \/ HandleSack \/ T3Timeout \/ ReconfigTimeout
    \/ \E t \in TSNs : HandleData(t)
    \/ \E f \in forwards : HandleForward(f)
    \/ \E r \in requests : HandleRequest(r)
    \/ \E sis \in replies : HandleReply(sis)
    \/ \E n \in responses : HandleResponse(n)

Spec == Init /\ [][Next]_vars

-----------------------------------------------------------------------------
\* The direction as its users see it.
Service == INSTANCE StreamService WITH reset <- stopped

\* The streams implement the stream service: however the network treats the
\* packets, read_sctp returns whole messages, each at most once, the ordered ones
\* in order, and skips a reliable one only after a reset.
ServiceSpec == Service!Spec

\* The fragment t is in a reassembly queue or its message has been read.
Kept(t) ==
    LET r == rcv[tsn[t].s]
    IN  \/ written[tsn[t].m].pos \in Range(got[tsn[t].s])
        \/ t \in r.chunks \cup UNION {c.tsns : c \in r.ordered} \cup UNION Range(r.unordered)

\* Chunks B has acknowledged on streams that were not stopped.
Acknowledged == {t \in TSNs : (t <= last_tsn \/ t \in queue) /\ tsn[t].s \notin stopped}

\* What side B has acknowledged it keeps until it is read: neither a late
\* duplicate, a FORWARD-TSN nor the reading of other messages loses a fragment,
\* unless the sender has abandoned the message, or an unordered message of the
\* stream: the FORWARD-TSN then reports an SSN the receiver takes for an ordered
\* message.
AcknowledgedKept ==
    \A t \in Acknowledged :
        \/ Kept(t) \/ Fragments(tsn[t].m) \cap abandoned # {}
        \/ \E x \in abandoned : tsn[x].s = tsn[t].s /\ Unordered(tsn[x])

\* n_bytes is exactly what the reassembly queue holds, so that the window
\* advertised to the peer neither leaks nor wraps.
BytesExact ==
    \A s \in live : rcv[s].bytes =
        Cardinality(rcv[s].chunks) + Cardinality(UNION {c.tsns : c \in rcv[s].ordered})
        + Cardinality(UNION Range(rcv[s].unordered))

\* The receiver accounts for every fragment it has acknowledged.
Accounted == AcknowledgedKept /\ BytesExact

\* A stream that is not stopped and can be read has a Readable event its reader has not served.
NoLostWakeup == \A s \in live : rcv[s].readable /\ IsReadable(rcv[s]) => s \in notified

\* While a reset requested by stop() is not answered its timer runs, unless it has
\* expired max_reconfig_retrans times and once more; on_retransmission_failure then
\* gives up without a word.  All these expirations fell in a time in which some
\* request was without a response: once every request has been answered
\* (TimerTable::stop) the next one has all its repetitions.  One sent after the
\* timer was given up, and before that, has none.
ResetArmed ==
    /\ (\E r \in reconfigs : r.own) => t_reconfig \/ retrans > config.retrans
    /\ retrans > 0 => reconfigs # {}

\* No reader waits for an event that will not come, and no reset for a repetition
\* that will not, before its timer has been given up.
NeverStuck == NoLostWakeup /\ ResetArmed
=============================================================================
