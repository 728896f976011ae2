------------------------------ MODULE StunClient ------------------------------
(***************************************************************************)
(* The STUN client (rtc-stun/src/client.rs) and the agent below it, which  *)
(* keeps the transactions and their deadlines (rtc-stun/src/agent.rs).     *)
(*                                                                         *)
(* The agent answers through a queue of events, and the client looks at it *)
(* only in poll_event: a timeout and an answer of one transaction can both *)
(* be in the queue.  The network loses, repeats and delays.                *)
(***************************************************************************)
EXTENDS Naturals, Sequences, FiniteSets

CONSTANTS Ids,           \* transaction ids, each used once
          MaxAttempts,   \* settings.max_attempts
          MaxAnswers     \* bound: answers that arrive

ASSUME StunAssumption == IsFiniteSet(Ids) /\ MaxAttempts \in Nat /\ MaxAnswers \in Nat

VARIABLES
    closed,          \* settings.closed; the agent is closed with it
    registered,      \* the keys of Agent::transactions
    events,          \* Agent::events_queue
    attempt,         \* Client::transactions: attempt[id], or NoTransaction
    started, ended,  \* ids given to handle_write; how many events each has returned
    answers          \* how many answers have arrived

stunVars == <<closed, registered, events, attempt, started, ended, answers>>

NoTransaction == MaxAttempts + 1

StunInit ==
    /\ closed = FALSE /\ registered = {} /\ events = <<>>
    /\ attempt = [id \in Ids |-> NoTransaction]
    /\ started = {} /\ ended = [id \in Ids |-> 0] /\ answers = 0

Known(id) == attempt[id] # NoTransaction

\* The orders in which a hash map may list the ids: every id is in the list, which
\* has no more places than there are ids and so has none twice.
Orders(ids) ==
    {s \in UNION {[1 .. n -> ids] : n \in 0 .. Cardinality(ids)} :
        \A id \in ids : \E i \in DOMAIN s : s[i] = id}

\* One event of this kind for each of the ids.
AllEvents(ids, result) ==
    {[i \in DOMAIN s |-> [id |-> s[i], result |-> result]] : s \in Orders(ids)}

\* handle_write of a request: the client's transaction, the agent's, and the
\* request is sent.
HandleWrite(id) ==
    /\ id \notin started /\ ~closed
    /\ started' = started \cup {id}
    /\ attempt' = [attempt EXCEPT ![id] = 0]
    /\ registered' = registered \cup {id}
    /\ UNCHANGED <<closed, events, ended, answers>>

\* handle_read of the answer to a request that was sent, and Agent::process: an
\* event whether the transaction is registered or not.
HandleRead(id) ==
    /\ id \in started /\ ~closed /\ answers < MaxAnswers
    /\ answers' = answers + 1
    /\ registered' = registered \ {id}
    /\ events' = Append(events, [id |-> id, result |-> "ok"])
    /\ UNCHANGED <<closed, attempt, started, ended>>

\* handle_timeout and Agent::collect, when the deadlines of ids have passed.
HandleTimeout(ids) ==
    /\ ~closed /\ ids # {} /\ ids \subseteq registered
    /\ registered' = registered \ ids
    /\ \E es \in AllEvents(ids, "timeout") : events' = events \o es
    /\ UNCHANGED <<closed, attempt, started, ended, answers>>

\* handle_close and Agent::close.
HandleClose ==
    /\ ~closed
    /\ closed' = TRUE
    /\ registered' = {}
    /\ \E es \in AllEvents(registered, "closed") : events' = events \o es
    /\ UNCHANGED <<attempt, started, ended, answers>>

ReturnedFault(i) ==
    LET e == events[i]
    IN  Known(e.id) /\ (e.result = "ok" \/ attempt[e.id] >= MaxAttempts)

ReturnedTwice(i) ==
    LET e == events[i]
    IN  e.result = "ok" \/ attempt[e.id] >= MaxAttempts \/ closed

\* The test of poll_event that ends its loop with an event: it is an answer, the
\* attempts are used up, or the transaction cannot be started again.
Returned(i) ==
    LET e == events[i]
    IN  Known(e.id) /\ (e.result = "ok" \/ attempt[e.id] >= MaxAttempts \/ closed)

\* The events before the n-th restart their transactions.
Restarted(n) == {events[i].id : i \in {j \in 1 .. n - 1 : Known(events[j].id)}}

\* The loop of poll_event ends at the n-th event, which ends the transactions gone.
Polled(n, gone) ==
    /\ events' = SubSeq(events, n + 1, Len(events))
    /\ attempt' = [id \in Ids |-> IF id \in gone THEN NoTransaction
                                  ELSE IF id \in Restarted(n) THEN attempt[id] + 1
                                  ELSE attempt[id]]
    /\ registered' = registered \cup Restarted(n)
    /\ ended' = [id \in Ids |-> IF id \in gone THEN ended[id] + 1 ELSE ended[id]]

\* poll_event: events of transactions the client does not know are skipped, those
\* of a transaction that may be tried again restart it, and the first other one is
\* returned.
PollEvent ==
    /\ events # <<>>
    /\ \/ \E n \in 1 .. Len(events) :
            /\ Returned(n) /\ \A i \in 1 .. n - 1 : ~Returned(i)
            /\ Polled(n, {events[n].id})
       \/ /\ \A i \in 1 .. Len(events) : ~Returned(i)
          /\ Polled(Len(events) + 1, {})
    /\ UNCHANGED <<closed, started, answers>>

StunNext ==
    \/ \E id \in Ids : HandleWrite(id) \/ HandleRead(id)
    \/ \E ids \in SUBSET registered : HandleTimeout(ids)
    \/ HandleClose \/ PollEvent

StunSpec == StunInit /\ [][StunNext]_stunVars

-----------------------------------------------------------------------------
\* The client as its user sees it.
Service == INSTANCE TransactionService

\* Every transaction ends at most once and only after it was started, whatever
\* timeouts, late and repeated answers are in the queue together (poll_event).
TransactionSpec == Service!Spec

\* A transaction that has not ended is still with the agent, which knows its
\* deadline, or has an event in the queue: none can be forgotten between the two.
Attended ==
    \A id \in {x \in started : ended[x] = 0} :
        Known(id) /\ (id \in registered \/ \E i \in DOMAIN events : events[i].id = id)

\* "Agent handler is guaranteed to be eventually called" (Agent::start): where
\* deadlines are served and the events polled, every transaction ends.
EveryTransactionEnds == \A id \in Ids : id \in started ~> ended[id] # 0
=============================================================================
