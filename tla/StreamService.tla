---------------------------- MODULE StreamService ----------------------------
(***************************************************************************)
(* What one direction of the streams of an SCTP association promises its   *)
(* users, without TSNs, fragments or packets: every message is handed over *)
(* at most once and whole; until the stream is reset ordered messages come *)
(* in the order they were written, none before a reliable one that was     *)
(* written earlier.                                                        *)
(***************************************************************************)
EXTENDS Naturals, Sequences, Functions

CONSTANT Streams

VARIABLES sent,     \* sent[s]: what was written on s, in order: [ordered, reliable]
          got,      \* got[s]: the indexes in sent[s] of the messages handed over
          reset     \* the streams whose reset has been asked for

svars == <<sent, got, reset>>

Init == /\ sent = [s \in Streams |-> <<>>]
        /\ got = [s \in Streams |-> <<>>]
        /\ reset = {}

Send(s) ==
    /\ \E m \in [ordered : BOOLEAN, reliable : BOOLEAN] :
         sent' = [sent EXCEPT ![s] = Append(@, m)]
    /\ UNCHANGED <<got, reset>>

\* An ordered message comes after every ordered message handed over before it,
\* and behind every reliable one that was written before it.
InOrder(s, i) ==
    /\ \A j \in Range(got[s]) : sent[s][j].ordered => j < i
    /\ \A j \in 1 .. i - 1 : sent[s][j].ordered /\ sent[s][j].reliable => j \in Range(got[s])

Receive(s) ==
    /\ \E i \in 1 .. Len(sent[s]) :
         /\ i \notin Range(got[s])
         /\ sent[s][i].ordered /\ s \notin reset => InOrder(s, i)
         /\ got' = [got EXCEPT ![s] = Append(@, i)]
    /\ UNCHANGED <<sent, reset>>

Reset(s) ==
    /\ reset' = reset \cup {s}
    /\ UNCHANGED <<sent, got>>

Next == \E s \in Streams : Send(s) \/ Receive(s) \/ Reset(s)

Spec == Init /\ [][Next]_svars
=============================================================================
