----------------------------- MODULE MCStunTurn -----------------------------
(***************************************************************************)
(* The STUN client and the TURN client, each explored alone: kind tells    *)
(* which of the two a behaviour is about.                                  *)
(***************************************************************************)
EXTENDS StunClient, TurnClient

CONSTANTS a, b

VARIABLE kind

MCLimits == {[peers |-> {a}, time |-> 11, nonce |-> 2, lost |-> 1],
             [peers |-> {a}, time |-> 7, nonce |-> 1, lost |-> 3],
             [peers |-> {a, b}, time |-> 1, nonce |-> 2, lost |-> 1]}

vars == <<kind, stunVars, turnVars>>

Init == StunInit /\ TurnInit /\ kind \in {"stun", "turn"}

Next ==
    /\ UNCHANGED kind
    /\ \/ kind = "stun" /\ StunNext /\ UNCHANGED turnVars
       \/ kind = "turn" /\ TurnNext /\ UNCHANGED stunVars

\* The driver polls for events and calls handle_timeout when poll_timeout says.
FairSpec ==
    /\ Init /\ [][Next]_vars
    /\ WF_vars(kind = "stun" /\ PollEvent /\ UNCHANGED <<kind, turnVars>>)
    /\ \A id \in Ids : WF_vars(/\ kind = "stun" /\ id \in registered
                               /\ HandleTimeout({id}) /\ UNCHANGED <<kind, turnVars>>)

\* Nothing a user waits for is forgotten: every open transaction of the STUN
\* client and every call of the TURN client is still being worked on.
NothingForgotten == Attended /\ CallsAnswered
=============================================================================
