-------------------------- MODULE TransactionService --------------------------
(***************************************************************************)
(* What a STUN client promises: a transaction that was started ends once,  *)
(* with an answer or with an error.                                        *)
(***************************************************************************)
EXTENDS Naturals

CONSTANT Ids

VARIABLES started,   \* the transactions started
          ended      \* ended[id]: how often id has ended

tvars == <<started, ended>>

Init == started = {} /\ ended = [id \in Ids |-> 0]

Start(id) == id \notin started /\ started' = started \cup {id} /\ UNCHANGED ended

End(id) == /\ id \in started /\ ended[id] = 0
           /\ ended' = [ended EXCEPT ![id] = 1]
           /\ UNCHANGED started

Next == \E id \in Ids : Start(id) \/ End(id)

Spec == Init /\ [][Next]_tvars
=============================================================================
