---------------------------- MODULE MCSctpStreams ----------------------------
(***************************************************************************)
(* The configurations of SctpStreams that are model-checked.               *)
(***************************************************************************)
EXTENDS SctpStreams

Set(unordered, type, value) ==
    [unordered |-> unordered, type |-> type, value |-> value, dcep |-> FALSE, ends |-> {}]
Announced(set) == [set EXCEPT !.dcep = TRUE]
Ended(set, how) == [set EXCEPT !.ends = how]

Use(settings, messages, pieces, times) ==
    [stream |-> settings, writes |-> messages, frags |-> pieces, opens |-> times, retrans |-> 0]

Reliable == Set(FALSE, "Reliable", 0)

MCConfigs ==
    \* sequence numbers wrap
    {Use(<<Ended(Reliable, {"finish"})>>, 6, 1, 1),
    \* fragments of ordered and unordered messages
     Use(<<Announced(Set(TRUE, "Reliable", 0))>>, 2, 3, 1),
     Use(<<Set(FALSE, "Rexmit", 1)>>, 2, 2, 1),
     Use(<<Set(FALSE, "Timed", 0)>>, 3, 1, 1),
     Use(<<Announced(Set(TRUE, "Rexmit", 2))>>, 2, 2, 1),
    \* two streams
     Use(<<Set(FALSE, "Rexmit", 1), Set(TRUE, "Timed", 0)>>, 2, 1, 2),
    \* resets, and a stream opened again after one
     Use(<<Ended(Reliable, {"stop"})>>, 2, 1, 2),
     Use(<<Ended(Reliable, {"stopB"})>>, 2, 1, 2),
    \* both sides stop; requests are repeated until the timer is given up
     [Use(<<Ended(Reliable, {"stop", "stopB"})>>, 1, 1, 2) EXCEPT !.retrans = 1]}
=============================================================================
