--------------------------- MODULE MCDataChannels ---------------------------
(***************************************************************************)
(* Instances of DataChannels: who may create which channels and how many   *)
(* messages each end writes on a channel.                                  *)
(***************************************************************************)
EXTENDS DataChannels

CONSTANTS a, b

Channel(label, type, negotiated) == [label |-> label, type |-> type, negotiated |-> negotiated]

Each(x, y) == [p \in Ends |-> IF p = a THEN x ELSE y]

Case(ca, cb, wa, wb, messages) ==
    [role |-> Each("client", "server"), create |-> Each(ca, cb), writes |-> Each(wa, wb),
     messages |-> messages, burst |-> 2, close |-> Each({}, {}), drain |-> FALSE]

Msg(text, size) == [text |-> text, size |-> size]

Small == {Msg(TRUE, 2)}

MCSetups ==
    {\* two channels from one end, in and out of order
     Case({Channel(1, "reliable", {}), Channel(2, "reliable", {}), Channel(2, "rexmitUnordered", {})},
          {}, 1, 0, Small),
     \* one channel whose messages may overtake one another and the OPEN
     Case({Channel(1, "reliableUnordered", {})}, {}, 2, 1, Small),
     \* a channel from each end at the same time
     Case({Channel(1, "rexmit", {})}, {Channel(1, "reliable", {})}, 1, 0, Small),
     \* a channel both ends agreed on beforehand
     Case({Channel(1, "reliable", {5})}, {Channel(1, "reliable", {5})}, 2, 1, Small),
     \* one end closes the first stream, and may open another
     [Case({Channel(1, "reliable", {}), Channel(2, "reliable", {})}, {}, 1, 0, Small)
        EXCEPT !.close = Each({2}, {}), !.burst = 3],
     \* messages are given up, and the association goes down
     [Case({Channel(1, "timed", {}), Channel(1, "timedUnordered", {})}, {}, 2, 0, Small)
        EXCEPT !.drain = TRUE],
     \* text and binary messages, none, some and too many bytes long
     Case({Channel(1, "reliable", {})}, {}, 1, 0, [text : BOOLEAN, size : {0, 1, 2, 4}])}
=============================================================================
