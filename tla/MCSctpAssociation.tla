------------------------- MODULE MCSctpAssociation -------------------------
(* The applications of the two endpoints, for model checking. *)
EXTENDS SctpAssociation

\* The connecting side writes, shuts down and closes; the accepting side of the
\* first association shuts down.
Calls == {<<1, "write">>, <<1, "shutdown">>, <<1, "close">>, <<2, "shutdown">>}
=============================================================================
