----------------------------- MODULE MCIceAgent -----------------------------
(***************************************************************************)
(* Surroundings of the two agents for TLC.                                 *)
(***************************************************************************)
EXTENDS IceAgent

\* The controlled agent has two addresses: there is a pair to choose.  Only the
\* controlling agent, which chooses, is given candidates late.
Choice == [addresses |-> <<<<"a">>, <<"b", "c">>>>, generations |-> 1,
           trickling |-> {Controlling}, failing |-> {}, closing |-> {}, lite |-> {}]

\* One address each, and each agent may be restarted.
Restarts == [addresses |-> <<<<"a">>, <<"b">>>>, generations |-> 2,
             trickling |-> Agents, failing |-> {}, closing |-> {}, lite |-> {}]

\* The connection may fail at the controlling agent, before or after a restart.
Failures == [Restarts EXCEPT !.trickling = {Controlling}, !.failing = {Controlling}]

\* It may fail at the controlled agent, and the other one may be closed.
Closures == [Restarts EXCEPT !.generations = 1, !.failing = {Controlled}, !.closing = {Controlling}]

\* The controlled agent is lite.
LiteAgent == [Restarts EXCEPT !.generations = 1, !.lite = {Controlled}]

MCSettings == {Choice, Restarts, Failures, Closures, LiteAgent}
=============================================================================
