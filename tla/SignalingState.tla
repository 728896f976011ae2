--------------------------- MODULE SignalingState ---------------------------
(***************************************************************************)
(* The descriptions of one peer connection, the signalling state that      *)
(* goes with them, and the roles and credentials of its transports.  A     *)
(* peer and a description are the records of Signaling.                    *)
(***************************************************************************)
EXTENDS Integers

None == [type |-> "none"]

\* pending_remote_description if there is one, or the current one.
RemoteDescription(s) == IF s.penRemote # None THEN s.penRemote ELSE s.curRemote

-----------------------------------------------------------------------------
(* set_description.                                                        *)

\* check_next_signaling_state: <<current, operation, type, next>>.
Transitions ==
    {<<"stable", "local", "offer", "haveLocalOffer">>,
     <<"stable", "remote", "offer", "haveRemoteOffer">>,
     <<"haveLocalOffer", "remote", "answer", "stable">>,
     <<"haveLocalOffer", "remote", "pranswer", "haveRemotePranswer">>,
     <<"haveLocalOffer", "local", "offer", "haveLocalOffer">>,
     <<"haveRemotePranswer", "remote", "answer", "stable">>,
     <<"haveRemoteOffer", "local", "answer", "stable">>,
     <<"haveRemoteOffer", "local", "pranswer", "haveLocalPranswer">>,
     <<"haveLocalPranswer", "local", "answer", "stable">>}

NextStates(sig, op, type) ==
    {next \in {t[4] : t \in Transitions} : <<sig, op, type, next>> \in Transitions}

Matches(s, d, op) ==
    op = "local" => d.n = IF d.type = "offer" THEN s.lastOffer ELSE s.lastAnswer

Accepted(s, d, op) == Matches(s, d, op) /\ NextStates(s.sig, op, d.type) # {}

StoreForgets(s, d, op) ==
    CASE d.type = "answer" /\ op = "local" ->
            [s EXCEPT !.curLocal = d, !.penLocal = None, !.penRemote = None]
      [] d.type = "answer" /\ op = "remote" ->
            [s EXCEPT !.curRemote = d, !.curLocal = s.penLocal, !.penLocal = None,
                      !.penRemote = None]
      [] d.type # "answer" /\ op = "local" -> [s EXCEPT !.penLocal = d]
      [] OTHER -> [s EXCEPT !.penRemote = d]

Store(s, d, op) ==
    CASE d.type = "answer" /\ op = "local" ->
            [s EXCEPT !.curLocal = d, !.curRemote = s.penRemote, !.penLocal = None,
                      !.penRemote = None]
      [] d.type = "answer" /\ op = "remote" ->
            [s EXCEPT !.curRemote = d, !.curLocal = s.penLocal, !.penLocal = None,
                      !.penRemote = None]
      [] d.type # "answer" /\ op = "local" -> [s EXCEPT !.penLocal = d]
      [] OTHER -> [s EXCEPT !.penRemote = d]

SetDescription(s, d, op) ==
    [Store(s, d, op) EXCEPT !.sig = CHOOSE x \in NextStates(s.sig, op, d.type) : TRUE]
-----------------------------------------------------------------------------
(* The transports.                                                         *)

\* Agent::restart: new credentials, and those of the other side forgotten.
Restart(s) == [s EXCEPT !.ufrag = @ + 1, !.remote = 0]

\* The setup an answer carries.
ConnectionRole(s, remote) ==
    CASE s.answering = "client" -> "active"
      [] s.answering = "server" -> "passive"
      [] OTHER -> IF remote.lite /\ ~s.lite THEN "passive" ELSE "active"

\* The credentials of a renegotiation.  An agent that has none is not
\* given any, and an agent whose peer's have changed restarts first unless
\* the description is an answer.
HaveRemoteCredentialsChange(s, d) == s.remote \notin {0, d.ufrag}

RenewCredentialsFault(s, d) ==
    IF HaveRemoteCredentialsChange(s, d) /\ d.type # "answer" THEN Restart(s) ELSE s

RenewCredentials(s, d) ==
    IF ~HaveRemoteCredentialsChange(s, d) THEN s
    ELSE IF d.type # "answer" THEN [Restart(s) EXCEPT !.remote = d.ufrag]
    ELSE [s EXCEPT !.remote = d.ufrag]

\* The ICE role and RTCDtlsTransport::role.
IceRole(s, d) ==
    IF (d.type = "answer" /\ d.lite = s.lite) \/ (d.lite /\ ~s.lite)
    THEN "controlling" ELSE "controlled"

DtlsRole(s, d) ==
    CASE d.setup = "active" -> "server"
      [] d.setup = "passive" -> "client"
      [] OTHER -> IF s.answering = "server" THEN "server" ELSE "client"
=============================================================================
