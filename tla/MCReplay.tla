------------------------------ MODULE MCReplay ------------------------------
(***************************************************************************)
(* The two replay detectors on small instances: the one of DTLS records    *)
(* with the words that store its window, and the one of SRTP and of SRTCP  *)
(* packets in the streams it protects.  A behaviour is about one of them.  *)
(***************************************************************************)
EXTENDS SlidingWindowWords, SrtpContext, SrtcpContext

VARIABLE part

ReplayInit ==
    /\ part \in {"records", "stream", "control"}
    /\ WordsInit /\ Init /\ ControlInit
    /\ part # "stream" => sequence_number = 0

ReplayNext ==
    \/ part = "records" /\ WordsNext /\ UNCHANGED <<vars, controlVars, part>>
    \/ part = "stream" /\ Next /\ UNCHANGED <<wordVars, controlVars, part>>
    \/ part = "control" /\ ControlNext /\ UNCHANGED <<wordVars, vars, part>>

ReplaySpec == ReplayInit /\ [][ReplayNext]_<<vars, wordVars, controlVars, part>>

\* Of the packets of both kinds, RTP and RTCP, each passes the detector once:
\* fresh ones inside the window always, others only where the code says so.
PacketsOnce == FreshPasses /\ RepeatsOnlyAcrossWrap /\ ControlWindow
=============================================================================
