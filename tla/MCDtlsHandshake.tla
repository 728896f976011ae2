-------------------------- MODULE MCDtlsHandshake --------------------------
(* Settings for DtlsHandshake. *)
EXTENDS DtlsHandshake

\* Two certificate holders, one datagram per flight, nobody closes.
Usual ==
  [ records |-> 6, certificate |-> 1, psk |-> FALSE, auth |-> TRUE, cert |-> TRUE,
    losses |-> 0, copies |-> 0, punctual |-> TRUE, writers |-> {}, closers |-> {} ]

\* A network that loses nothing and is faster than the timers, with flights in
\* one datagram or spread over several that overtake each other.
Lossless ==
  { [Usual EXCEPT !.writers = Sides],
    [Usual EXCEPT !.records = 2, !.certificate = 2, !.writers = {"server"}],
    [Usual EXCEPT !.auth = FALSE, !.records = 3],
    [Usual EXCEPT !.psk = TRUE, !.auth = FALSE, !.records = 3] }

\* Losses, copies, closing, a client without a certificate, and timers that run
\* out while datagrams are on their way.
Unreliable ==
  { [Usual EXCEPT !.losses = 1, !.punctual = FALSE],
    [Usual EXCEPT !.losses = 2, !.records = 2, !.certificate = 2, !.writers = {"server"}],
    [Usual EXCEPT !.losses = 1, !.copies = 1, !.writers = Sides, !.closers = Sides],
    [Usual EXCEPT !.psk = TRUE, !.auth = FALSE, !.punctual = FALSE, !.closers = Sides],
    [Usual EXCEPT !.psk = TRUE, !.auth = FALSE, !.copies = 2, !.writers = {"server"}],
    [Usual EXCEPT !.cert = FALSE, !.losses = 1, !.writers = {"server"}] }

All == Lossless \cup Unreliable

OneLoss == {[Usual EXCEPT !.losses = 1]}
=============================================================================
