\* Two associations of the accepting endpoint, so that a repeated INIT can create
\* a second one; one retransmission per T1 timer.
CONSTANTS
    Servers = {2, 3}
    Concurrent = 2
    MaxT1Init = 1
    MaxT1Cookie = 1
    AppCalls <- Calls
    MaxClose = 1
SPECIFICATION FairSpec
INVARIANTS
    Agreement
    HandshakeArmed
    ShutdownOrderly
PROPERTIES
    ClientDecided
CHECK_DEADLOCK FALSE
