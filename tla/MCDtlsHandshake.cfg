SPECIFICATION FairSpec
CONSTANTS
  Settings <- All
  MaxRetransmit = 1
INVARIANTS
    HandshakeAgrees
    DataDelivered
PROPERTIES
    MovesForward
    Completes
CHECK_DEADLOCK FALSE
