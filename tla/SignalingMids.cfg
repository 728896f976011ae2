SPECIFICATION SigSpec
CONSTANTS
    a = a
    b = b
    Peers = {a, b}
    Scenarios <- MidsScenario
    NoMid = 99
INVARIANT
    MidsUnique
CHECK_DEADLOCK FALSE
