SPECIFICATION SigSpec
CONSTANTS
    a = a
    b = b
    Peers = {a, b}
    Scenarios <- MCScenarios
    NoMid = 99
INVARIANTS
    ExchangesSettle
    SectionsLineUp
    MediaMatches
    TransportsMatch
CHECK_DEADLOCK FALSE
