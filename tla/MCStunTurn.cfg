SPECIFICATION FairSpec
CONSTANTS
    Ids = {t1, t2}
    MaxAttempts = 2
    MaxAnswers = 2
    a = a
    b = b
    Peers = {a, b}
    MinChannel = 1
    MaxChannel = 2
    NoPeer = NoPeer
    Lifetime = 4
    MaxTransactions = 2
    Limits <- MCLimits
INVARIANTS
    TablesAgree
    NothingForgotten
PROPERTIES
    TransactionSpec
    EveryTransactionEnds
CHECK_DEADLOCK FALSE
