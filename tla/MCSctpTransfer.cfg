\* Four messages, at most three losses and an RTO longer than a round trip.  That
\* the invariants also hold when packets are repeated and timers expire at any
\* time is proved.
CONSTANTS
    Messages = 4
    InitCwnd = 2
    BufSize = 4
    MaxT3 = 3
    MaxSacks = 4
    Duplicates = FALSE
    MaxLoss = 3
    Timely = TRUE
SPECIFICATION FairSpec
INVARIANTS
    SacksSound
    NeverStuck
PROPERTIES
    Delivered
CHECK_DEADLOCK FALSE
