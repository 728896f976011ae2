SPECIFICATION ReplaySpec
CONSTANTS
    WORD = 2
    WindowSize = 6
    MaxSeq = 8
    max_seq = 15
    window_size = 4
    MAX_ROC_DISORDER = 5
    Cycles = 2
    MaxLag = 7
    MaxGap = 7
    Damage = TRUE
    ControlPackets = 34
    ControlGap = 6
    ControlLag = 5
INVARIANTS
    DetectorSound
    WordsAgree
    RolloverExact
    PacketsOnce
CHECK_DEADLOCK FALSE
