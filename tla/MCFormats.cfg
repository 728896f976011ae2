SPECIFICATION Spec
CONSTANTS
    FormatItems <- MCFormatItems
    FormatLimit <- MCFormatLimit
    Mtus <- MCMtus
    MediaSettings <- MCMedia
    SeqModulus = 4
    TsModulus = 8
    PidModulus = 4
    ShortPids = 2
    SdpNumbers <- MCNumbers
    TimeLimit = 700000
    Urls <- MCUrls
    SdpAlphabet <- MCAlphabet
    SdpLower <- MCLower
INVARIANTS
    RtcpCarried
    NackCover
    RtpCarried
    ObusCarried
    SdpRead
    SdpWritten
    FramesCarried
CHECK_DEADLOCK FALSE
