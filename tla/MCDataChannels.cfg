SPECIFICATION DcSpec
CONSTANTS
    a = a
    b = b
    Ends = {a, b}
    MaxChannels = 6
    MaxMessageSize = 3
    Setups <- MCSetups
INVARIANTS
    MessagesKept
    ChannelsAgree
PROPERTIES
    ChannelsServe
CHECK_DEADLOCK FALSE
