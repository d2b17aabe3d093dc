CONSTANTS
    Kinds = {"quic", "ssh"}
    MaxUp = 2
    MaxDown = 1
    Cap = 1
SPECIFICATION LiveSpec
INVARIANTS EofIsEnd DialIsReal
PROPERTIES CarriesChannels Delivered FlowEnds
CHECK_DEADLOCK FALSE
