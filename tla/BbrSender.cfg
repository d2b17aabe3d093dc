SPECIFICATION LiveSpec
CONSTANTS
    MaxFlight = 3
    Sizes = {1, 2}
    MinPackets = 1
    InitPackets = 2
    MaxPackets = 3
    Extra = 1
    StartupRounds = 2
    LossCount = 2
    CycleLength = 3
    RecoveryBound = 7
INVARIANTS
    WindowHolds
PROPERTIES
    ProbeRttEnds
