SPECIFICATION Spec
CONSTANTS
    MaxPacket = 6
    MaxFlight = 2
    RingSize = 1
    MaxRate = 2
    Window = 3
    Threshold = 3
INVARIANTS
    EntriesKept
PROPERTIES
    BestHolds
CHECK_DEADLOCK FALSE
