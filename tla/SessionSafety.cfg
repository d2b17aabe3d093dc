SPECIFICATION Spec
CONSTANTS
    Addrs = {"planned", "same", "other"}
    PlanAddr = "planned"
    Matching = {"planned", "same"}
    Kinds = {"ssh", "quic"}
    Modes = {"unit", "foreground"}
    Resolved = FALSE
    Windows = {0, 4}
    Backoff <- MCBackoff
    MaxAttempts = 6
    Slack = 1
    MaxGen = 2
    MaxRuns = 2
INVARIANTS
    TypeOK
    UpIsComplete
    CurrentTransportOnly
    NoDNSWithoutTransport
    BlockedStopHarmless
    AttemptsPaced
    CleanupReverts
PROPERTIES
    LossIsReal
    Implements
CHECK_DEADLOCK FALSE
