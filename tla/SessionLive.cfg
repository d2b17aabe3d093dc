SPECIFICATION FairSpec
CONSTANTS
    Addrs = {"planned", "other"}
    PlanAddr = "planned"
    Matching = {"planned"}
    Kinds = {"ssh", "quic"}
    Modes = {"unit", "foreground"}
    Resolved = TRUE
    Windows = {0, 2}
    Backoff <- MCBackoff
    MaxAttempts = 6
    Slack = 1
    MaxGen = 2
    MaxRuns = 1
PROPERTIES
    SignalEnds
    LossResolves
CHECK_DEADLOCK FALSE
