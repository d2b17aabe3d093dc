CONSTANTS
    Lanes = {l1}
    Commands = {"run", "doctor", "bench"}
    Modes = {"auto", "quic", "ssh"}
SPECIFICATION LiveSpec
INVARIANTS TypeOK LaneFindsFile UnlinkIsKnown CleanRemote DialIsServed StoppedIsDead
PROPERTIES HelpersEnd ListenerReleased
CHECK_DEADLOCK FALSE
