SPECIFICATION LiveSpec
CONSTANTS
    UdpKeys = {u1}
    EchoKeys = {e1}
    Sources = {s1}
    Kinds = {"quic", "ssh"}
    Sockets = {"raw", "ping", "none"}
    Idents = {i1, i2}
    MaxFlows = 2
    MaxRequests = 2
    QueueLen = 1
INVARIANTS AnswerIsMine
PROPERTIES  FlowsEnd
CHECK_DEADLOCK FALSE
