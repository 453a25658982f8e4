SPECIFICATION Spec
CONSTANTS
    MaxConns = 2
    QueueSize = 1
    Mixes <- MCStreams
INVARIANTS
    StreamsStayApart
CHECK_DEADLOCK FALSE
