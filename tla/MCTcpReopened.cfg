SPECIFICATION Spec
CONSTANTS
    MaxConns = 2
    QueueSize = 1
    Mixes <- MCReopened
INVARIANTS
    InOrder
CHECK_DEADLOCK FALSE
