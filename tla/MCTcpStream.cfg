SPECIFICATION FairSpec
CONSTANTS
    MaxConns = 1
    QueueSize = 2
    Mixes <- MCStream
INVARIANTS
    InOrder
    DrainedIsComplete
PROPERTIES
    CloseReachesOther
    EveryConnectionAnswered
CHECK_DEADLOCK FALSE
