SPECIFICATION FairSpec
CONSTANTS
    c1 = c1
    c2 = c2
    Clients = {c1, c2}
    MaxStarts = 2
    MaxMessages = 2
    MaxRemovals = 1
    Window = 1
    Mixes <- MCMixes
INVARIANTS
    HeardOnce
    ReadyIsShared
    NoneLostOnceReady
PROPERTIES
    ChatComesUp
CHECK_DEADLOCK FALSE
