SPECIFICATION FairSpec
CONSTANTS
    l1 = l1
    l2 = l2
    Lobbies <- MCLobbies
    Locked = {l1}
    None = None
    Unknown = Unknown
    MaxTries = 2
    MaxInbox = 2
INVARIANTS
    AskedOnce
    NothingLeftBehind
    ConnectedIsConsistent
PROPERTIES
    JoinResolves
CHECK_DEADLOCK FALSE
