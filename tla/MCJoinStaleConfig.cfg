SPECIFICATION Spec
CONSTANTS
    l1 = l1
    l2 = l2
    Lobbies <- MCLobbies
    Locked = {}
    None = None
    Unknown = Unknown
    MaxTries = 2
    MaxInbox = 3
INVARIANTS
    ConfigOfThisLobby
CHECK_DEADLOCK FALSE
