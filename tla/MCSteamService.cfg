SPECIFICATION ServiceFairSpec
CONSTANTS
    c1 = c1
    c2 = c2
    c3 = c3
    l1 = l1
    l2 = l2
    None = None
    Calls <- MCCalls
    Lobbies <- MCLobbies
    Mixes <- MCMixes
INVARIANTS
    CompletionNotLost
    AtMostOneAnswer
    CacheFresh
PROPERTIES
    CompletedIsAnswered
    ImplementsPromise
    FriendsConverge
    BrowserConverges
    LaunchServed
CHECK_DEADLOCK FALSE
