SPECIFICATION FairSpec
CONSTANTS
    p1 = p1
    Peers = {p1}
    Friends = {p1}
    Visibilities = {"public", "friends"}
    MaxQueued = 1
INVARIANTS
    KickedStayOut
    MembersAreServed
    NothingOutlivesSession
PROPERTIES
    AccessEarned
    AbsentLoseAccess
