SPECIFICATION FairSpec
CONSTANTS
    Ports = {42805}
    MaxSessions = 2
    Mixes <- MCMixes
INVARIANTS
    NoLateNews
    ExactPorts
PROPERTIES
    HelperStopsWithSession
CHECK_DEADLOCK FALSE
