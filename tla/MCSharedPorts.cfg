CONSTANTS
    Ports = {1, 2}
    LocalPorts = {1, 2, 3}
    Mixes <- MCMixes
SPECIFICATION Spec
INVARIANTS
    WindowTellsTruth
    NoCrossTalk
    MembersKeepUp
CHECK_DEADLOCK FALSE
