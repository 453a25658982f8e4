CONSTANTS
    a = a
    b = b
    Programs = {a, b}
    Nobody = Nobody
    MaxUdp = 1
    MaxPartial = 1
    MaxFragments = 3
    MaxSends = 3
    Loads <- MCLoads
    Timeout = 1
    Pings = {1}
    Changes <- MCChanges
SPECIFICATION Spec
INVARIANTS
    DeliveredAsSent
    UdpTablesAgree
PROPERTIES
    HealthIsShown
CHECK_DEADLOCK FALSE
