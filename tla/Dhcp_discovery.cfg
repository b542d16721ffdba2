SPECIFICATION Spec
CONSTANTS
    Ip = {ip1, ip2}
    NoIp = NoIp
    Attempts = 2
    MaxXid = 4
    T1 = 2
    T2 = 3
    Lease = 4
    Pause = 1
INVARIANTS
    LeaseIsTheOneRequested
    RequestNamesTheOffer
PROPERTIES
    DiscoveryReturns
    ExpiryFallsBack
CHECK_DEADLOCK FALSE
