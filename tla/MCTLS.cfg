SPECIFICATION Spec
CONSTANTS
    Setups = {s1, s2, s3}
    Renewals = {s1}
    MaxCA = 3
    MaxTime = 2
    CALife = 6
    RenewBefore = 2
    MaxFaults = 2
    Hosts = {h1, h2}
    HTTPSHosts = {h2}
    Localhost = localhost
    Clients = {c1, c2}
    MaxRoute = 2
    Capacity = 1
    CacheTTL = 1
    LeafLife = 2
    Refs = {r1}
    Names = {n1, n2}
    Visitors = {v1}
    MaxToken = 2
    LANLeafLife = 2
    RotateBefore = 1
SYMMETRY MCSymmetry
INVARIANTS FlightShared RequestsBounded StaleNoticed 
PROPERTIES SetupRepairs HandshakeSound LANHandshakeSound
CHECK_DEADLOCK FALSE
