SPECIFICATION FairSpec
CONSTANTS
    Group = Group
    Single = Single
    h1 = h1
    h2 = h2
    h3 = h3
    t1 = t1
    t2 = t2
    t3 = t3
    o1 = o1
    http = http
    Runs = {Group, Single}
    Owners = {o1}
    WSLOwners = {}
    Hosts = {h1, h2, h3}
    Targets = {t1, t2, t3}
    Schemes = {http}
    NoRun = NoRun
    Native = Native
    ReservationTTL = 1
    LeaseTTL = 3
    MaxId = 4
    MaxMissed = 1
    MaxLate = 2
    MaxStopped = 1
    MaxRuns = 1
    Detected = {Single}
    Services <- MCServices
    Variants <- MCVariants
PROPERTIES  LeftoversExpire
