SPECIFICATION Spec
CONSTANTS
    r1 = r1
    r2 = r2
    n1 = n1
    n2 = n2
    n3 = n3
    Refs = {r1, r2}
    Names = {n1, n2, n3}
    Requested <- MCRequested
    Alternatives <- MCAlternatives
    InitialShares <- MCInitialShares
    Callers = {c1, c2}
    Startup = Startup
    Monitor = Monitor
    NoRef = NoRef
    NoName = NoName
    MaxNet = 2
    MaxHandle = 4
    MaxEvents = 3
    MaxOverlapping = 0
PROPERTIES RenewalRecovers
