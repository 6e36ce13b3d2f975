SPECIFICATION Spec
CONSTANTS
    Runs = {r1, r2}
    Owners = {o1, o2}
    WSLOwners = {w1, w2}
    Hosts = {h1, h2}
    Targets = {t1, t2}
    http = http
    Schemes = {http}
    NoRun = NoRun
    Native = Native
    ReservationTTL = 1
    LeaseTTL = 2
    MaxId = 3
    Variants <- MCVariants
    Batches <- MCBatches
SYMMETRY MCSymmetry
INVARIANT SafetyInv
PROPERTIES HostsHandedOver ActivationWhole AdditionsSpare ShareNotRevived
