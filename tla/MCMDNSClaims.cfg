SPECIFICATION FairSpec
CONSTANTS
    Hosts = {1, 2}
    MaxName = 2
    MaxClients = 2
    MaxPrepare = 4
    MaxEvents = 2
INVARIANTS OneOwner
PROPERTIES  AnnouncesPrepared RegisterAnswered DuplicatesResolved
