SPECIFICATION FairSpec
CONSTANTS
    Procs = {p1, p2}
    Routes = {a, b}
    Tables <- MCTables
    Empty = {}
    Updates <- MCUpdates
    Refused <- MCRefused
    Missing <- MCMissing
    Nobody = Nobody
INVARIANTS WriterOwnsTable
PROPERTIES Linearizable CallsReturn LockReleased
