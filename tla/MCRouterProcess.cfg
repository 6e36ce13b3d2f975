SPECIFICATION Spec
CONSTANTS
    Routers = {1, 2, 3}
    Commands = {c1, c2}
    MaxFaults = 1
SYMMETRY Symmetry
INVARIANTS InstanceKept StartsSucceed RemovesAfterStop
PROPERTIES RecordNotErased StopTakesEffect
