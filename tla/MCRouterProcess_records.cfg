SPECIFICATION Spec
CONSTANTS
    Routers = {1, 2, 3}
    Commands = {c1, c2}
    MaxFaults = 0
SYMMETRY Symmetry
INVARIANTS RecordNames
