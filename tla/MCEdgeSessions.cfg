SPECIFICATION SessionSpec
CONSTANTS
    Edges = {1, 2, 3, 4, 5}
    Commands = {c1, c2}
    Connections = {k1, k2}
    Helpers = {1, 2}
    Versions = {v1, v2}
    None = None
    MaxFaults = 1
    MaxCalls = 1
    MaxDrops = 1
SYMMETRY MCSymmetry
INVARIANTS   OneHelper
PROPERTIES UninstallRemovesEdge SessionKept
