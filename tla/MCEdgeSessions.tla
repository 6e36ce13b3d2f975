---- MODULE MCEdgeSessions ----
EXTENDS EdgeSessions, TLC
MCSymmetry == Permutations(Commands) \cup Permutations(Connections)
====
