---------------------------- MODULE MCRouteStore ----------------------------
(* RouteStore with small sets for TLC. *)
EXTENDS RouteStore, FiniteSets, TLC

CONSTANT http

\* A candidate that lets every field that no run varies take its only value.
MCCandidates(wsls, lans, reuses) ==
    [host : Hosts, owner : Owners, wsl : wsls, target : Targets,
     scheme : Schemes, lan : lans, reuse : reuses]

MCPairs(set) == {<<c, d>> : c, d \in set}

\* Runs of two projects, alone or in groups of two, reusing a route or not.
MCNativeBatches ==
    {<<c>> : c \in {d \in MCCandidates({Native}, {FALSE}, 0 .. 2) : d.scheme = http}}
        \cup MCPairs({c \in MCCandidates({Native}, {FALSE}, {NoId}) : c.scheme = http})

\* Runs of one project in two WSL distributions.
MCWSLBatches(owner) ==
    LET set == {c \in MCCandidates(WSLOwners, {FALSE}, {NoId}) :
                    c.scheme = http /\ c.owner = owner}
    IN  {<<c>> : c \in set} \cup MCPairs(set)

\* Runs of one project that ask for a share, of a new route or of one they
\* reuse, perhaps with another scheme.
MCShareBatches(owner, host) ==
    {<<c>> : c \in {d \in MCCandidates({Native}, {TRUE}, 0 .. 2) :
                        d.owner = owner /\ d.host = host}}

MCBatches ==
    LET owner == CHOOSE o \in Owners : TRUE
        host == CHOOSE h \in Hosts : TRUE
    IN  MCNativeBatches \cup MCWSLBatches(owner) \cup MCShareBatches(owner, host)

\* A taken name leads to the next host: each project tries its own name first
\* and then the others.
MCVariants ==
    [p \in Hosts \X Owners |->
        <<p[1]>> \o (CHOOSE q \in [1 .. Cardinality(Hosts \ {p[1]}) -> Hosts \ {p[1]}] :
                        \A i, j \in DOMAIN q : i # j => q[i] # q[j])]

MCSymmetry == Permutations(Runs) \cup Permutations(Targets)

=============================================================================
