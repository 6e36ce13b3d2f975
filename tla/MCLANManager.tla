---------------------------- MODULE MCLANManager ----------------------------
(* Two routes, three names, two callers.  Each route may end up under another *)
(* name: the second under the one the first has asked for.                    *)
EXTENDS LANManager, TLC

CONSTANTS r1, r2, n1, n2, n3

MCRequested == (r1 :> n1) @@ (r2 :> n2)
MCAlternatives == (n1 :> <<n1, n3>>) @@ (n2 :> <<n2, n1>>) @@ (n3 :> <<n3>>)

\* The store at the start: nothing shared, or what an earlier router left.
MCInitialShares ==
    {(r1 :> a) @@ (r2 :> b) : a \in {"none", "active", "suspended"}, b \in {"none", "requested"}}

Symmetry == Permutations(Callers)
=============================================================================
