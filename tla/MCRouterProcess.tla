-------------------------- MODULE MCRouterProcess ---------------------------
(* Commands of any kind, called at any time; they are alike. *)
EXTENDS RouterProcess, TLC

Symmetry == Permutations(Commands)
=============================================================================
