-------------------------- MODULE MCLinkReconciler --------------------------
(* Instances of LinkReconciler for TLC.                                      *)
EXTENDS LinkReconciler, TLC

CONSTANTS a, b    \* labels of nodes

Symmetry == Permutations(Link) \cup Permutations(Node)
=============================================================================
