---------------------------- MODULE MCKubeModule ----------------------------
(* Finite instances of KubeModule for TLC. *)
EXTENDS KubeModule, TLC

Symmetry == Permutations(Runs)
=============================================================================
