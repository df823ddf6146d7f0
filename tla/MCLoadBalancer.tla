--------------------------- MODULE MCLoadBalancer ---------------------------
(* Finite instances of LoadBalancer for TLC. *)
EXTENDS LoadBalancerProofs, TLC

\* Services differ by name only.
ServiceSymmetry == Permutations(Services)
=============================================================================
