---------------------------- MODULE MCDockerStats ----------------------------
(* Finite instances of DockerStats for TLC. *)
EXTENDS DockerStats, TLC
=============================================================================
