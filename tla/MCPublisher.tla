----------------------------- MODULE MCPublisher -----------------------------
(* Finite instances of Publisher for TLC. *)
EXTENDS Publisher, TLC
=============================================================================
