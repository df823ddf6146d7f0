----------------------------- MODULE MCReceiver -----------------------------
(* Finite instances of Receiver for TLC. *)
EXTENDS Receiver, TLC
=============================================================================
