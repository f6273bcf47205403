---------------------------- MODULE MCCheckpoint -----------------------------
(* Constants of Checkpoint for TLC. *)
EXTENDS Checkpoint

=============================================================================
