---------------------------- MODULE MCRingBuffer ----------------------------
(* RingBuffer for TLC; the configurations give the producers as model values. *)
EXTENDS RingBuffer

CONSTANTS p1, p2

=============================================================================
