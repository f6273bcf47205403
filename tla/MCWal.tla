-------------------------------- MODULE MCWal --------------------------------
(* Constants of Wal for TLC. *)
EXTENDS Wal

\* One record, or two: with three frames to a segment a batch fits exactly,
\* leaves room, or straddles a rotation at any of its frames.
OneOrTwo == {1, 2}

=============================================================================
