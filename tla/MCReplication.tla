---------------------------- MODULE MCReplication ----------------------------
(* Instances of Replication: batches of one or two records. *)
EXTENDS Replication

OneOrTwo == {1, 2}
OneOrThree == {1, 3}
TwoTerms == {1, 2}
OneTerm == {1}

=============================================================================
