----------------------------- MODULE MCFailover -----------------------------
(* Failover on a few nodes. *)
EXTENDS Failover

=============================================================================
