-------------------------- MODULE MCClusterStatus --------------------------
(* Small instances of the status and of rollouts that are taken back. *)
EXTENDS ClusterStatus
=============================================================================
