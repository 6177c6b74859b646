-------------------------- MODULE MCReplicaControl --------------------------
(* A small instance of ReplicaControl. *)
EXTENDS ReplicaControl, TLC

Symmetry == Permutations(Replicas)
=============================================================================
