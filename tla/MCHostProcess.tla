----------------------------- MODULE MCHostProcess -----------------------------
(* The process with its two goroutines that call the supervisor. *)
EXTENDS HostProcess

MCProcs == {"main", "worker"}
=============================================================================
