------------------------------- MODULE MCTask -------------------------------
(* Task for TLC: a local task with two wakers, or a blocking-pool task.      *)
(* Liveness is checked in the same run as safety, so no symmetry.            *)
EXTENDS Task
=============================================================================
