----------------------------- MODULE MCHalfLock -----------------------------
(* HalfLock for TLC.  Liveness is checked in the same run, so no symmetry. *)
EXTENDS HalfLock
=============================================================================
