--------------------------- MODULE MCBlockingPool ---------------------------
(* BlockingPool for TLC.  Liveness is checked in the same run as safety, so *)
(* worker threads, though interchangeable, are not declared symmetric.      *)
EXTENDS BlockingPool
=============================================================================
