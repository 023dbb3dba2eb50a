----------------------------- MODULE Completions -----------------------------
(***************************************************************************)
(* What the backends share (driver/ops.rs): the work a backend returns for *)
(* the driver to run once its borrow is released, a wake of the task that  *)
(* waits for an operation or the typed cleanup of a payload whose future is *)
(* gone.  An entry whose payload stayed in its future (own = FALSE) has    *)
(* nothing to clean up.                                                    *)
(***************************************************************************)
EXTENDS OpTable

WakeAction(e) == [do |-> "wake", op |-> e.op, who |-> e.waker]
\* Results: all that matters here is whether the operation produced something
\* (a descriptor, data) that must reach its payload's completion.
Results == {"ok", "err"}

CleanAction(e, res) == [do |-> "clean", op |-> e.op, own |-> e.own, res |-> res]
=============================================================================
