----------------------------- MODULE BlockingOps -----------------------------
(***************************************************************************)
(* Operations run on the blocking pool by the kqueue and IOCP backends     *)
(* (BlockingJob and BlockingCompletionGuard in driver/ops.rs), on a        *)
(* backend value with the fields                                           *)
(*                                                                         *)
(*   jobs |-> jobs handed to the pool and not yet answered,                *)
(*   done |-> BlockingCompletionQueue, pool |-> the pool accepts work      *)
(*                                                                         *)
(* Jobs are dispatched as mandatory: the pool runs each one or, when it is *)
(* shut down, refuses it.                                                  *)
(***************************************************************************)
EXTENDS Completions

Job(key, o) == [raw |-> key, op |-> o]

\* push_blocking: refused when the pool is shut down.
PushBlocking(b, key, o) ==
  IF b.pool THEN {[ok |-> TRUE, b |-> [b EXCEPT !.jobs = @ \cup {Job(key, o)}]]}
  ELSE {[ok |-> FALSE, b |-> b]}

\* BlockingCompletionGuard::send: exactly one completion per job, its result
\* (EINTR has been retried away), or an error for a job that panicked or was
\* dropped without being run.
SendCompletion(b, job, res) ==
  [b EXCEPT !.jobs = @ \ {job},
            !.done = Append(@, [raw |-> job.raw, op |-> job.op, res |-> res])]

\* Apply one completion to the slot it names, if that is still live; c is what
\* the backend makes of the slot's entry.
ApplyTo(acc, raw, c) ==
  IF Get(acc.b.table, raw) = None THEN acc
  ELSE [acc EXCEPT !.b.table = IF c.remove THEN Remove(@, raw) ELSE Put(@, raw, c.e),
                   !.defer = @ \o c.defer]
=============================================================================
