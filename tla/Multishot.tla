------------------------------ MODULE Multishot ------------------------------
(***************************************************************************)
(* One multishot request in the io_uring backend's operation table         *)
(* (MultishotState in driver/backends/iouring.rs): one submission, many    *)
(* completions, staged in pending until the stream asks for them.  An      *)
(* entry is                                                                *)
(*                                                                         *)
(*   [multi |-> TRUE, op |-> request, st |-> Active | Stopping | Finished  *)
(*    | Cancelled, waker, pending |-> completions, limit |-> their largest *)
(*    number or None, own |-> the payload is kept in the entry]            *)
(*                                                                         *)
(* A completion is [res, id]: id is the resource it carries (an accepted   *)
(* descriptor, a selected buffer) or None.                                 *)
(***************************************************************************)
EXTENDS Completions

MultiEntry(o, limit) ==
  [multi |-> TRUE, op |-> o, st |-> "Active", waker |-> None, pending |-> <<>>,
   limit |-> limit, own |-> FALSE, push |-> FALSE]

Item(res, id) == [res |-> res, id |-> id]
BusyError == Item("busy", None)

\* Fault: only the first of the completions is released.
DiscardFirst(items) ==
  IF items = <<>> \/ items[1].id = None THEN <<>> ELSE <<items[1].id>>

\* MultishotCleanup::discard: the resources a run of completions carries.
Discard(items) ==
  FoldLeft(LAMBDA ids, c : IF c.id # None THEN Append(ids, c.id) ELSE ids,
           <<>>, items)

\* Whether an overflowing request has to be cancelled: not if this was its last.
\* Fault: the kernel is left to go on.
StopsNever(cqe) == FALSE

StopsKernel(cqe) == cqe.more

\* push: one CQE.  Beyond the limit the resource is released at once, the
\* stream gets an error, and the kernel is asked to stop.
MultishotPush(e, cqe) ==
  LET c == Item(cqe.res, cqe.id)
      full == e.limit # None /\ Len(e.pending) >= e.limit
      Out(x, remove, wake, cancel, disc) ==
        [e |-> x, remove |-> remove, wake |-> wake, cancel |-> cancel, disc |-> disc]
      After == IF cqe.more THEN e.st ELSE "Finished"
  IN CASE e.st = "Active" /\ full ->
            Out([e EXCEPT !.pending = Append(@, BusyError), !.waker = None,
                          !.st = IF cqe.more THEN "Stopping" ELSE "Finished"],
                FALSE, e.waker # None, StopsKernel(cqe), Discard(<<c>>))
       [] e.st = "Active" /\ ~full ->
            Out([e EXCEPT !.pending = Append(@, c), !.waker = None, !.st = After],
                FALSE, e.waker # None, FALSE, <<>>)
       [] e.st = "Stopping" ->
            Out([e EXCEPT !.waker = None, !.st = After],
                FALSE, e.waker # None, FALSE, Discard(<<c>>))
       [] e.st = "Cancelled" ->
            Out([e EXCEPT !.pending = IF cqe.more THEN @ ELSE <<>>], ~cqe.more,
                FALSE, FALSE,
                Discard(IF cqe.more THEN <<c>> ELSE <<c>> \o e.pending))
       [] OTHER -> Out(e, FALSE, FALSE, FALSE, <<>>)
=============================================================================
