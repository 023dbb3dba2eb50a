-------------------------------- MODULE Uring --------------------------------
(***************************************************************************)
(* The io_uring backend (driver/backends/iouring.rs) as operators on a     *)
(* value of the backend                                                    *)
(*                                                                         *)
(*   [table |-> operation table, sq |-> submission queue,                  *)
(*    run |-> requests the kernel holds, cq |-> completion queue,          *)
(*    armed |-> wakeup_read_armed, shut |-> shutting_down,                 *)
(*    failed |-> io_uring_enter has failed]                                *)
(*                                                                         *)
(* A call that the kernel can answer in several ways (submission may       *)
(* succeed, find the completion queue overflowing, or fail) is the set of  *)
(* its outcomes.  An outcome lists the deferred actions the call returns   *)
(* (defer), those it ran itself (ran) or lost with an error (lost), and    *)
(* the resources it discarded (disc).                                      *)
(***************************************************************************)
EXTENDS Multishot

CONSTANTS SqCapacity,    \* entries of the submission queue
          SubmitFails    \* whether io_uring_enter may return an error

ASSUME SqAssumption == SqCapacity \in Nat \ {0} /\ SubmitFails \in BOOLEAN

-----------------------------------------------------------------------------
(* OneshotState: Submitted, Waiting(waker), Completed(result),             *)
(* Detached(payload) and Canceling, whose observer is part of the name.    *)

OneshotStates == {"Submitted", "Waiting", "Completed", "Detached",
                  "CancelPending", "CancelWaiting", "CancelDetached"}
OneshotEntries(ops, tasks) ==
  [multi : {FALSE}, op : ops, st : OneshotStates, waker : tasks \cup {None},
   res : Results \cup {None}, own : BOOLEAN, push : BOOLEAN]

Oneshot(o) ==
  [multi |-> FALSE, op |-> o, st |-> "Submitted", waker |-> None, res |-> None,
   own |-> FALSE, push |-> FALSE]

\* Fault: a cancelled operation completes without waking its task.
OneshotCompleteSilently(e, res) ==
  IF e.st \in {"Detached", "CancelDetached"}
  THEN [e |-> e, remove |-> TRUE, defer |-> <<CleanAction(e, res)>>]
  ELSE [e |-> [e EXCEPT !.st = "Completed", !.res = res, !.waker = None, !.push = FALSE],
        remove |-> FALSE,
        defer |-> IF e.st = "Waiting" THEN <<WakeAction(e)>> ELSE <<>>]

\* Fault: a detached operation is cleaned up and keeps its slot.
OneshotCompleteKept(e, res) ==
  IF e.st \in {"Detached", "CancelDetached"}
  THEN [e |-> e, remove |-> FALSE, defer |-> <<CleanAction(e, res)>>]
  ELSE [e |-> [e EXCEPT !.st = "Completed", !.res = res, !.waker = None, !.push = FALSE],
        remove |-> FALSE,
        defer |-> IF e.waker # None THEN <<WakeAction(e)>> ELSE <<>>]

\* complete: a terminal CQE.
OneshotComplete(e, res) ==
  CASE e.st \in {"Submitted", "CancelPending"} ->
         [e |-> [e EXCEPT !.st = "Completed", !.res = res, !.push = FALSE],
          remove |-> FALSE, defer |-> <<>>]
    [] e.st \in {"Waiting", "CancelWaiting"} ->
         [e |-> [e EXCEPT !.st = "Completed", !.res = res, !.waker = None, !.push = FALSE],
          remove |-> FALSE, defer |-> <<WakeAction(e)>>]
    [] e.st \in {"Detached", "CancelDetached"} ->
         [e |-> e, remove |-> TRUE, defer |-> <<CleanAction(e, res)>>]
    [] OTHER -> [e |-> e, remove |-> FALSE, defer |-> <<>>]

\* request_cancel: the state that waits for the target's completion, with
\* the AsyncCancel still to be pushed, and whether to push one now.
Canceling(st) ==
  CASE st = "Submitted" -> "CancelPending"
    [] st = "Waiting" -> "CancelWaiting"
    [] st = "Detached" -> "CancelDetached"
    [] OTHER -> st

RequestCancel(e) ==
  IF e.st \in {"Submitted", "Waiting", "Detached"}
  THEN [e EXCEPT !.st = Canceling(e.st), !.push = TRUE] ELSE e

CancelInFlight(e) == [e EXCEPT !.push = FALSE]

-----------------------------------------------------------------------------
(* The ring *)

OpSqe(key, e) == [do |-> "op", raw |-> key, op |-> e.op, multi |-> e.multi]
CancelSqe(raw, e) == [do |-> "cancel", raw |-> raw, op |-> e.op]
WakeSqe == [do |-> "op", raw |-> WakeRaw, op |-> None, multi |-> FALSE]

\* The kernel takes the queued entries in order; an AsyncCancel marks the
\* request it names, if the kernel still holds it.
Consume(run, sqe) ==
  IF sqe.do = "op"
  THEN run \cup {[raw |-> sqe.raw, op |-> sqe.op, multi |-> sqe.multi,
                  cancel |-> FALSE]}
  ELSE {IF r.raw = sqe.raw THEN [r EXCEPT !.cancel = TRUE] ELSE r : r \in run}

Flush(b) == [b EXCEPT !.sq = <<>>, !.run = FoldLeft(Consume, b.run, b.sq)]

Queue(b, sqe) == [b EXCEPT !.sq = Append(@, sqe)]

\* io_uring_enter fails; one failure per behaviour is enough to reach every
\* error path.
SubmitError(b) ==
  IF SubmitFails /\ ~b.failed
  THEN {[ok |-> FALSE, b |-> [b EXCEPT !.failed = TRUE]]} ELSE {}

\* A push with the completion queue in order: a full queue is submitted
\* first, which may fail.
PushOnce(b, sqe) ==
  IF Len(b.sq) < SqCapacity THEN {[ok |-> TRUE, b |-> Queue(b, sqe)]}
  ELSE {[ok |-> TRUE, b |-> Queue(Flush(b), sqe)]} \cup SubmitError(b)

\* The pushes of the entries one after another.  With stop, the first that
\* fails ends the sequence; without, it leaves its entry marked for a retry.
PushCancel(outs, key, stop) ==
  UNION {IF stop /\ ~x.ok THEN {x}
         ELSE {LET e == Get(p.b.table, key) IN
               IF p.ok /\ e # None /\ ~e.multi
               THEN [p EXCEPT !.b.table = Put(@, key, CancelInFlight(e))]
               ELSE IF stop THEN p ELSE [p EXCEPT !.ok = TRUE]
               : p \in PushOnce(x.b, CancelSqe(key, Get(x.b.table, key)))}
         : x \in outs}

PushSeq(b, keys, stop) ==
  FoldLeft(LAMBDA outs, key : PushCancel(outs, key, stop), {[ok |-> TRUE, b |-> b]}, keys)

-----------------------------------------------------------------------------
(* dispatch_completions *)

\* Whether the eventfd is read again once a wakeup was consumed.
\* Fault: shutdown is not looked at.
RearmsAlways(b) == TRUE

RearmsWakeup(b) == ~b.shut

ApplyCqe(acc, cqe) ==
  LET b == acc.b
      e == Get(b.table, cqe.raw)
      m == MultishotPush(e, cqe)
      c == OneshotComplete(e, cqe.res)
      Entry(t, x, remove) ==
        IF remove THEN Remove(Put(t, cqe.raw, x), cqe.raw) ELSE Put(t, cqe.raw, x)
  IN CASE Decode(cqe.raw) = "Wake" ->
            [acc EXCEPT !.b.armed = FALSE, !.rearm = RearmsWakeup(b)]
       [] Decode(cqe.raw) = "Operation" /\ e # None /\ e.multi ->
            [acc EXCEPT !.b.table = Entry(@, m.e, m.remove),
                        !.disc = @ \o m.disc,
                        !.cancel = IF m.cancel THEN Append(@, cqe.raw) ELSE @,
                        !.defer = IF m.wake THEN Append(@, WakeAction(e)) ELSE @]
       [] Decode(cqe.raw) = "Operation" /\ e # None /\ ~e.multi ->
            [acc EXCEPT !.b.table = Entry(@, c.e, c.remove),
                        !.defer = @ \o c.defer]
       [] OTHER -> acc

NeedCancelPush(t) == {k \in LiveKeys(t) : ~Get(t, k).multi /\ Get(t, k).push}

\* The whole batch; then the cancellations it asks for, the retries of those
\* that could not be pushed before, and the wakeup read.  A failure of the
\* first or the last loses the collected actions with the error.
Dispatch(b) ==
  LET a == FoldLeft(ApplyCqe,
             [b |-> [b EXCEPT !.cq = <<>>], defer |-> <<>>, disc |-> <<>>,
              cancel |-> <<>>, rearm |-> FALSE], b.cq)
      Done(ok, b2) == [ok |-> ok, b |-> b2, disc |-> a.disc,
                       defer |-> IF ok THEN a.defer ELSE <<>>,
                       lost |-> IF ok THEN <<>> ELSE a.defer]
      Retry(b2) == PushSeq(b2, InSlotOrder(b2.table, NeedCancelPush(b2.table)), FALSE)
      Rearm(b2) == IF a.rearm
                   THEN {Done(p.ok, [p.b EXCEPT !.armed = p.ok])
                           : p \in PushOnce(b2, WakeSqe)}
                   ELSE {Done(TRUE, b2)}
  IN UNION {IF c.ok THEN UNION {Rearm(r.b) : r \in Retry(c.b)}
            ELSE {Done(FALSE, c.b)}
            : c \in PushSeq(a.b, a.cancel, TRUE)}

\* submit finds the completion queue overflowing (EBUSY): the completions
\* are dispatched, and their actions run, inside the call.
Push(b, sqe) ==
  LET Out(p, d) == [ok |-> p.ok, b |-> p.b, ran |-> d.defer, lost |-> d.lost,
                    disc |-> d.disc]
      Quiet == [defer |-> <<>>, lost |-> <<>>, disc |-> <<>>]
  IN {Out(p, Quiet) : p \in PushOnce(b, sqe)}
     \cup (IF Len(b.sq) < SqCapacity \/ b.cq = <<>> THEN {}
           ELSE UNION {IF d.ok THEN {Out(p, d) : p \in PushOnce(d.b, sqe)}
                       ELSE {Out(d, d)}
                       : d \in Dispatch(b)})

-----------------------------------------------------------------------------
(* The calls of the driver.  An outcome of a submission has key 0 when it  *)
(* was refused and the payload went back to the caller.                    *)

UringInit == [table |-> NewTable, sq |-> <<WakeSqe>>, run |-> {}, cq |-> <<>>,
              armed |-> TRUE, shut |-> FALSE, failed |-> FALSE]

Refused(b) == [key |-> 0, b |-> b, ran |-> <<>>, lost |-> <<>>, disc |-> <<>>]

\* submit_op and submit_multi_op: the slot is taken first and given back when
\* the entry cannot be queued.
USubmit(b, e) ==
  LET key == NextKey(b.table)
      b1  == [b EXCEPT !.table = Insert(@, e)]
  IN IF b.shut \/ ~CanInsert(b.table) THEN {Refused(b)}
     ELSE {[key |-> IF p.ok THEN key ELSE 0, ran |-> p.ran, lost |-> p.lost,
            disc |-> p.disc,
            b |-> IF p.ok THEN p.b ELSE [p.b EXCEPT !.table = Remove(@, key)]]
             : p \in Push(b1, OpSqe(key, e))}

\* cancel_op: a stale key, a finished and an already cancelled operation are
\* left alone; a push that fails is retried by the next dispatch.
UCancelOp(b, key) ==
  LET e == Get(b.table, key)
      b1 == IF e = None \/ e.multi THEN b
            ELSE [b EXCEPT !.table = Put(@, key, RequestCancel(e))]
      wanted == e # None /\ IF e.multi THEN e.st \in {"Active", "Stopping"}
                            ELSE RequestCancel(e).push
      Mark(t) == LET x == Get(t, key) IN
                 IF x = None \/ x.multi THEN t ELSE Put(t, key, CancelInFlight(x))
  IN IF ~wanted THEN {[b |-> b, ran |-> <<>>, lost |-> <<>>, disc |-> <<>>]}
     ELSE {[b |-> IF p.ok THEN [p.b EXCEPT !.table = Mark(@)] ELSE p.b,
            ran |-> p.ran, lost |-> p.lost, disc |-> p.disc] : p \in Push(b1, CancelSqe(key, e))}

\* Fault: the slot goes with the future, whatever the kernel does.
URemoveOpAtOnce(b, key) ==
  LET e == Get(b.table, key) IN
  [b |-> IF e = None THEN b ELSE [b EXCEPT !.table = Remove(@, key)],
   out |-> IF e # None /\ e.st = "Completed" THEN e.res ELSE None, kept |-> FALSE]

\* Fault: a completion nobody has read is dropped with its slot.
URemoveOpUnread(b, key) ==
  LET e == Get(b.table, key) IN
  IF e = None THEN [b |-> b, out |-> None, kept |-> FALSE]
  ELSE IF e.st = "Completed"
  THEN [b |-> [b EXCEPT !.table = Remove(@, key)], out |-> None, kept |-> FALSE]
  ELSE [b |-> [b EXCEPT !.table = Put(@, key,
                 [e EXCEPT !.own = TRUE, !.waker = None,
                           !.st = IF @ \in {"Submitted", "Waiting"}
                                  THEN "Detached" ELSE "CancelDetached"])],
        out |-> None, kept |-> TRUE]

\* remove_op: the future is going.  An operation in flight keeps its payload
\* in the slot; a completion nobody has read is handed back.
URemoveOp(b, key) ==
  LET e == Get(b.table, key)
      Keep(st) == [e EXCEPT !.st = st, !.own = TRUE, !.waker = None]
  IN IF e = None THEN [b |-> b, out |-> None, kept |-> FALSE]
     ELSE IF e.st = "Completed"
     THEN [b |-> [b EXCEPT !.table = Remove(@, key)], out |-> e.res, kept |-> FALSE]
     ELSE [b |-> [b EXCEPT !.table = Put(@, key,
                    Keep(IF e.st \in {"Submitted", "Waiting"}
                         THEN "Detached" ELSE "CancelDetached"))],
           out |-> None, kept |-> TRUE]

\* poll_op: register the newest waker, or take the result and free the slot.
UPollOp(b, key, waker) ==
  LET e == Get(b.table, key) IN
  IF e.st = "Completed"
  THEN [b |-> [b EXCEPT !.table = Remove(@, key)], out |-> e.res]
  ELSE [b |-> [b EXCEPT !.table = Put(@, key,
                 [e EXCEPT !.waker = waker,
                           !.st = IF @ = "Submitted" THEN "Waiting"
                                  ELSE IF @ = "CancelPending" THEN "CancelWaiting"
                                  ELSE @])],
        out |-> None]

\* Fault: the poll forgets to leave its waker.
StoreNoWaker(e, waker) == e

StoreWaker(e, waker) == [e EXCEPT !.waker = waker]

\* poll_multi_op: the next staged completion, the end of the stream, or None
\* with the waker stored.
EndOfStream == Item("end", None)

UPollMulti(b, key, waker) ==
  LET e == Get(b.table, key) IN
  IF e.st = "Cancelled" THEN [b |-> b, out |-> EndOfStream]
  ELSE IF e.pending # <<>>
  THEN [b |-> [b EXCEPT !.table = Put(@, key, [e EXCEPT !.pending = Tail(@)])],
        out |-> Head(e.pending)]
  ELSE IF e.st = "Finished"
  THEN [b |-> [b EXCEPT !.table = Remove(@, key)], out |-> EndOfStream]
  ELSE [b |-> [b EXCEPT !.table = Put(@, key, StoreWaker(e, waker))],
        out |-> None]

\* remove_multi_op: what is staged is discarded; a request still armed keeps
\* its payload in the slot and is cancelled.
URemoveMulti(b, key) ==
  LET e == Get(b.table, key)
      gone == [e EXCEPT !.st = "Cancelled", !.pending = <<>>, !.waker = None,
                        !.own = TRUE]
      Out(b2, ran, lost, disc, kept) ==
        [b |-> b2, ran |-> ran, lost |-> lost, disc |-> disc, kept |-> kept]
  IN CASE e = None -> {Out(b, <<>>, <<>>, <<>>, FALSE)}
       [] e # None /\ e.st = "Finished" ->
            {Out([b EXCEPT !.table = Remove(@, key)], <<>>, <<>>,
                 Discard(e.pending), FALSE)}
       [] e # None /\ e.st = "Cancelled" ->
            {Out([b EXCEPT !.table = Put(@, key, gone)], <<>>, <<>>,
                 Discard(e.pending), TRUE)}
       [] OTHER ->
            {Out(p.b, p.ran, p.lost, Discard(e.pending) \o p.disc, TRUE)
               : p \in Push([b EXCEPT !.table = Put(@, key, gone)], CancelSqe(key, e))}

-----------------------------------------------------------------------------
(* shutdown *)

\* What the first pass makes of an entry: an operation whose future still
\* lives keeps its payload there and leaves an empty one to be drained.
DetachEntry(e) ==
  IF e.multi
  THEN IF e.st = "Finished" THEN [Oneshot(e.op) EXCEPT !.st = "Completed", !.res = "ok"]
       ELSE [e EXCEPT !.st = "Cancelled", !.pending = <<>>, !.waker = None]
  ELSE CASE e.st \in {"Submitted", "Waiting"} -> [e EXCEPT !.st = "Detached", !.waker = None]
         [] e.st \in {"CancelPending", "CancelWaiting"} ->
              [e EXCEPT !.st = "CancelDetached", !.waker = None]
         [] OTHER -> e

DetachAll(t) ==
  [t EXCEPT !.entries = [s \in Slots |->
     IF t.entries[s].occupied /\ t.entries[s].value # None
     THEN Occupied(DetachEntry(t.entries[s].value)) ELSE t.entries[s]]]

StagedItems(t) ==
  FoldLeft(LAMBDA ids, k : ids \o Discard(Get(t, k).pending), <<>>,
           InSlotOrder(t, {k \in LiveKeys(t) : Get(t, k).multi}))

InFlightEntry(e) == IF e.multi THEN e.st = "Cancelled" ELSE e.st # "Completed"

\* The wakeup read is cancelled too, and the cancellation submitted.
CancelWakeup(p) ==
  IF p.ok /\ p.b.armed
  THEN {[ok |-> TRUE, b |-> Flush(Queue(p.b, CancelSqe(WakeRaw, WakeSqe)))]} \cup SubmitError(p.b)
  ELSE {[ok |-> p.ok, b |-> p.b]}

\* shutdown_inner up to the wakeup read's cancellation: flush, detach, cancel.
\* ok is FALSE when submission fails and the drain is given up.
UShutdown(b) ==
  LET Quiet(x) == [ok |-> x.ok, b |-> x.b, ran |-> <<>>, lost |-> <<>>, disc |-> <<>>]
      Flushed == {Quiet([ok |-> TRUE, b |-> Flush(b)])}
        \cup (IF b.sq = <<>> THEN {} ELSE {Quiet(x) : x \in SubmitError(b)})
        \cup (IF b.sq = <<>> \/ b.cq = <<>> THEN {}
              ELSE {[ok |-> d.ok, b |-> IF d.ok THEN Flush(d.b) ELSE d.b,
                     ran |-> d.defer, lost |-> d.lost, disc |-> d.disc]
                      : d \in Dispatch(b)})
      Cancelled(f) ==
        LET t == f.b.table
            keys == InSlotOrder(t, {k \in LiveKeys(t) :
                                      InFlightEntry(DetachEntry(Get(t, k)))})
        IN {[f EXCEPT !.ok = w.ok, !.b = w.b, !.disc = @ \o StagedItems(t)]
              : w \in UNION {CancelWakeup(p)
                            : p \in PushSeq([f.b EXCEPT !.table = DetachAll(@)], keys, TRUE)}}
  IN UNION {IF f.ok THEN Cancelled(f) ELSE {f}
            : f \in {[x EXCEPT !.b.shut = TRUE] : x \in Flushed}}

\* The drain loops: wait for the wakeup read and for the first slot while it
\* is in flight; remove it otherwise.
FirstKey(t) == CHOOSE k \in LiveKeys(t) :
                 \A j \in LiveKeys(t) : KeySlot(k) <= KeySlot(j)

DrainWaits(b) ==
  b.armed \/ (~IsEmpty(b.table) /\ InFlightEntry(Get(b.table, FirstKey(b.table))))
=============================================================================
