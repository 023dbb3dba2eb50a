------------------------------- MODULE Kqueue --------------------------------
(***************************************************************************)
(* The kqueue backend (driver/backends/kqueue.rs) as operators on a value  *)
(*                                                                         *)
(*   [table, interests |-> the single waiter per (fd, direction),          *)
(*    filters |-> one-shot filters armed in the kernel,                    *)
(*    batch |-> events fetched and not yet dispatched,                     *)
(*    jobs, done, pool |-> the blocking pool, shut |-> shutting_down]      *)
(*                                                                         *)
(* An operation is attempted when its future is polled: it finishes,       *)
(* registers for readiness, or goes to the blocking pool.  A request says  *)
(* which: [class |-> "io" | "connect" | "block", fd, dir].                 *)
(***************************************************************************)
EXTENDS BlockingOps, FiniteSets

CONSTANT ArmFails   \* whether kevent may refuse a change

ASSUME ArmAssumption == ArmFails \in BOOLEAN

Registrations == [fd : Nat, dir : {"read", "write"},
                  action : {"Retry", "CompleteSocketError"}]
KStates == {"Submitted", "Ready", "Waiting", "Completed", "Detached",
            "CancelWaiting", "CancelDetached"}
SlotEntries(ops, tasks) ==
  [multi : {FALSE}, op : ops, st : KStates, waker : tasks \cup {None},
   res : Results \cup {None}, own : BOOLEAN, reg : Registrations \cup {None}]

Slot(o) ==
  [multi |-> FALSE, op |-> o, st |-> "Submitted", waker |-> None, res |-> None,
   own |-> FALSE, reg |-> None]

KqueueInit == [table |-> NewTable, interests |-> {}, filters |-> {}, batch |-> <<>>,
               jobs |-> {}, done |-> <<>>, pool |-> TRUE, shut |-> FALSE]

-----------------------------------------------------------------------------
(* State *)

KComplete(e, res) ==
  CASE e.st \in {"Submitted", "Ready"} ->
         [e |-> [e EXCEPT !.st = "Completed", !.res = res],
          remove |-> FALSE, defer |-> <<>>]
    [] e.st \in {"Waiting", "CancelWaiting"} ->
         [e |-> [e EXCEPT !.st = "Completed", !.res = res, !.waker = None],
          remove |-> FALSE, defer |-> <<WakeAction(e)>>]
    [] e.st \in {"Detached", "CancelDetached"} ->
         [e |-> e, remove |-> TRUE, defer |-> <<CleanAction(e, res)>>]
    [] OTHER -> [e |-> e, remove |-> FALSE, defer |-> <<>>]

\* ready: the descriptor may make progress; the attempt is made by the poll.
KReady(e) ==
  CASE e.st = "Submitted" ->
         [e |-> [e EXCEPT !.st = "Ready"], remove |-> FALSE, defer |-> <<>>]
    [] e.st = "Waiting" ->
         [e |-> [e EXCEPT !.st = "Ready", !.waker = None], remove |-> FALSE,
          defer |-> <<WakeAction(e)>>]
    [] e.st \in {"Detached", "CancelDetached"} ->
         [e |-> e, remove |-> TRUE, defer |-> <<>>]
    [] OTHER -> [e |-> e, remove |-> FALSE, defer |-> <<>>]

-----------------------------------------------------------------------------
(* Registrations *)

Registration(fd, dir, action) == [fd |-> fd, dir |-> dir, action |-> action]

HasInterest(b, fd, dir) == \E i \in b.interests : i.fd = fd /\ i.dir = dir

InstallRegistration(b, key, reg) ==
  [b EXCEPT
     !.interests = {i \in @ : ~(i.fd = reg.fd /\ i.dir = reg.dir)}
                     \cup {[fd |-> reg.fd, dir |-> reg.dir, raw |-> key]},
     !.table = Put(@, key, [Get(@, key) EXCEPT !.reg = reg])]

\* take_registration: only its own entry of interests is removed.
TakeRegistration(b, key) ==
  LET reg == Get(b.table, key).reg IN
  IF reg = None THEN b
  ELSE [b EXCEPT !.interests = @ \ {[fd |-> reg.fd, dir |-> reg.dir, raw |-> key]},
                 !.table = Put(@, key, [Get(@, key) EXCEPT !.reg = None])]

\* EV_ADD | EV_ONESHOT replaces the filter of the pair; EV_DELETE removes it.
Arm(b, reg, key, o) ==
  [b EXCEPT !.filters = {f \in @ : ~(f.fd = reg.fd /\ f.dir = reg.dir)}
                          \cup {[fd |-> reg.fd, dir |-> reg.dir, raw |-> key, op |-> o]}]

Delete(b, reg) ==
  [b EXCEPT !.filters = {f \in @ : ~(f.fd = reg.fd /\ f.dir = reg.dir)}]

-----------------------------------------------------------------------------
(* The calls of the driver *)

KSubmit(b, o) ==
  IF b.shut \/ ~CanInsert(b.table)
  THEN {[key |-> 0, b |-> b, ran |-> <<>>, lost |-> <<>>]}
  ELSE {[key |-> NextKey(b.table), b |-> [b EXCEPT !.table = Insert(@, Slot(o))],
         ran |-> <<>>, lost |-> <<>>]}

\* attempt: the outcomes of the non-blocking system call.
Attempt(req) ==
  IF req.class = "block" THEN {[do |-> "Blocking"]}
  ELSE {[do |-> "Ready", res |-> r] : r \in Results}
       \cup {[do |-> "Register",
              reg |-> Registration(req.fd, req.dir,
                        IF req.class = "connect" THEN "CompleteSocketError"
                        ELSE "Retry")]}

\* poll_op of an operation that is due: run the attempt.
KAttempt(b, key, req, waker) ==
  LET e == Get(b.table, key)
      Ready(b2, res) == [b |-> [b2 EXCEPT !.table = Remove(@, key)], out |-> res]
      Wait(b2) == [b |-> [b2 EXCEPT !.table = Put(@, key,
                            [Get(@, key) EXCEPT !.st = "Waiting", !.waker = waker])],
                   out |-> None]
      Register(reg) ==
        IF HasInterest(b, reg.fd, reg.dir) THEN {Ready(b, "err")}
        ELSE {Wait(InstallRegistration(Arm(b, reg, key, e.op), key, reg))}
             \cup (IF ArmFails THEN {Ready(b, "err")} ELSE {})
      Offload == {IF p.ok THEN Wait(p.b) ELSE Ready(p.b, "err")
                    : p \in PushBlocking(b, key, e.op)}
  IN UNION {CASE a.do = "Ready" -> {Ready(b, a.res)}
              [] a.do = "Register" -> Register(a.reg)
              [] OTHER -> Offload
            : a \in Attempt(req)}

KPollOp(b, key, req, waker) ==
  LET e == Get(b.table, key) IN
  CASE e.st = "Completed" ->
         {[b |-> [b EXCEPT !.table = Remove(@, key)], out |-> e.res]}
    [] e.st \in {"Submitted", "Ready"} -> KAttempt(b, key, req, waker)
    [] OTHER -> {[b |-> [b EXCEPT !.table = Put(@, key, [e EXCEPT !.waker = waker])],
                  out |-> None]}

\* cancel_op: a registered operation is finished on the spot and its task
\* woken, inside the call; a blocking job has to run to its end.
KCancelOp(b, key) ==
  LET e == Get(b.table, key)
      Set(b2, x) == [b2 EXCEPT !.table = Put(@, key, x)]
      Ended(x) == [x EXCEPT !.st = "Completed", !.res = "err", !.waker = None]
      Quiet(b2) == {[b |-> b2, ran |-> <<>>, lost |-> <<>>]}
  IN IF e = None THEN Quiet(b)
     ELSE CASE e.st \in {"Submitted", "Ready"} -> Quiet(Set(b, Ended(e)))
            [] e.st = "Waiting" /\ e.reg # None ->
                 {[b |-> Set(Delete(TakeRegistration(b, key), e.reg),
                             Ended([e EXCEPT !.reg = None])),
                   ran |-> <<WakeAction(e)>>, lost |-> <<>>]}
            [] e.st = "Waiting" /\ e.reg = None ->
                 Quiet(Set(b, [e EXCEPT !.st = "CancelWaiting"]))
            [] e.st = "Detached" -> Quiet(Set(b, [e EXCEPT !.st = "CancelDetached"]))
            [] OTHER -> Quiet(b)

\* remove_op: nothing of a readiness operation survives; the payload of a
\* blocking one stays in the slot for its completion.
KRemoveOp(b, key) ==
  LET e == Get(b.table, key)
      Drop(b2, out) == [b |-> [b2 EXCEPT !.table = Remove(@, key)], out |-> out,
                        kept |-> FALSE]
      Keep(st) == [b |-> [b EXCEPT !.table = Put(@, key,
                            [e EXCEPT !.st = st, !.own = TRUE, !.waker = None])],
                   out |-> None, kept |-> TRUE]
  IN IF e = None THEN [b |-> b, out |-> None, kept |-> FALSE]
     ELSE CASE e.st \in {"Submitted", "Ready"} -> Drop(b, None)
            [] e.st \in {"Waiting", "CancelWaiting"} /\ e.reg # None ->
                 Drop(Delete(TakeRegistration(b, key), e.reg), None)
            [] e.st = "Waiting" /\ e.reg = None -> Keep("Detached")
            [] e.st = "CancelWaiting" /\ e.reg = None -> Keep("CancelDetached")
            [] OTHER -> Drop(b, e.res)

-----------------------------------------------------------------------------
(* A turn: wait fetches events, then blocking completions and events are   *)
(* applied, each with its actions run in between.                          *)

\* kevent: some of the ready filters fire, in any order, and a fired one-shot is
\* gone.  EOF can be flagged on a read filter.
Orders(S) == {q \in [1 .. Cardinality(S) -> S] : \A i, j \in DOMAIN q : q[i] = q[j] => i = j}

Fetch(b, fired, order, eofs) ==
  [b EXCEPT !.filters = @ \ fired,
            !.batch = [n \in DOMAIN order |->
                         [fd |-> order[n].fd, dir |-> order[n].dir, raw |-> order[n].raw,
                          op |-> order[n].op, eof |-> order[n] \in eofs]]]

\* drain_blocking_completions
KFinish(acc, c) == ApplyTo(acc, c.raw, KComplete(Get(acc.b.table, c.raw), c.res))

KDrain(b) == FoldLeft(KFinish, [b |-> [b EXCEPT !.done = <<>>], defer |-> <<>>], b.done)

IsCurrentInterest(b, key, fd, dir) ==
  LET e == Get(b.table, key) IN
  e # None /\ e.reg # None /\ e.reg.fd = fd /\ e.reg.dir = dir

\* mark_ready; the result of a finished connect is read from the socket.
MarkReady(acc, key, fd, dir, sockerr) ==
  LET e == Get(acc.b.table, key)
      taken == [acc EXCEPT !.b = TakeRegistration(@, key)]
  IN IF ~IsCurrentInterest(acc.b, key, fd, dir) THEN acc
     ELSE LET was == Get(taken.b.table, key) IN
          ApplyTo(taken, key, IF e.reg.action = "Retry" THEN KReady(was)
                              ELSE KComplete(was, sockerr))

\* dispatch_completions: stale events of the batch are skipped, and end of
\* file on the read side also wakes the write side of the descriptor.
WriteKey(b, fd) == {i.raw : i \in {j \in b.interests : j.fd = fd /\ j.dir = "write"}}

ApplyEvent(acc, ev, sockerr) ==
  IF ~IsCurrentInterest(acc.b, ev.raw, ev.fd, ev.dir) THEN acc
  ELSE LET a == MarkReady(acc, ev.raw, ev.fd, ev.dir, sockerr) IN
       IF ev.dir = "read" /\ ev.eof /\ WriteKey(a.b, ev.fd) # {}
       THEN MarkReady(a, CHOOSE k \in WriteKey(a.b, ev.fd) : TRUE, ev.fd, "write", sockerr)
       ELSE a

KDispatch(b, sockerr) ==
  FoldLeft(LAMBDA acc, ev : ApplyEvent(acc, ev, sockerr),
           [b |-> [b EXCEPT !.batch = <<>>], defer |-> <<>>], b.batch)

\* shutdown: filters go first, then finished jobs are applied, and what is
\* still detached is cleaned up with an error.
Unregister(b, key) == Delete(TakeRegistration(b, key), Get(b.table, key).reg)

KShutdown(b) ==
  LET regs == {k \in LiveKeys(b.table) : Get(b.table, k).reg # None}
      clean == FoldLeft(Unregister, [b EXCEPT !.shut = TRUE], InSlotOrder(b.table, regs))
      d == KDrain([clean EXCEPT !.interests = {}])
      left == InSlotOrder(d.b.table,
                {k \in LiveKeys(d.b.table) :
                   Get(d.b.table, k).st \in {"Detached", "CancelDetached"}})
  IN [b |-> [d.b EXCEPT !.table = Clear(@), !.batch = <<>>],
      defer |-> d.defer \o [n \in DOMAIN left |-> CleanAction(Get(d.b.table, left[n]), "err")]]
=============================================================================
