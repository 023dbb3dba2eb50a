-------------------------------- MODULE Iocp ---------------------------------
(***************************************************************************)
(* The IOCP backend (driver/backends/iocp.rs) as operators on a value      *)
(*                                                                         *)
(*   [table, pending |-> pending_by_overlapped,                            *)
(*    flying |-> overlapped requests the kernel holds,                     *)
(*    port |-> packets queued at the completion port,                      *)
(*    batch |-> packets fetched and not yet dispatched,                    *)
(*    jobs, done, pool |-> the blocking pool, closed |-> the wakeup is     *)
(*    closed, shut |-> shutting_down]                                      *)
(*                                                                         *)
(* A packet names its request by the address of the OVERLAPPED header in   *)
(* the slot's Interest; an address is free for reuse as soon as the slot   *)
(* drops it.                                                               *)
(***************************************************************************)
EXTENDS BlockingOps, FiniteSets

CONSTANT Addresses   \* places an OVERLAPPED header can be allocated at

ASSUME AddressAssumption == Addresses \subseteq Nat /\ 0 \notin Addresses

IStates == {"Submitted", "Waiting", "Completed", "Detached",
            "CancelPending", "CancelWaiting", "CancelDetached"}
ISlotEntries(ops, tasks) ==
  [multi : {FALSE}, op : ops, st : IStates, waker : tasks \cup {None},
   res : Results \cup {None}, own : BOOLEAN, addr : Nat, job : BOOLEAN]

ISlot(o) ==
  [multi |-> FALSE, op |-> o, st |-> "Submitted", waker |-> None, res |-> None,
   own |-> FALSE, addr |-> 0, job |-> FALSE]

IocpInit == [table |-> NewTable, pending |-> {}, flying |-> {}, port |-> <<>>,
             batch |-> <<>>, jobs |-> {}, done |-> <<>>, pool |-> TRUE,
             closed |-> FALSE, shut |-> FALSE]

IComplete(e, res) ==
  CASE e.st \in {"Submitted", "CancelPending"} ->
         [e |-> [e EXCEPT !.st = "Completed", !.res = res],
          remove |-> FALSE, defer |-> <<>>]
    [] e.st \in {"Waiting", "CancelWaiting"} ->
         [e |-> [e EXCEPT !.st = "Completed", !.res = res, !.waker = None],
          remove |-> FALSE, defer |-> <<WakeAction(e)>>]
    [] e.st \in {"Detached", "CancelDetached"} ->
         [e |-> e, remove |-> TRUE, defer |-> <<CleanAction(e, res)>>]
    [] OTHER -> [e |-> e, remove |-> FALSE, defer |-> <<>>]

\* CancelIoEx on the exact OVERLAPPED: marks the request if the kernel still
\* holds it.
CancelPending(b, e) ==
  [b EXCEPT !.flying = {IF f.addr = e.addr THEN [f EXCEPT !.cancel = TRUE] ELSE f
                          : f \in @}]

\* IocpWakeup::wake posts an empty packet unless the wakeup is closed.
NullPacket == [addr |-> 0, op |-> None, res |-> None]
WakePort(b) == IF b.closed THEN b ELSE [b EXCEPT !.port = Append(@, NullPacket)]

-----------------------------------------------------------------------------
(* The calls of the driver *)

\* The allocator returns a place that is free, here the first.
FreshAddress(b) ==
  {a \in Addresses :
    /\ \A k \in LiveKeys(b.table) : Get(b.table, k).addr # a
    /\ \A c \in Addresses : c < a =>
         \E k \in LiveKeys(b.table) : Get(b.table, k).addr = c}

\* submit_op starts the operation: it may finish at once, hand an OVERLAPPED
\* to the kernel, or leave a job for the first poll.
ISubmit(b, o, req) ==
  LET key == NextKey(b.table)
      With(e) == [b EXCEPT !.table = Insert(@, e)]
      Done(b2) == [key |-> key, b |-> b2, ran |-> <<>>, lost |-> <<>>]
      Duplicate(addr) == \E p \in b.pending : p.addr = addr
      Start(b2, addr) == [b2 EXCEPT
        !.pending = {p \in @ : p.addr # addr} \cup {[addr |-> addr, raw |-> key]},
        !.flying = @ \cup {[addr |-> addr, op |-> o, cancel |-> FALSE]}]
  IN IF b.shut \/ ~CanInsert(b.table)
     THEN {[key |-> 0, b |-> b, ran |-> <<>>, lost |-> <<>>]}
     ELSE IF req.class = "block"
     THEN {Done(With([ISlot(o) EXCEPT !.job = TRUE]))}
     ELSE {Done(With([ISlot(o) EXCEPT !.st = "Completed", !.res = "err"]))}
          \cup {IF Duplicate(addr) THEN [Done(Start(b, addr)) EXCEPT !.key = 0]
                ELSE Done(Start(With([ISlot(o) EXCEPT !.addr = addr]), addr))
                  : addr \in FreshAddress(b)}

\* poll_op
IPollOp(b, key, waker) ==
  LET e == Get(b.table, key)
      Ready(b2, res) == [b |-> [b2 EXCEPT !.table = Remove(@, key)], out |-> res]
      Wait(b2, st) == [b |-> [b2 EXCEPT !.table = Put(@, key,
                                [e EXCEPT !.st = st, !.waker = waker, !.job = FALSE])],
                       out |-> None]
  IN CASE e.job -> {IF p.ok THEN Wait(p.b, "Waiting") ELSE Ready(p.b, "err")
                      : p \in PushBlocking(b, key, e.op)}
       [] ~e.job /\ e.st = "Completed" -> {Ready(b, e.res)}
       [] ~e.job /\ e.st \in {"Submitted", "Waiting"} -> {Wait(b, "Waiting")}
       [] OTHER -> {Wait(b, "CancelWaiting")}

\* cancel_op: a job not yet with the pool is finished on the spot; everything
\* else stays until its packet or completion arrives.
ICancelOp(b, key) ==
  LET e == Get(b.table, key)
      Out(b2, x) == {[b |-> [b2 EXCEPT !.table = Put(@, key, x)],
                      ran |-> <<>>, lost |-> <<>>]}
      To(st) == Out(CancelPending(b, e), [e EXCEPT !.st = st])
  IN IF e = None THEN {[b |-> b, ran |-> <<>>, lost |-> <<>>]}
     ELSE CASE e.st = "Submitted" /\ e.job ->
                 Out(b, [e EXCEPT !.st = "Completed", !.res = "err", !.job = FALSE])
            [] e.st = "Submitted" /\ ~e.job -> To("CancelPending")
            [] e.st = "Waiting" -> To("CancelWaiting")
            [] e.st = "Detached" -> To("CancelDetached")
            [] OTHER -> Out(b, e)

\* remove_op
IRemoveOp(b, key) ==
  LET e == Get(b.table, key)
      Drop(out) == [b |-> [b EXCEPT !.table = Remove(@, key)], out |-> out,
                    kept |-> FALSE]
      Keep(b2, st) == [b |-> [b2 EXCEPT !.table = Put(@, key,
                                [e EXCEPT !.st = st, !.own = TRUE, !.waker = None])],
                       out |-> None, kept |-> TRUE]
  IN IF e = None THEN [b |-> b, out |-> None, kept |-> FALSE]
     ELSE CASE e.st \in {"Submitted", "Waiting"} /\ e.job -> Drop(None)
            [] e.st \in {"Submitted", "Waiting"} /\ ~e.job ->
                 Keep(CancelPending(b, e), "Detached")
            [] e.st \in {"CancelPending", "CancelWaiting"} -> Keep(b, "CancelDetached")
            [] OTHER -> Drop(e.res)

-----------------------------------------------------------------------------
(* A turn *)

\* GetQueuedCompletionStatusEx takes everything queued.
IFetch(b) == [b EXCEPT !.batch = b.port, !.port = <<>>]

IFinish(acc, c) == ApplyTo(acc, c.raw, IComplete(Get(acc.b.table, c.raw), c.res))

IDrain(b) == FoldLeft(IFinish, [b |-> [b EXCEPT !.done = <<>>], defer |-> <<>>], b.done)

\* The key stamped into the header a packet points at.
HeaderKey(b, addr) ==
  LET at == {k \in LiveKeys(b.table) : Get(b.table, k).addr = addr} IN
  IF at = {} THEN None ELSE CHOOSE k \in at : TRUE

\* dispatch_completions: packets that name no pending request are skipped.
ApplyPacket(acc, p) ==
  LET known == {x \in acc.b.pending : x.addr = p.addr}
      key == HeaderKey(acc.b, p.addr)
      freed == [acc EXCEPT !.b.pending = @ \ known,
                           !.b.table = Put(@, key, [Get(@, key) EXCEPT !.addr = 0])]
  IN IF p.addr = 0 \/ known = {} \/ \A x \in known : x.raw # key THEN acc
     ELSE ApplyTo(freed, key, IComplete(Get(freed.b.table, key), p.res))

IDispatch(b) ==
  FoldLeft(ApplyPacket, [b |-> [b EXCEPT !.batch = <<>>], defer |-> <<>>], b.batch)

-----------------------------------------------------------------------------
(* shutdown: the wakeup is closed, everything in flight cancelled, and the *)
(* port is waited on until nothing detached is left.                       *)

IDetach(e) ==
  CASE e.st \in {"Submitted", "Waiting"} -> [e EXCEPT !.st = "Detached", !.waker = None]
    [] e.st \in {"CancelPending", "CancelWaiting"} ->
         [e EXCEPT !.st = "CancelDetached", !.waker = None]
    [] OTHER -> e

IShutdown(b) ==
  LET live == LiveKeys(b.table)
      t == [b.table EXCEPT !.entries = [s \in Slots |->
              IF @[s].occupied /\ @[s].value # None
              THEN Occupied(IDetach(@[s].value)) ELSE @[s]]]
      observed == {Get(b.table, k).addr : k \in {j \in live :
                     Get(b.table, j).st \in {"Submitted", "Waiting", "CancelPending",
                                             "CancelWaiting"}}}
  IN [b EXCEPT !.shut = TRUE, !.closed = TRUE, !.table = t,
               !.flying = {IF f.addr \in observed THEN [f EXCEPT !.cancel = TRUE]
                           ELSE f : f \in @}]

IDraining(b) ==
  \E k \in LiveKeys(b.table) : Get(b.table, k).st \in {"Detached", "CancelDetached"}
=============================================================================
