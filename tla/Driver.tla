------------------------------- MODULE Driver --------------------------------
(***************************************************************************)
(* The driver (driver.rs) with the operation futures that use it           *)
(* (driver/ops.rs), cancellation scopes (driver/helpers/scopes.rs,         *)
(* runtime/cancel.rs) and its part of the runtime's teardown               *)
(* (runtime/local.rs), over any of the three platform backends.            *)
(*                                                                         *)
(* The driver lives on one thread.  What interleaves with it is the kernel *)
(* and the blocking pool, and the user code that runs inside it: wakers    *)
(* and cleanups may submit, drop and cancel between any two steps of the   *)
(* driver.                                                                 *)
(***************************************************************************)
EXTENDS Uring, Kqueue, Iocp, Scopes

CONSTANTS Ops,          \* operations of the run
          Tasks,        \* tasks that poll their futures
          Sources,      \* cancellation sources
          Backends,     \* platforms to consider
          Offered,      \* [Backends -> SUBSET [Ops -> Requested]]: what is submitted
          Under,        \* [Ops -> SUBSET Sources]: with_cancellation wrappers
          Waited,       \* [Backends -> SUBSET Sources]: someone awaits cancelled()
          Escaped,      \* futures the application keeps outside the runtime
          PoolTimeout   \* Runtime::shutdown_timeout rather than drop

VARIABLES backend,    \* the platform
          be,         \* its backend
          sc,         \* ScopeTable
          op,         \* the operation futures
          source,     \* CancellationSource: [st, id, wait]
          cancelq,    \* operations apply_scope_cancel has still to cancel
          deferred,   \* DeferredActions not yet run
          closing     \* progress of the teardown

vars == <<backend, be, sc, op, source, cancelq, deferred, closing>>

Requested == [class : {"io", "connect", "block"}, fd : Nat, dir : {"read", "write"}]

DriverAssumption ==
  /\ Under \in [Ops -> SUBSET Sources]
  /\ DOMAIN Offered = Backends
  /\ \A b \in Backends : \A r \in Offered[b] : r \in [Ops -> Requested]
  /\ Waited \in [Backends -> SUBSET Sources]
  /\ Escaped \subseteq Ops /\ PoolTimeout \in BOOLEAN
  /\ Backends \subseteq {"uring", "kqueue", "iocp"}
ASSUME DriverAssumption

\* Option::None is none of the values an Option holds.
NoneAssumption ==
  /\ None \notin Ops /\ None \notin Tasks /\ None \notin Results /\ None \notin Nat
  /\ None \notin OneshotEntries(Ops, Tasks) /\ None \notin SlotEntries(Ops, Tasks)
  /\ None \notin ISlotEntries(Ops, Tasks) /\ None \notin Registrations
  /\ None \notin ScopeStates(Sources)
ASSUME NoneAssumption

NewOp(r) == [req |-> r, fut |-> "none", key |-> 0, poller |-> None, awake |-> FALSE,
             fate |-> "none", got |-> FALSE]

\* The future is gone; got: an undelivered result is left behind.
GoneOp(fate, got) == [NewOp(None) EXCEPT !.fut = "gone", !.fate = fate, !.got = got]

NewSource == [st |-> "none", id |-> None, wait |-> "none", reg |-> None]

Init ==
  /\ backend \in Backends
  /\ be = CASE backend = "uring" -> UringInit
            [] backend = "kqueue" -> KqueueInit
            [] OTHER -> IocpInit
  /\ sc = NewScopes(1)
  /\ \E r \in Offered[backend] : op = [o \in Ops |-> NewOp(r[o])]
  /\ source = [s \in Sources |-> NewSource]
  /\ cancelq = {}
  /\ deferred = <<>>
  /\ closing = "open"

-----------------------------------------------------------------------------
(* PlatformBackend: the calls of the selected backend *)

BackendSubmit(o) ==
  CASE backend = "uring" -> USubmit(be, Oneshot(o))
    [] backend = "kqueue" -> KSubmit(be, o)
    [] OTHER -> ISubmit(be, o, op[o].req)

BackendPoll(o, t) ==
  CASE backend = "uring" -> {UPollOp(be, op[o].key, t)}
    [] backend = "kqueue" -> KPollOp(be, op[o].key, op[o].req, t)
    [] OTHER -> IPollOp(be, op[o].key, t)

BackendCancel(key) ==
  CASE backend = "uring" -> UCancelOp(be, key)
    [] backend = "kqueue" -> KCancelOp(be, key)
    [] OTHER -> ICancelOp(be, key)

BackendRemove(b, key) ==
  CASE backend = "uring" -> URemoveOp(b, key)
    [] backend = "kqueue" -> KRemoveOp(b, key)
    [] OTHER -> IRemoveOp(b, key)

-----------------------------------------------------------------------------
(* DeferredAction::run *)

\* A wake reaches the task that polled last only through its own waker.
RunAction(ops, a) ==
  IF a.do = "wake"
  THEN IF ops[a.op].poller = a.who THEN [ops EXCEPT ![a.op].awake = TRUE] ELSE ops
  ELSE IF a.own
  THEN [ops EXCEPT ![a.op].fate = "cleaned", ![a.op].got = @ /\ a.res # "ok"]
  ELSE ops

RunAll(ops, actions) == FoldLeft(RunAction, ops, actions)

RunDeferred ==
  /\ deferred # <<>>
  /\ op' = RunAction(op, Head(deferred))
  /\ deferred' = Tail(deferred)
  /\ UNCHANGED <<backend, be, sc, source, cancelq, closing>>

\* Actions lost with the error of a dispatch: a payload waiting for its
\* cleanup is dropped without it.
LoseAction(ops, a) ==
  IF a.do = "clean" /\ a.own THEN [ops EXCEPT ![a.op].fate = "lost"] ELSE ops

\* Actions a backend call ran itself, under the driver's borrow of it, or
\* lost.
RanInside(ops, r) == FoldLeft(LoseAction, RunAll(ops, r.ran), r.lost)

-----------------------------------------------------------------------------
(* Operation futures *)

\* A turn of the driver is under way: tasks are not polled inside it.
InTurn == deferred # <<>> \/ (backend # "uring" /\ be.batch # <<>>)

Idle == closing = "open" /\ ~InTurn /\ cancelq = {}

CurrentScopes(o) == {source[s].id : s \in Under[o]}

\* try_submit_op: refused under a cancelled scope; otherwise submitted and
\* bound to every current scope.
Submit(o) ==
  /\ closing = "open" /\ op[o].fut = "none"
  /\ \A s \in Under[o] : source[s].st # "none"
  /\ \/ /\ \E id \in CurrentScopes(o) : IsCancelled(sc, id)
        /\ op' = [op EXCEPT ![o] = GoneOp("refused", FALSE)]
        /\ UNCHANGED <<be, sc>>
     \/ /\ \A id \in CurrentScopes(o) : ~IsCancelled(sc, id)
        /\ \E r \in BackendSubmit(o) :
             /\ be' = r.b
             /\ IF r.key = 0
                THEN /\ op' = RanInside([op EXCEPT ![o] = GoneOp("refused", FALSE)], r)
                     /\ UNCHANGED sc
                ELSE /\ op' = RanInside([op EXCEPT ![o].fut = "held", ![o].key = r.key], r)
                     /\ sc' = AttachAll(sc, CurrentScopes(o), r.key)
  /\ UNCHANGED <<backend, source, cancelq, deferred, closing>>

\* Op::poll: on a result the operation leaves its scopes and completes.  The
\* completion runs inside the match that still holds the backend's borrow.
Poll(o, t) ==
  /\ Idle /\ op[o].fut = "held"
  /\ \E r \in BackendPoll(o, t) :
       /\ be' = r.b
       /\ IF r.out = None
          THEN /\ op' = [op EXCEPT ![o].poller = t, ![o].awake = FALSE]
               /\ UNCHANGED sc
          ELSE /\ op' = [op EXCEPT ![o] = GoneOp("returned", @.got /\ r.out # "ok")]
               /\ sc' = Detach(sc, op[o].key)
  /\ UNCHANGED <<backend, source, cancelq, deferred, closing>>

\* Op::drop: cancel_op, then remove_op; a completion handed back is completed
\* outside the borrow.  Without a driver the payload is just dropped.
Fate(r) == IF r.out # None THEN "cleaned" ELSE IF r.kept THEN "none" ELSE "dropped"

Drop(o) ==
  /\ op[o].fut = "held"
  /\ \/ /\ closing \in {"open", "failed"}
        /\ \E c \in BackendCancel(op[o].key) :
             LET r == BackendRemove(c.b, op[o].key) IN
             /\ be' = r.b
             /\ op' = RanInside([op EXCEPT ![o] =
                              GoneOp(Fate(r), @.got /\ r.out # "ok")], c)
        /\ sc' = Detach(sc, op[o].key)
     \/ /\ closing = "closed"
        /\ op' = [op EXCEPT ![o] = GoneOp("dropped", @.got)]
        /\ UNCHANGED <<be, sc>>
  /\ UNCHANGED <<backend, source, cancelq, deferred, closing>>

-----------------------------------------------------------------------------
(* CancellationSource and CancellationToken::cancelled *)

\* CancellationSource::new
NewScope(s) ==
  /\ closing = "open" /\ source[s].st = "none" /\ CanInsertScope(sc)
  /\ source' = [source EXCEPT ![s].st = "live", ![s].id = NextScopeId(sc)]
  /\ sc' = InsertScope(sc)
  /\ UNCHANGED <<backend, be, op, cancelq, deferred, closing>>

\* apply_scope_cancel wakes the waiters, then cancels the operations of the
\* snapshot one by one (ApplyCancel).
StartCancel(s, st) ==
  LET snap == CancelSnapshot(sc, source[s].id) IN
  /\ cancelq' = cancelq \cup snap.ops
  /\ source' = [x \in Sources |->
       LET moved == IF x = s THEN [source[x] EXCEPT !.st = st] ELSE source[x] IN
       IF \E w \in snap.waiters : w.waker = x
       THEN [moved EXCEPT !.wait = "woken"] ELSE moved]

\* CancellationSource::cancel
CancelScope(s) ==
  /\ closing = "open" /\ source[s].st = "live" /\ cancelq = {}
  /\ StartCancel(s, "cancelled")
  /\ sc' = MarkCancelled(sc, source[s].id)
  /\ UNCHANGED <<backend, be, op, deferred, closing>>

\* Drop for CancellationSource, a no-op once the driver is gone.
DropScope(s) ==
  /\ source[s].st \in {"live", "cancelled"} /\ cancelq = {}
  /\ \/ /\ closing = "open"
        /\ StartCancel(s, "dropped")
        /\ sc' = RemoveScope(sc, source[s].id)
     \/ /\ closing = "closed"
        /\ source' = [source EXCEPT ![s].st = "dropped"]
        /\ UNCHANGED <<sc, cancelq>>
  /\ UNCHANGED <<backend, be, op, deferred, closing>>

\* Fault: the first operation that is gone ends the loop.
ApplyCancelUntilGone ==
  /\ \E key \in cancelq :
       /\ cancelq' = IF Get(be.table, key) = None THEN {} ELSE cancelq \ {key}
       /\ \E c \in BackendCancel(key) : be' = c.b /\ op' = RanInside(op, c)
  /\ UNCHANGED <<backend, sc, source, deferred, closing>>

ApplyCancel ==
  /\ \E key \in cancelq :
       /\ cancelq' = cancelq \ {key}
       /\ \E c \in BackendCancel(key) : be' = c.b /\ op' = RanInside(op, c)
  /\ UNCHANGED <<backend, sc, source, deferred, closing>>

\* WaitFuture::poll and drop; one waiter per source, whose waker is its name.
WaitPoll(s) ==
  /\ closing = "open" /\ source[s].st # "none" /\ s \in Waited[backend]
  /\ source[s].wait \in {"none", "woken"}
  /\ LET r == Subscribe(sc, source[s].id, source[s].reg, s) IN
     /\ sc' = r.sc
     /\ source' = [source EXCEPT ![s].wait = IF r.ready THEN "done" ELSE "pending",
                                 ![s].reg = IF r.ready THEN None ELSE r.registration]
  /\ UNCHANGED <<backend, be, op, cancelq, deferred, closing>>

WaitDrop(s) ==
  /\ closing = "open" /\ source[s].wait \in {"pending", "woken"}
  /\ sc' = IF source[s].reg = None THEN sc
           ELSE Unsubscribe(sc, source[s].id, source[s].reg)
  /\ source' = [source EXCEPT ![s].wait = "dropped", ![s].reg = None]
  /\ UNCHANGED <<backend, be, op, cancelq, deferred, closing>>

-----------------------------------------------------------------------------
(* The kernel and the blocking pool *)

Got(o, res) == IF o # None /\ res = "ok" THEN [op EXCEPT ![o].got = TRUE] ELSE op

\* The kernel finishes a request; only one it was asked to cancel is certain
\* to finish.  (The result of the wakeup read is ignored.)
RingCompletes(r) ==
  /\ backend = "uring"
  /\ \E res \in IF r.op = None THEN {"ok"} ELSE Results :
       /\ be' = [be EXCEPT !.run = @ \ {r},
                           !.cq = Append(@, [raw |-> r.raw, op |-> r.op, res |-> res,
                                             more |-> FALSE, id |-> None])]
       /\ op' = Got(r.op, res)
  /\ UNCHANGED <<backend, sc, source, cancelq, deferred, closing>>

PacketArrives(f) ==
  /\ backend = "iocp"
  /\ \E res \in Results :
       /\ be' = [be EXCEPT !.flying = @ \ {f},
                           !.port = Append(@, [addr |-> f.addr, op |-> f.op, res |-> res])]
       /\ op' = Got(f.op, res)
  /\ UNCHANGED <<backend, sc, source, cancelq, deferred, closing>>

\* A pool thread answers; what it delivers after the driver is closed stays
\* in a queue nobody reads and is dropped with it.
JobEnds(j) ==
  /\ backend # "uring"
  /\ \E res \in Results :
       /\ be' = LET b == SendCompletion(be, j, res)
                IN IF backend = "iocp" THEN WakePort(b) ELSE b
       /\ op' = IF closing \in {"open", "joining"} THEN Got(j.op, res) ELSE op
  /\ UNCHANGED <<backend, sc, source, cancelq, deferred, closing>>

Requests == IF backend = "uring" THEN be.run ELSE {}
Packets == IF backend = "iocp" THEN be.flying ELSE {}
Jobs == IF backend = "uring" THEN {} ELSE be.jobs

-----------------------------------------------------------------------------
(* Driver::turn *)

\* submit_and_wait hands the queue to the kernel.
Enter ==
  /\ backend = "uring" /\ be.sq # <<>>
  /\ Idle \/ closing = "draining"
  /\ be' = Flush(be)
  /\ UNCHANGED <<backend, sc, op, source, cancelq, deferred, closing>>

\* dispatch_completions; an error unwinds the runtime, which is then dropped.
RingTurn ==
  /\ backend = "uring" /\ Idle /\ be.cq # <<>>
  /\ \E d \in Dispatch(be) :
       /\ be' = d.b
       /\ deferred' = d.defer
       /\ op' = FoldLeft(LoseAction, op, d.lost)
       /\ closing' = IF d.ok THEN closing ELSE "failed"
  /\ UNCHANGED <<backend, sc, source, cancelq>>

\* wait and drain_blocking_completions: fired is what kevent returns.
EventWait(fired) ==
  /\ backend = "kqueue" /\ Idle
  /\ \E eofs \in SUBSET {f \in fired : f.dir = "read"} :
       \E order \in Orders(fired) :
         LET d == KDrain(Fetch(be, fired, order, eofs)) IN be' = d.b /\ deferred' = d.defer
  /\ UNCHANGED <<backend, sc, op, source, cancelq, closing>>

EventTurn ==
  /\ backend = "kqueue" /\ closing = "open" /\ deferred = <<>> /\ be.batch # <<>>
  /\ \E res \in Results :
       LET d == KDispatch(be, res) IN be' = d.b /\ deferred' = d.defer
  /\ UNCHANGED <<backend, sc, op, source, cancelq, closing>>

PortWait ==
  /\ backend = "iocp" /\ Idle /\ be.port # <<>>
  /\ LET d == IDrain(IFetch(be)) IN be' = d.b /\ deferred' = d.defer
  /\ UNCHANGED <<backend, sc, op, source, cancelq, closing>>

PortTurn ==
  /\ backend = "iocp" /\ closing = "open" /\ deferred = <<>> /\ be.batch # <<>>
  /\ LET d == IDispatch(be) IN be' = d.b /\ deferred' = d.defer
  /\ UNCHANGED <<backend, sc, op, source, cancelq, closing>>

-----------------------------------------------------------------------------
(* Drop for Runtime: the scheduler has dropped every task, with the futures *)
(* they held; then the blocking pool is joined, its completions applied,   *)
(* and the backend is shut down.                                           *)

\* A future that outlives its runtime has been polled: every caller awaits an
\* operation in the poll that submits it.  (A job of the pool is dispatched by
\* that poll; without it the drain of IOCP would wait for the job for ever.)
BeginShutdown ==
  /\ closing \in {"open", "failed"} /\ ~InTurn /\ cancelq = {}
  /\ \A o \in Ops : op[o].fut = "held" => o \in Escaped /\ op[o].poller # None
  /\ closing' = "joining"
  /\ be' = IF backend = "uring" THEN be ELSE [be EXCEPT !.pool = FALSE]
  /\ UNCHANGED <<backend, sc, op, source, cancelq, deferred>>

\* shutdown_and_join, or shutdown_with_timeout with jobs still running; then
\* drain_blocking_completions.
JoinPool ==
  /\ closing = "joining"
  /\ Jobs = {} \/ PoolTimeout
  /\ closing' = "joined"
  /\ IF backend = "uring" THEN UNCHANGED <<be, deferred>>
     ELSE LET d == IF backend = "kqueue" THEN KDrain(be) ELSE IDrain(be)
          IN be' = d.b /\ deferred' = d.defer
  /\ UNCHANGED <<backend, sc, op, source, cancelq>>

\* The ring is closed with requests still in it: the kernel lets go of them
\* and what the table holds is dropped.
Abandon(b) == [b EXCEPT !.run = {}, !.sq = <<>>, !.cq = <<>>, !.table = Clear(@)]

DropPayloads(ops) ==
  [o \in Ops |-> IF \E k \in LiveKeys(be.table) :
                      Get(be.table, k).op = o /\ Get(be.table, k).own
                 THEN [ops[o] EXCEPT !.fate = "lost"] ELSE ops[o]]

ShutdownRing ==
  /\ backend = "uring" /\ closing = "joined" /\ deferred = <<>>
  /\ \E r \in UShutdown(be) :
       /\ be' = IF r.ok THEN r.b ELSE Abandon(r.b)
       /\ closing' = IF r.ok THEN "draining" ELSE "closed"
       /\ op' = RanInside(IF r.ok THEN op ELSE DropPayloads(op), r)
  /\ UNCHANGED <<backend, sc, source, cancelq, deferred>>

\* Driver::shutdown runs what the kqueue backend returns after its borrow.
ShutdownKqueue ==
  /\ backend = "kqueue" /\ closing = "joined" /\ deferred = <<>>
  /\ LET d == KShutdown(be) IN be' = d.b /\ deferred' = d.defer
  /\ closing' = "closed"
  /\ UNCHANGED <<backend, sc, op, source, cancelq>>

ShutdownIocp ==
  /\ backend = "iocp" /\ closing = "joined" /\ deferred = <<>>
  /\ be' = IShutdown(be)
  /\ closing' = "draining"
  /\ UNCHANGED <<backend, sc, op, source, cancelq, deferred>>

\* The drain loops run their actions inside the shutdown call; a wait that
\* fails, or is interrupted, gives the ring up.
DrainRing ==
  /\ backend = "uring" /\ closing = "draining"
  /\ \/ /\ DrainWaits(be) /\ be.cq # <<>>
        /\ \E d \in Dispatch(be) :
             /\ be' = IF d.ok THEN d.b ELSE Abandon(d.b)
             /\ closing' = IF d.ok THEN "draining" ELSE "closed"
             /\ op' = RanInside(IF d.ok THEN op ELSE DropPayloads(op),
                          [ran |-> d.defer, lost |-> d.lost])
     \/ /\ DrainWaits(be)
        /\ \E w \in SubmitError(be) : be' = Abandon(w.b)
        /\ closing' = "closed"
        /\ op' = DropPayloads(op)
     \/ /\ ~DrainWaits(be) /\ ~IsEmpty(be.table)
        /\ be' = [be EXCEPT !.table = Remove(@, FirstKey(@))]
        /\ UNCHANGED <<op, closing>>
     \/ /\ ~DrainWaits(be) /\ IsEmpty(be.table)
        /\ closing' = "closed"
        /\ UNCHANGED <<be, op>>
  /\ UNCHANGED <<backend, sc, source, cancelq, deferred>>

DrainIocp ==
  /\ backend = "iocp" /\ closing = "draining"
  /\ \/ /\ IDraining(be) /\ be.port # <<>>
        /\ LET d == IDrain(IFetch(be))
               x == IDispatch(d.b)
           IN be' = x.b /\ op' = RanInside(op, [ran |-> d.defer \o x.defer, lost |-> <<>>])
        /\ UNCHANGED closing
     \/ /\ ~IDraining(be)
        /\ be' = [be EXCEPT !.table = Clear(@)]
        /\ closing' = "closed"
        /\ UNCHANGED op
  /\ UNCHANGED <<backend, sc, source, cancelq, deferred>>

-----------------------------------------------------------------------------
Finished == closing = "closed" /\ deferred = <<>> /\ UNCHANGED vars

Filters == IF backend = "kqueue" THEN be.filters ELSE {}

Next ==
  \/ \E o \in Ops : Submit(o) \/ Drop(o) \/ \E t \in Tasks : Poll(o, t)
  \/ \E s \in Sources : \/ NewScope(s) \/ CancelScope(s) \/ DropScope(s)
                        \/ WaitPoll(s) \/ WaitDrop(s)
  \/ ApplyCancel \/ RunDeferred
  \/ \E r \in Requests : RingCompletes(r)
  \/ \E f \in Packets : PacketArrives(f)
  \/ \E j \in Jobs : JobEnds(j)
  \/ Enter \/ RingTurn \/ EventTurn \/ PortWait \/ PortTurn
  \/ \E fired \in SUBSET Filters : EventWait(fired)
  \/ BeginShutdown \/ JoinPool \/ ShutdownRing \/ ShutdownKqueue \/ ShutdownIocp
  \/ DrainRing \/ DrainIocp
  \/ Finished

Spec == Init /\ [][Next]_vars

-----------------------------------------------------------------------------
(* Fairness.  The runtime's thread keeps going: the loop of block_on turns *)
(* the driver, and teardown runs to its end (ThreadStep).  It polls a task *)
(* whose waker was called in every pass of that loop.  Outside, a request  *)
(* the kernel was asked to cancel ends, and so does a job of the pool.     *)
(* (These are WF(ThreadStep), WF(OutsideStep) and SF of a wanted poll, with *)
(* the conditions under which the steps are enabled written out.)          *)

ThreadStep ==
  \/ ApplyCancel \/ RunDeferred
  \/ Enter \/ RingTurn \/ EventWait({}) \/ EventTurn \/ PortWait \/ PortTurn
  \/ JoinPool \/ ShutdownRing \/ ShutdownKqueue \/ ShutdownIocp
  \/ DrainRing \/ DrainIocp

CanThreadStep ==
  \/ cancelq # {} \/ deferred # <<>>
  \/ /\ closing = "open"
     /\ CASE backend = "uring" -> be.sq # <<>> \/ be.cq # <<>>
          [] backend = "kqueue" -> be.batch # <<>> \/ be.done # <<>>
          [] OTHER -> be.batch # <<>> \/ be.port # <<>>
  \/ closing = "joining" /\ (Jobs = {} \/ PoolTimeout)
  \/ closing = "joined"
  \/ /\ closing = "draining"
     /\ IF backend = "uring" THEN be.sq # <<>> \/ be.cq # <<>> \/ ~DrainWaits(be)
        ELSE be.port # <<>> \/ ~IDraining(be)

OutsideStep ==
  \/ \E r \in Requests : r.cancel /\ RingCompletes(r)
  \/ \E f \in Packets : f.cancel /\ PacketArrives(f)
  \/ \E j \in Jobs : JobEnds(j)

CanOutsideStep ==
  Jobs # {} \/ \E x \in Requests \cup Packets : x.cancel

Wanted(o) == op[o].fut = "held" /\ (op[o].awake \/ op[o].poller = None)

WantedPoll(o) == Wanted(o) /\ \E t \in Tasks : Poll(o, t)

Fairness ==
  /\ []<>~CanThreadStep \/ []<><<ThreadStep>>_vars
  /\ []<>~CanOutsideStep \/ []<><<OutsideStep>>_vars
  /\ \A o \in Ops : <>[]~(Idle /\ Wanted(o)) \/ []<><<WantedPoll(o)>>_vars

FairSpec == Spec /\ Fairness

-----------------------------------------------------------------------------
(* Properties *)

Elements(s) == {s[i] : i \in DOMAIN s}
Live(o) == {k \in LiveKeys(be.table) : Get(be.table, k).op = o}
OwnedByDriver(o) ==
  \/ \E k \in Live(o) : Get(be.table, k).own
  \/ \E a \in Elements(deferred) : a.do = "clean" /\ a.own /\ a.op = o

\* The kernel, or a pool thread, works with the payload.
Busy(o) ==
  LET at == CASE backend = "uring" -> be.run \cup {s \in Elements(be.sq) : s.do = "op"}
              [] backend = "kqueue" -> be.jobs
              [] OTHER -> be.flying \cup be.jobs
  IN \E r \in at : r.op = o

\* A payload whose request the kernel still holds, or whose job a pool thread
\* runs, is in its future or in its slot; and the OVERLAPPED a packet points
\* at is still the one of the operation it was issued for.
PayloadPinned ==
  /\ \A o \in Ops : Busy(o) => op[o].fut = "held" \/ \E k \in Live(o) : Get(be.table, k).own
  /\ backend = "iocp" =>
       \A p \in be.flying \cup Elements(be.port \o be.batch) :
         p.addr # 0 => \E k \in Live(p.op) : Get(be.table, k).addr = p.addr

\* Names of operations that outlive them: in queues, in the kernel, with the
\* pool.  Each finds its own operation or, once that is gone, nothing: a slot
\* used again is never hit by what was meant for its predecessor.
Names ==
  CASE backend = "uring" -> Elements(be.sq) \cup be.run \cup Elements(be.cq)
    [] backend = "kqueue" -> be.filters \cup Elements(be.batch) \cup be.jobs \cup Elements(be.done)
    [] OTHER -> be.jobs \cup Elements(be.done)

NoStaleHit ==
  \A n \in {x \in Names : x.op # None} :
    LET e == Get(be.table, n.raw) IN e # None => e.op = n.op

\* An active scope lists exactly the operations in flight that were submitted
\* under it, so that cancelling it reaches them all and none it no longer has;
\* and whoever waits for a scope is registered with it.
ScopesExact ==
  closing = "open" =>
    /\ MapsAgree(sc)
    /\ \A s \in Sources : source[s].st # "none" /\ IsActive(sc, source[s].id) =>
         GetScope(sc, source[s].id).ops =
           {op[o].key : o \in {x \in Ops : op[x].fut = "held" /\ s \in Under[x]}}
    /\ \A s \in Sources : source[s].wait = "pending" =>
         /\ IsActive(sc, source[s].id)
         /\ Waiter(source[s].reg, s) \in GetScope(sc, source[s].id).waiters

\* Once a scope is cancelled or dropped and its snapshot worked off, no
\* operation under it is left that was not asked to stop, however submission,
\* cancellation and drops interleave.
CancelReachesAll ==
  \A o \in Ops, s \in Sources :
    op[o].fut = "held" /\ s \in Under[o] /\ source[s].st \in {"cancelled", "dropped"}
    /\ op[o].key \notin cancelq =>
      LET e == Get(be.table, op[o].key) IN
      IF e = None THEN closing # "open" ELSE e.st \notin {"Submitted", "Waiting", "Ready"}

\* What an operation produced reaches its completion code.  Only a future kept
\* past the end of the runtime, or a ring the kernel refused to serve, loses
\* it.
ResultKept ==
  \A o \in Ops : op[o].got =>
    \/ op[o].fate = "none"
    \/ op[o].fate = "dropped" /\ o \in Escaped /\ closing = "closed"
    \/ op[o].fate = "lost" /\ backend = "uring" /\ be.failed

\* Driver implements the contract of operations.
Payload ==
  [o \in Ops |->
    [owner |-> CASE op[o].fut = "none" -> "caller"
                 [] op[o].fut = "held" -> "future"
                 [] OTHER -> IF OwnedByDriver(o) THEN "driver" ELSE "gone",
     busy |-> Busy(o), fate |-> op[o].fate]]

Contract == INSTANCE OpContract WITH payload <- Payload

ImplementsContract == Contract!ContractSpec

\* An operation that has its result, or whose scope is cancelled, while the
\* runtime runs and no submission has failed: its task is owed an answer.
Owed(o) ==
  /\ op[o].fut = "held" /\ closing = "open" /\ ~(backend = "uring" /\ be.failed)
  /\ op[o].got \/ \E s \in Under[o] : source[s].st \in {"cancelled", "dropped"}

\* What is owed is paid: no wakeup is lost between the kernel, the pool, the
\* driver and the task, and a cancelled operation does not stay.  (There is
\* always a later moment with no debt at all, so each debt is paid.)
Resolves == []<>(\A o \in Ops : ~Owed(o))

\* Dropping the runtime ends, whatever is in flight.
ShutdownEnds == closing = "joining" ~> closing = "closed"
=============================================================================
