------------------------------ MODULE Runtime ------------------------------
(***************************************************************************)
(* The loop of Runtime::block_on (runtime/local.rs) with the parts that    *)
(* feed it: the local and the remote task queue (runtime/local/queue.rs,   *)
(* runtime/local/scheduler.rs), the timers (time/driver.rs), one turn of   *)
(* the driver (driver.rs) and the cross-thread wakeup of each backend      *)
(* (driver/backends/{iouring,kqueue,iocp}.rs).                             *)
(*                                                                         *)
(* A task is abstracted to its NOTIFIED and RUNNING bits (module Task has  *)
(* the whole word).  The root future is woken through the wakeup itself.   *)
(* Other threads wake futures, finish blocking jobs and wake the driver,   *)
(* one atomic access of the code at a time.                                *)
(***************************************************************************)
EXTENDS Naturals, Sequences, FiniteSets, SequencesExt

CONSTANTS
  Tasks,          \* the spawned tasks
  Root,           \* the future given to block_on
  Threads,        \* threads other than the runtime's
  None,
  EventInterval,  \* tasks run between two turns of the driver
  Backends,       \* the wakeups considered: "eventfd", "user", "pipe", "port"
  Awaitable,      \* what each future of this program may wait for
  RootFinishes,   \* whether the root future may complete
  Interrupts      \* whether a signal may interrupt a blocked wait

ASSUME RuntimeAssumption ==
  /\ Root \notin Tasks /\ None \notin Tasks \cup {Root}
  /\ IsFiniteSet(Tasks)
  /\ EventInterval \in Nat \ {0}
  /\ Backends \subseteq {"eventfd", "user", "pipe", "port"}
  /\ Awaitable \in [Tasks \cup {Root} -> SUBSET {"wake", "timer", "kernel", "pool"}]
  /\ RootFinishes \in BOOLEAN /\ Interrupts \in BOOLEAN

Futures == Tasks \cup {Root}
Things == {"wake", "timer", "kernel", "pool"}

VARIABLES
  backend,   \* which wakeup this build has; never changes
  pc,        \* where the runtime thread is in block_on
  blocking,  \* whether the current turn is the one that may park
  budget,    \* tasks the batch may still run
  cur,       \* the task being polled
  local,     \* LocalTaskQueue
  remote,    \* RemoteTaskQueue
  woken,     \* NOTIFIED of a task; for the root, a wake not yet polled for
  timer,     \* each future's timer
  op,        \* each future's driver operation
  events,    \* operations in the batch of events the wait returned
  jobsDone,  \* BlockingCompletionQueue
  flag,      \* KqueueWakeup.notified
  signal,    \* kernel: eventfd counter, trigger, bytes or packets pending
  armed,     \* the eventfd read, or the filter: "off", "queued" or "on"
  wakeCqe,   \* the completion of the eventfd read, not yet dispatched
  sqes,      \* submission entries not handed to the kernel before this wait
  tpc,       \* what each other thread is doing
  target     \* the task it is about to push

owner  == <<pc, blocking, budget, cur>>
queues == <<local, remote, woken>>
inputs == <<timer, op, events, jobsDone>>
wakeup == <<flag, signal, armed, wakeCqe, sqes>>
others == <<tpc, target>>
vars   == <<owner, queues, inputs, wakeup, others>>

Kqueue == backend \in {"user", "pipe"}

\* A runtime about to enter block_on with every task spawned.
Init ==
  /\ backend \in Backends
  /\ pc = "tick" /\ blocking = FALSE /\ budget = 0 /\ cur = None
  /\ \E q \in SetToSeqs(Tasks) : local = q
  /\ remote = <<>>
  /\ woken = [f \in Futures |-> TRUE]
  /\ timer = [f \in Futures |-> "none"]
  /\ op = [f \in Futures |-> "none"]
  /\ events = {} /\ jobsDone = {}
  /\ flag = FALSE /\ signal = FALSE
  /\ armed = IF backend = "eventfd" THEN "queued" ELSE "on"
  /\ wakeCqe = FALSE /\ sqes = TRUE
  /\ tpc = [t \in Threads |-> "idle"] /\ target = [t \in Threads |-> None]

-----------------------------------------------------------------------------
(* Wakes made on the runtime thread.                                       *)

\* Wakes the tasks of S, in any order: one that is not notified is queued.
QueueLocally(S) ==
  /\ \E q \in SetToSeqs({t \in S \cap Tasks : ~woken[t]}) : local' = local \o q
  /\ woken' = [f \in Futures |-> woken[f] \/ f \in S]
  /\ UNCHANGED remote

\* Wakes the root, if it is in S, through the driver's wakeup.  The runtime
\* thread makes all accesses of it before it can wait again.
SignalSelf(S) ==
  /\ signal' = (signal \/ (Root \in S /\ ~(Kqueue /\ flag)))
  /\ flag' = (flag \/ (Root \in S /\ Kqueue))

WakeOnOwner(S) ==
  /\ QueueLocally(S)
  /\ SignalSelf(S)
  /\ UNCHANGED <<armed, wakeCqe, sqes>>

-----------------------------------------------------------------------------
(* block_on.                                                               *)

\* Start of a tick: the remote queue is appended to the local one.
Tick ==
  /\ pc = "tick"
  /\ local' = local \o remote
  /\ remote' = <<>>
  /\ pc' = "timers"
  /\ UNCHANGED <<blocking, budget, cur, woken, inputs, wakeup, others>>

\* Timer::wake, at the start of a tick and after a turn that may have parked.
ExpireTimers ==
  LET expired == {f \in Futures : timer[f] = "due"}
  IN  /\ pc \in {"timers", "expire"}
      /\ timer' = [f \in Futures |-> IF f \in expired THEN "none" ELSE timer[f]]
      /\ WakeOnOwner(expired)
      /\ pc' = IF pc = "timers" THEN "batch" ELSE "tick"
      /\ budget' = IF pc = "timers" THEN EventInterval ELSE budget
      /\ UNCHANGED <<blocking, cur, op, events, jobsDone, others>>

\* The batch pops a task and starts to poll it.
RunTask ==
  /\ pc = "batch" /\ budget > 0 /\ local # <<>>
  /\ cur' = Head(local)
  /\ local' = Tail(local)
  /\ woken' = [woken EXCEPT ![Head(local)] = FALSE]
  /\ budget' = budget - 1
  /\ pc' = "running"
  /\ UNCHANGED <<blocking, remote, inputs, wakeup, others>>

\* What a pending future waits for besides a wake: nothing, a timer, an
\* operation of the kernel, or (not on Linux) a job of the blocking pool.
Awaits(f, what) ==
  /\ what \in Awaitable[f]
  /\ what = "timer" => timer[f] = "none"
  /\ what \in {"kernel", "pool"} => op[f] = "none"
  /\ what = "pool" => backend # "eventfd"
  /\ timer' = IF what = "timer" THEN [timer EXCEPT ![f] = "armed"] ELSE timer
  /\ op' = IF what \in {"kernel", "pool"} THEN [op EXCEPT ![f] = what] ELSE op
  /\ UNCHANGED <<events, jobsDone>>

\* Fault: a task that is to run again goes to the front of the queue.
TaskPendingFirst(what, again) ==
  /\ pc = "running"
  /\ Awaits(cur, what)
  /\ woken' = [woken EXCEPT ![cur] = @ \/ again]
  /\ local' = IF woken[cur] \/ again THEN <<cur>> \o local ELSE local
  /\ sqes' = (sqes \/ what = "kernel")
  /\ cur' = None
  /\ pc' = "batch"
  /\ UNCHANGED <<blocking, budget, remote, flag, signal, armed, wakeCqe, others>>

\* The poll of a task returns Pending.  A task notified while it was polled,
\* by itself or by another thread, goes to the back of the local queue.
TaskPending(what, again) ==
  /\ pc = "running"
  /\ Awaits(cur, what)
  /\ woken' = [woken EXCEPT ![cur] = @ \/ again]
  /\ local' = IF woken[cur] \/ again THEN Append(local, cur) ELSE local
  /\ sqes' = (sqes \/ what = "kernel")
  /\ cur' = None
  /\ pc' = "batch"
  /\ UNCHANGED <<blocking, budget, remote, flag, signal, armed, wakeCqe, others>>

\* A future wakes another one while it is polled.
WakeSibling(f) ==
  /\ pc \in {"running", "root"}
  /\ f # cur /\ ~woken[f]
  /\ WakeOnOwner({f})
  /\ UNCHANGED <<owner, inputs, others>>

\* Fault: a batch goes on until the local queue is empty.
EndBatchEmpty ==
  /\ pc = "batch"
  /\ local = <<>>
  /\ pc' = "root"
  /\ UNCHANGED <<blocking, budget, cur, queues, inputs, wakeup, others>>

\* The batch ends: no budget, or no task.
EndBatch ==
  /\ pc = "batch"
  /\ budget = 0 \/ local = <<>>
  /\ pc' = "root"
  /\ UNCHANGED <<blocking, budget, cur, queues, inputs, wakeup, others>>

\* The root future is polled and pends; the loop polls the driver when tasks
\* remain and parks in it otherwise.
RootPending(what) ==
  /\ pc = "root"
  /\ Awaits(Root, what)
  /\ woken' = [woken EXCEPT ![Root] = FALSE]
  /\ sqes' = (sqes \/ what = "kernel")
  /\ blocking' = (local = <<>>)
  /\ pc' = "wait"
  /\ UNCHANGED <<budget, cur, local, remote, flag, signal, armed, wakeCqe, others>>

\* The root future completes: block_on returns and drops it, with its timer and
\* its operation.  A pool job it waited for still wakes the driver when it
\* ends, as any stale waker of the root does.
RootReady ==
  /\ pc = "root" /\ RootFinishes
  /\ woken' = [woken EXCEPT ![Root] = FALSE]
  /\ timer' = [timer EXCEPT ![Root] = "none"]
  /\ op' = [op EXCEPT ![Root] = "none"]
  /\ jobsDone' = jobsDone \ {Root}
  /\ pc' = "done"
  /\ UNCHANGED <<blocking, budget, cur, local, remote, events, wakeup, others>>

\* block_on is called again, with a new root future.
BlockOn ==
  /\ pc = "done"
  /\ woken' = [woken EXCEPT ![Root] = TRUE]
  /\ pc' = "tick"
  /\ UNCHANGED <<blocking, budget, cur, local, remote, inputs, wakeup, others>>

-----------------------------------------------------------------------------
(* One turn of the driver.                                                 *)

Ready == {f \in Futures : op[f] = "ready"}

\* The kernel has a wakeup to report.
WakeupReported ==
  IF backend = "eventfd" THEN wakeCqe ELSE signal /\ armed = "on"

\* What ends a wait: an event, a wakeup, or the timeout, which is zero for a
\* turn that may not park and the first timer's deadline for one that may.
WaitEnds ==
  \/ ~blocking
  \/ Ready # {}
  \/ WakeupReported
  \/ \E f \in Futures : timer[f] = "due"

\* The wait returns.  A trigger or a packet is consumed by being reported, a
\* one-shot filter is removed.
Wait ==
  /\ pc = "wait" /\ WaitEnds
  /\ events' = Ready
  /\ signal' = (signal /\ backend \in {"eventfd", "pipe"})
  /\ armed' = IF backend = "pipe" /\ WakeupReported THEN "off"
              ELSE IF armed = "queued" THEN "on" ELSE armed
  /\ sqes' = FALSE
  /\ pc' = IF Kqueue THEN "reset" ELSE "drain"
  /\ UNCHANGED <<blocking, budget, cur, queues, timer, op, jobsDone, flag,
                 wakeCqe, others>>

\* Kqueue::wait allows the next notification.
ResetNotified ==
  /\ pc = "reset"
  /\ flag' = FALSE
  /\ pc' = "reregister"
  /\ UNCHANGED <<blocking, budget, cur, queues, inputs, signal, armed, wakeCqe,
                 sqes, others>>

\* WakeupKind::reregister: nothing for a user event; the pipe is drained and
\* its filter added again.
Reregister ==
  /\ pc = "reregister"
  /\ signal' = (signal /\ backend # "pipe")
  /\ armed' = "on"
  /\ pc' = "drain"
  /\ UNCHANGED <<blocking, budget, cur, queues, inputs, flag, wakeCqe, sqes,
                 others>>

\* drain_blocking_completions: results of pool jobs wake their futures.
DrainBlocking ==
  /\ pc = "drain"
  /\ jobsDone' = {}
  /\ WakeOnOwner(jobsDone)
  /\ pc' = "dispatch"
  /\ UNCHANGED <<blocking, budget, cur, timer, op, events, others>>

\* Fault: the eventfd read is not armed again.
DispatchWithoutRearm ==
  LET done == IF backend = "eventfd" THEN Ready ELSE events
  IN  /\ pc = "dispatch"
      /\ op' = [f \in Futures |-> IF f \in done THEN "none" ELSE op[f]]
      /\ events' = {}
      /\ QueueLocally(done)
      /\ SignalSelf(done)
      /\ wakeCqe' = FALSE
      /\ pc' = IF blocking THEN "expire" ELSE "tick"
      /\ UNCHANGED <<blocking, budget, cur, timer, jobsDone, armed, sqes, others>>

\* dispatch_completions: io_uring takes every entry of the completion queue,
\* the other backends the events the wait returned.  The eventfd read is armed
\* again when its completion was among them.
Dispatch ==
  LET done == IF backend = "eventfd" THEN Ready ELSE events
  IN  /\ pc = "dispatch"
      /\ op' = [f \in Futures |-> IF f \in done THEN "none" ELSE op[f]]
      /\ events' = {}
      /\ QueueLocally(done)
      /\ SignalSelf(done)
      /\ armed' = IF wakeCqe THEN "queued" ELSE armed
      /\ sqes' = (sqes \/ wakeCqe)
      /\ wakeCqe' = FALSE
      /\ pc' = IF blocking THEN "expire" ELSE "tick"
      /\ UNCHANGED <<blocking, budget, cur, timer, jobsDone, others>>

\* A signal handler runs on the runtime thread while io_uring_enter blocks with
\* no timeout.  The call reports the entries it submitted, or else EINTR,
\* which turn returns and block_on's expect turns into a panic.  Every other
\* wait is retried.
Interrupt ==
  /\ Interrupts
  /\ pc = "wait" /\ ~WaitEnds
  /\ backend = "eventfd" /\ \A f \in Futures : timer[f] = "none"
  /\ armed' = IF armed = "queued" THEN "on" ELSE armed
  /\ sqes' = FALSE
  /\ pc' = IF sqes THEN "drain" ELSE "panicked"
  /\ UNCHANGED <<blocking, budget, cur, queues, inputs, flag, signal, wakeCqe,
                 others>>

-----------------------------------------------------------------------------
(* The kernel and the clock.                                               *)

\* The eventfd read takes the counter and completes.
KernelRead ==
  /\ backend = "eventfd" /\ signal
  /\ armed = "on" \/ (armed = "queued" /\ pc = "wait")
  /\ signal' = FALSE /\ armed' = "off" /\ wakeCqe' = TRUE
  /\ UNCHANGED <<owner, queues, inputs, flag, sqes, others>>

\* An operation of the kernel completes or becomes ready.
KernelReady(f) ==
  /\ op[f] = "kernel"
  /\ op' = [op EXCEPT ![f] = "ready"]
  /\ UNCHANGED <<owner, queues, timer, events, jobsDone, wakeup, others>>

\* A timer's deadline passes.
Deadline(f) ==
  /\ timer[f] = "armed"
  /\ timer' = [timer EXCEPT ![f] = "due"]
  /\ UNCHANGED <<owner, queues, op, events, jobsDone, wakeup, others>>

-----------------------------------------------------------------------------
(* Other threads.                                                          *)

\* Fault: a task that is being polled is queued as well.
RemoteWakeRunning(t, f) ==
  /\ tpc[t] = "idle"
  /\ f \in Tasks => ~woken[f]
  /\ woken' = [woken EXCEPT ![f] = (@ \/ f # Root \/ pc # "done")]
  /\ tpc' = [tpc EXCEPT ![t] = IF f = Root THEN "wake" ELSE "push"]
  /\ target' = [target EXCEPT ![t] = IF f = Root THEN None ELSE f]
  /\ UNCHANGED <<owner, local, remote, inputs, wakeup>>

\* Another thread wakes a future.  A task being polled is only marked; the
\* root has no queue and needs the wakeup alone.
RemoteWake(t, f) ==
  /\ tpc[t] = "idle"
  /\ f \in Tasks => ~woken[f]
  /\ woken' = [woken EXCEPT ![f] = (@ \/ f # Root \/ pc # "done")]
  /\ IF f = cur
     THEN UNCHANGED others
     ELSE /\ tpc' = [tpc EXCEPT ![t] = IF f = Root THEN "wake" ELSE "push"]
          /\ target' = [target EXCEPT ![t] = IF f = Root THEN None ELSE f]
  /\ UNCHANGED <<owner, local, remote, inputs, wakeup>>

\* RemoteTaskQueue::push_back queues the task; the wakeup follows.
PushBack(t) ==
  /\ tpc[t] = "push"
  /\ remote' = Append(remote, target[t])
  /\ target' = [target EXCEPT ![t] = None]
  /\ tpc' = [tpc EXCEPT ![t] = "wake"]
  /\ UNCHANGED <<owner, local, woken, inputs, wakeup>>

\* BlockingCompletionGuard::send: a pool worker queues a result; the wakeup
\* follows.
FinishJob(t, f) ==
  /\ tpc[t] = "idle" /\ op[f] = "pool"
  /\ op' = [op EXCEPT ![f] = "none"]
  /\ jobsDone' = jobsDone \cup {f}
  /\ tpc' = [tpc EXCEPT ![t] = "wake"]
  /\ UNCHANGED <<owner, queues, timer, events, wakeup, target>>

\* Wakeup::wake.  An eventfd or a port is signalled at once; kqueue first
\* claims the notification and gives up when it is claimed already.
Wake(t) ==
  /\ tpc[t] = "wake"
  /\ tpc' = [tpc EXCEPT ![t] = IF Kqueue /\ ~flag THEN "notify" ELSE "idle"]
  /\ flag' = (flag \/ Kqueue)
  /\ signal' = (signal \/ ~Kqueue)
  /\ UNCHANGED <<owner, queues, inputs, armed, wakeCqe, sqes, target>>

\* WakeupKind::notify: trigger the user event or write to the pipe.
Notify(t) ==
  /\ tpc[t] = "notify"
  /\ tpc' = [tpc EXCEPT ![t] = "idle"]
  /\ signal' = TRUE
  /\ UNCHANGED <<owner, queues, inputs, flag, armed, wakeCqe, sqes, target>>

-----------------------------------------------------------------------------
OwnerStep ==
  \/ Tick \/ ExpireTimers \/ RunTask \/ EndBatch
  \/ \E what \in Things, again \in BOOLEAN : TaskPending(what, again)
  \/ \E what \in Things : RootPending(what)
  \/ RootReady \/ BlockOn
  \/ Wait \/ ResetNotified \/ Reregister \/ DrainBlocking \/ Dispatch

\* A thread that has begun to wake something goes on.
ThreadStep(t) == PushBack(t) \/ Wake(t) \/ Notify(t)

Next ==
  \/ OwnerStep
  \/ \E f \in Futures : WakeSibling(f) \/ KernelReady(f) \/ Deadline(f)
  \/ Interrupt \/ KernelRead
  \/ \E t \in Threads : ThreadStep(t)
  \/ \E t \in Threads, f \in Futures : RemoteWake(t, f) \/ FinishJob(t, f)

Spec == Init /\ [][Next /\ UNCHANGED backend]_<<backend, vars>>

\* The runtime thread runs whenever it is not blocked in the kernel, a thread
\* in the middle of a wake is scheduled, and the kernel serves its reads.  No
\* task is assumed to stop waking itself, and no event to happen.
FairSpec ==
  /\ Spec
  /\ WF_vars(OwnerStep)
  /\ WF_vars(KernelRead)
  /\ \A t \in Threads : WF_vars(ThreadStep(t))

-----------------------------------------------------------------------------
(* Properties.                                                             *)

\* Every variable stays in its domain; the batch never runs more tasks than
\* event_interval allows.
TypeOK ==
  /\ backend \in Backends
  /\ pc \in {"tick", "timers", "batch", "running", "root", "wait", "reset",
             "reregister", "drain", "dispatch", "expire", "done", "panicked"}
  /\ blocking \in BOOLEAN
  /\ budget \in 0 .. EventInterval
  /\ cur \in Tasks \cup {None}
  /\ local \in Seq(Tasks) /\ remote \in Seq(Tasks)
  /\ woken \in [Futures -> BOOLEAN]
  /\ timer \in [Futures -> {"none", "armed", "due"}]
  /\ op \in [Futures -> {"none", "kernel", "ready", "pool"}]
  /\ events \subseteq Futures /\ jobsDone \subseteq Futures
  /\ flag \in BOOLEAN /\ signal \in BOOLEAN /\ armed \in {"off", "queued", "on"}
  /\ wakeCqe \in BOOLEAN /\ sqes \in BOOLEAN
  /\ tpc \in [Threads -> {"idle", "push", "wake", "notify"}]
  /\ target \in [Threads -> Tasks \cup {None}]

\* How often a task is queued, or on its way into the remote queue.
Entries(t) ==
  Cardinality({i \in DOMAIN local : local[i] = t})
    + Cardinality({i \in DOMAIN remote : remote[i] = t})
    + Cardinality({h \in Threads : target[h] = t})

\* A notified task that is not being polled is queued exactly once, in the
\* local queue, the remote queue or a thread about to push it, and no other
\* task is queued: however wakes from tasks, timers, completions and threads
\* interleave, none is lost and none polls a task twice.
QueuedOnce ==
  \A t \in Tasks : Entries(t) = IF woken[t] /\ t # cur THEN 1 ELSE 0

Parked == pc = "wait" /\ blocking

\* A wakeup is pending in the kernel, or a thread is certain to make one.
WakeupComing ==
  \/ wakeCqe
  \/ signal /\ armed # "off"
  \/ \E t \in Threads : tpc[t] = "notify" \/ (tpc[t] = "wake" /\ ~(Kqueue /\ flag))

\* The runtime thread never parks in the driver while there is work that only
\* a wakeup can tell it of (a task in the remote queue, the result of a
\* blocking job, a woken root) unless that wakeup is pending or certain: each
\* of them is published before the driver is woken (push_back, send), the
\* kqueue flag is cleared before the queues are read again, and the eventfd
\* read is armed again before the next wait.
NeverSleepsOnWork ==
  Parked /\ (local # <<>> \/ remote # <<>> \/ jobsDone # {} \/ woken[Root])
    => WakeupComing

\* A woken task is polled, and a woken root is, although other tasks keep
\* waking themselves, unless a wait failed and block_on panicked.  (That p leads
\* to ~p is that ~p holds again and again.)
WokenIsPolled == \A f \in Futures : []<>(~woken[f] \/ pc = "panicked")

BlockOnEnds == pc \in {"done", "panicked"}

\* A completed operation, a finished blocking job and a timer that is due are
\* each taken up although tasks that wake themselves keep the local queue from
\* ever being empty: the batch of block_on is bounded by event_interval.  (A
\* block_on whose root future completes returns without another turn.)
EventsAreServed ==
  \A f \in Futures :
    /\ []<>(op[f] # "ready" \/ BlockOnEnds)
    /\ []<>(f \notin jobsDone \/ BlockOnEnds)
    /\ []<>(timer[f] # "due" \/ BlockOnEnds)
=============================================================================
