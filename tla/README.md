# A TLA+ model of karmaio

karmaio is an asynchronous runtime for one thread per core: tasks never leave
their thread, I/O goes through io_uring, kqueue or IOCP, and work that would
block goes to a pool of threads.  This directory models it in TLA+: the
concurrent core, the operation lifecycles of the three backends, and the services
built on them.  TLC checks the models on small instances, and TLAPS proves the
most important invariants for every instance.

Source paths below are relative to `src/karmaio/src/`.

## The system

| Part | Source | State | Operations |
|---|---|---|---|
| Task | `task.rs`, `task/` | lifecycle word (flags and reference count), future or output, join waker | poll, wake by value and by reference, clone and drop of wakers, abort, join, drop of the handle, completion, deallocation |
| Scheduler | `runtime/local/scheduler.rs`, `runtime/local/queue.rs` | local queue, remote queue (mutex), owned tasks | spawn, schedule, tick, run_task, shutdown |
| Runtime loop | `runtime/local.rs` | the queues, timers, driver | block_on, drop |
| Driver | `driver.rs`, `driver/backends/` | operation table, wakeup, completion queues | submit, poll, cancel and remove of an operation, turn, shutdown |
| Blocking pool | `runtime/blocking.rs` | job queue, worker counts, shutdown flags, condvar | dispatch, worker loop, shutdown |
| Cancellation | `runtime/cancel.rs`, `driver/helpers/scopes.rs` | scopes, attached operations, subscribers | cancel, subscribe, attach, remove |
| Operations | `driver/ops.rs`, `driver/ops/` | payload (buffer, path, descriptor), state in the table | submit, attempt, complete, drop |
| Multishot streams | `driver/ops/*_multi.rs` | staged completions, resources they carry | start, poll, drop |
| Signals | `signal/unix.rs`, `signal/windows.rs`, `signal/half_lock.rs` | registry behind a half lock, counters and wakers | register, unregister, handler, poll |
| Processes | `process/` | child, its pipes, the exit status | wait, try_wait, kill, wait_with_output, drop |
| Timers | `time/` | ordered map of deadlines | insert, cancel, wake, interval |
| Shared handles | `driver/helpers/io_handle.rs` | reference count, closer's waker | clone, close, take, drop |
| Buffer pool | `buf/pool.rs` | provided-buffer ring, free list | take, release, teardown |
| Framed I/O | `io/framed/` | the operation in flight, the bytes not yet decoded | send, flush, next, into_parts |
| TLS | `tls/` | session, state of each direction, ciphertext queues, shared by two halves when split | handshake, read, write, flush, shutdown, split, reunite |
| Buffered I/O | `io/read/buf_reader.rs`, `io/write/buf_writer.rs` | a buffer and its cursor | read, fill_buf, consume, write, flush |

How they interact: a task is polled by its home scheduler; its wakers may be on
any thread and reach the scheduler through the remote queue, which wakes the
driver.  The driver turns completions of the kernel and results of the pool into
wakes of local tasks.  The root future of `block_on` is not a task; its waker is
the driver's wakeup itself.  Dropping the runtime shuts the scheduler, the pool
and the backend down, in that order.

Where the difficulty is: every atomic access of the task word can interleave with
a poll, a wake, an abort, a join and a drop; a wake is a queue push *and* a wakeup
in two steps; the pool's condvar serves workers and shutdown callers at once; the
half lock is entered from signal handlers; destructors of foreign state may panic
at any of a dozen places; a future can be dropped while the kernel writes into its
buffer; a cancellation races the completion it cancels; user code run by the
driver submits, drops and cancels between any two of its steps.  `PROJECT.json`
lists these hazards with the lines where they bite.

## Modules

| Module | Models | Notes |
|---|---|---|
| `HalfLock` | `signal/half_lock.rs` | one action per atomic access of readers and writers |
| `BlockingPool` | `runtime/blocking.rs` | one action per critical section of the pool's mutex |
| `TaskState` | `task/state.rs` | the transitions as functions from snapshot to snapshot and action |
| `Task` | `task/`, `runtime/local/scheduler.rs` | one task with everything that refers to it |
| `Runtime` | `runtime/local.rs`, the queues, the turn and the wakeups | several tasks, several threads, four kinds of wakeup |
| `OpTable` | `driver/op_table.rs`, `slab.rs` | operators on a table value |
| `Scopes` | `driver/helpers/scopes.rs` | operators on a registry value |
| `Completions`, `BlockingOps` | `driver/ops.rs` | what the backends share |
| `Folding` | | the loop over a list, as a function of the number of passes |
| `Uring`, `Multishot` | `driver/backends/iouring.rs` | operators on a backend value |
| `Kqueue`, `Iocp` | `driver/backends/kqueue.rs`, `iocp.rs` | operators on a backend value |
| `Driver` | `driver.rs`, `driver/ops.rs`, `runtime/cancel.rs`, `Drop for Runtime` | composes table, scopes and one backend |
| `OpContract` | the contract of `Op` in `driver/ops.rs` | abstract specification that `Driver` implements |
| `BufferPool` | `buf/pool.rs` | operators on a pool value |
| `MultiStream` | `driver/ops.rs`, `driver/ops/*_multi.rs` | composes `Uring`, `Multishot` and `BufferPool` |
| `IoHandle` | `driver/helpers/io_handle.rs`, `net/split.rs`, `driver/ops/close.rs` | |
| `Timer` | `time/` | |
| `Signal` | `signal/unix.rs`, `signal/windows.rs` | over snapshots of `HalfLock` |
| `Process` | `process/`, `driver/ops/wait_process.rs` | |
| `Operations` | `driver/ops/` | a table of the operations and an interpreter of their steps |
| `Framed` | `io/framed/` | a writer, a stream and a reader |
| `Tls` | `tls/engine.rs`, `tls/split.rs` | Rustls is external |
| `Services` | | the seven modules above, one at a time |
| `Buffered` | `io/read/buf_reader.rs`, `io/write/buf_writer.rs` | |
| `MC*` | | instances for TLC; the `.cfg` files give the constants |
| `*Proofs` | | theorems and proofs |

An operator whose comment begins with "Fault" is not part of a model: it is a
plausible mistake in the operator that follows it, and a property is only kept if
some fault violates it.

### HalfLock

`data` is the published allocation, `lock` the two guard counts, `generation`
selects the slot for new readers.  A reader is `SelectSlot`, `LockSlot`,
`LoadData`, `DropReadGuard`; a writer is `Write`, `Swap`, the barrier (`CheckSlot`
for each slot, `BumpGeneration`, `SpinSlot` for each slot until both were seen
empty) and `FreeOld`.  `MaxStores` bounds the number of stores.

### BlockingPool

The variables are the fields of the mutex-protected `Shared`, plus where each
worker and each shutdown caller is.  `num_threads`, `num_idle` and `num_notify`
are the code's counters; a worker in its condvar wait is "waiting", and becomes
"notified" or "timed_out" before it reacquires the mutex, so that the order in
which notified, spurious and expired workers get the lock is free.  Jobs are
mandatory or optional; the destructor of those in `PanickyDrop` panics.

### Task

`state` is the word; `stage` and `jwaker` are the two `UnsafeCell`s.  `opc` is
the thread that polls, `wpc` the wakers, `jpc` the owner of the JoinHandle.  Each
access to the word, a queue or a cell is a step.  `local` and `remote` count the
entries of this one task in the queues, and `phase` follows `Scheduler::shutdown`.
With `phase = "pool"` (`Blocking`) the task is one of `spawn_blocking`.

### Runtime

`pc` follows `block_on`: tick, expired timers, a batch of at most `EventInterval`
polls, the root's poll, and a turn of the driver (wait, kqueue's reset of
`notified` and re-registration, drain of the pool's results, dispatch).  A task
is its NOTIFIED bit and its queue entry; `Task` shows why that is enough (a task
is queued exactly while it is idle and notified).  Other threads wake futures and
finish pool jobs, and call the wakeup in the steps the backend takes: one write
for the eventfd and the port, a claim and a notification for kqueue.  Kernel
behaviour (when a wait reports a wakeup, when the eventfd read completes) is
external and taken from how the backends use it.  `backend` is chosen once, from
`Backends`.  `Awaitable` says what futures
may wait for and keeps instances small.

### OpTable and Scopes

A key is a word made of a generation and a slot, as in the code; `HalfWord` is
2^32 there and 3 or 4 in the runs, so that generations run out and slots are
retired.  `Remove` advances the generation or retires the slot.  A scope lives in
the same kind of slab; the registry keeps a map from scopes to operations and one
back.  `CancelSnapshot` and `MarkCancelled` are the two halves of `cancel`.

### Uring, Kqueue, Iocp and Driver

Each backend is a record and each of its methods an operator on it.  A method the
kernel may answer in several ways is the set of its outcomes, and an outcome lists
the deferred actions the method returns, those it ran itself and those it lost
with an error.  `Uring` has the bounded submission queue, the requests the kernel
holds and the completion queue; `SubmitFails` lets `io_uring_enter` fail, also
when the teardown cancels its wakeup read or waits for the last completions.
`Kqueue` has one waiter per descriptor and direction and one-shot filters;
`ArmFails` lets the registration fail.  `Iocp` names requests by the address of
an OVERLAPPED that may be reused once its slot is gone.  Pool jobs are in
`BlockingOps`.

`Driver` chooses a backend once and adds the futures: `op[o].fut` says where the
future of an operation is, `fate` what became of its payload, and `got` (history)
that the operation produced a result.  Actions submit, poll, drop and cancel,
run a turn in its steps (wait, fetch, dispatch, run deferred actions), and tear
the runtime down (`closing`).  A cancelled source works through its snapshot
(`cancelq`) one operation at a time, and user code may run between any two steps
of the driver.  `Offered` says which operations a backend is given and `Under`
which sources they are under.  With `PoolTimeout` the teardown does not wait for
pool jobs, as after `shutdown_timeout`.

The teardown begins only when every future that outlives the runtime has been
polled (`BeginShutdown`).  The constructors of operations are `pub(crate)`, and
each caller awaits the operation in the poll that submits it, so the program has
no other futures.  The guard matters on IOCP: a pool job is dispatched by the
first poll of its future, and the drain of that backend (`iocp.rs:796-800, 822`)
would wait for ever for one that was never dispatched.

### OpContract

A payload belongs to the caller, to its future, to the driver or to nobody.  While
the kernel or a pool thread works on it, it stays with its future or the driver;
it ends once, in one of the ways `Fates` lists.  `Driver` maps its state to this
one (`Payload`) and is checked to implement it (`ImplementsContract`), on the
three backends.

### MultiStream

Streams are polled, overflow their limit, end and are dropped.  The resources they
hand out are accepted descriptors and pool buffers; `held` is what the application
has, `frees` counts how often each buffer was freed.  When `complete_item` fails it
drops the resource it was given, which is `PollStream` followed by `ReleaseItem`.
The ring's indices are words
of `PoolWord` values (2^16 in the code), so that they wrap in the run.

### Services

Seven components that share no state on one runtime thread.  A behaviour chooses
one (`part`) and leaves the others in an initial state; two runs divide them.

* `IoHandle`: clones, operations in flight, halves, and `close` or `take` that
  wait for `strong_count` to be one, with the one waker cell they share.
* `Timer`: the wheel as a set of entries, sleeps, a timeout and an interval that
  are armed, fire, are reset and dropped, and a loop that parks for `MinTimeout`.
  A timeout whose future is ready at once (`ReadyAtOnce`) never arms its sleep.
* `Signal`: a handler may interrupt a listener between any two steps of `recv`,
  registration and retirement, on several threads, and only tries the waker's
  mutex.  The Windows listener has one counter and a list of wakers.  Restoring the
  old action cannot fail for a number whose handler was installed, and a handler
  reads the registry when it is delivered: a later read would only find listeners
  registered since, whose wakes are then spurious.
* `Process`: the child is a script of writes to two pipes of `PipeCapacity`;
  `wait_with_output` drains both at once and then waits.  A wait may fail
  (`WaitFails`, `TryWaitFails`) and leaves the child as it was.
* `Operations`: an operation is a row (how it starts on each backend, what it does
  with a refused submission, the steps of `complete`); the actions follow one call
  from submission to delivery or drop, with the descriptor, buffer and pool buffer
  it may own.
* `Framed`: items are framed by a length field, a delimiter or not at all, cross a
  stream that cuts, fails and ends, and are decoded; calls are dropped and taken
  up again, and parts are taken out and put back (`MaxRebuilds`).  A flush or a
  shutdown that the stream refuses leaves what a dropped call leaves (`DropSink`).
* `Tls`: `sess` holds the sticky state of each direction, `adapter` the bytes
  between Rustls and the transport, `op` the operation of each half and the await
  it is at.  An await of the transport may end well, partly, fail, be cancelled or
  be dropped with its future.  Handing ciphertext to Rustls may fail before any
  is taken (`ProcessFails`), and the empty write after it was processed may fail
  too (`Process`).  The peer is a script of records.  `written` and
  `delivered` are histories of what reached the transport and the application.

## Runs

| Run | Instance | Checks |
|---|---|---|
| `half_lock` | 3 readers, 2 writers, 3 stores | no use after free; a barrier ends once readers stop |
| `blocking_pool` | 3 worker names and a cap of 2, 2 optional jobs (one with a panicking destructor) and a mandatory one, a timed and an untimed shutdown | no stranded job, nothing runs after a join; jobs settle and shutdown returns if jobs return; mandatory jobs run even if they do not |
| `task` | a local task with 2 wakers and 2 join wakers, or a pool task; panicking destructors | references, exclusive cells, join wake; a wake leads to a poll, an abort to completion |
| `task_shutdown` | 1 waker | **violated**: every cancelled task is in a queue |
| `runtime` | 2 self-waking tasks, 1 thread, every event source, eventfd, user event and port, interrupts | each woken task queued once, never parked on work; woken futures polled, events served |
| `runtime_pipe` | pipe wakeup | **violated**: never parked on work |
| `driver` | each backend with 2 operations (a read with a pool job; on kqueue also with a connect and with a second read of the descriptor), both under one source, keys of 4 by 4 values, 2 submission entries, failing submissions | payloads pinned, no stale key, exact scopes, cancellation reaches all, results kept, the contract; operations resolve, shutdown ends |
| `driver_timeout` | the same with `PoolTimeout`, kqueue | **violated**: payloads pinned |
| `multishot` | 2 receive streams sharing 2 buffers, or an accept stream; one submission entry, limit 1 | every resource in one place, freed once, no lost wakeup, a stopped stream is stopped in the kernel |
| `services` | 3 handles, 2 operations in flight, 1 closer; a timeout and an interval of period 2 to time 5; every child script of up to 4 writes over pipes of 2 | no use of a closed handle, exact timers, ticks on the grid; close, sleep and wait_with_output end |
| `streams` | 2 listeners, 2 handler threads, 2 signals; 27 operations on 3 backends; 4 framings, 2 items; 12 peers, 2 TLS calls | no signal lost, handler installed while listened for, nothing leaks, frames exact, wire and plaintext faithful |
| `buffered` | buffers of 2, streams of 4 bytes | **violated**: bytes in order |

Runs that check no deadlock are those of systems that legitimately stop: a pool
that was shut down, a task whose last reference is gone, a stream that has ended.

**Why the bounds are enough.**  Every property is about two or three parties: a
waker, a poller and a handle; a dispatcher, a worker that wakes and one that
expires; a thread about to claim, one about to notify, and the runtime; an
operation, its cancellation and the one that takes over its slot; two streams
competing for a buffer; two halves of a stream.  Words are small enough to wrap
and queues small enough to fill.  Each instance has at least as many of each kind
as the faults listed with its properties need, which TLC confirms by finding every
fault, and for many safety properties a proof removes the bound.  Liveness is only
known for the instances.

**Fairness.**  The runtime thread and threads in the middle of an operation keep
running (the operating system schedules them); a poll returns; the kernel serves
a read it has accepted.  In `Driver` a cancelled request and a pool job end, as
does a request of a ring that is being shut down, and a task that is woken again
and again is polled; that a read which nobody cancelled ends is not assumed.  In
`Services` an operation in flight ends, the clock moves, a child makes progress
while its pipes have room.  Not assumed: that a future becomes ready, that a task
stops waking itself, that a join handle is polled, that an optional job of the
pool returns, or that any event happens.  The liveness properties of the pool that
need jobs to return say so (`OptionalJobsReturn`), and exempt the behaviours in
which the drop of a job has unwound a thread (`Unwound`).  Signals, operations,
framed and TLS streams, and multishot streams are checked for safety only.

## Where code and documentation disagree

The four violated runs are counterexamples to a statement in the repository; the
`findings` of `PROJECT.json` quote them.

1. *Scheduler shutdown* (`task_shutdown`).  A task that another thread has marked
   NOTIFIED but not yet pushed is in no queue, and the `expect` panics.
2. *Pipe wakeup* (`runtime_pipe`).  `notified` is cleared before the pipe is
   drained; a byte written in between is swallowed and later wakes give up.
3. *Timed shutdown on kqueue* (`driver_timeout`).  The backend clears its table
   while a pool thread still works on the buffer of a detached operation.
4. *BufReader* (`buffered`).  `fill_buf` returns the whole buffer, consumed bytes
   included, when some are left (`io/read/buf_reader.rs:143`).  The shortest
   counterexample is this one; the property would fail in two more places:
   `read_vectored` discards bytes that are still buffered
   (`io/read/buf_reader.rs:118`), and `flush_buf` writes the whole vector, not only
   the bytes put into it (`io/write/buf_writer.rs:78`).

Other places where the models had to follow the code and not an expectation; no
run is about them, and the properties exempt them by name:

* The destructor of a discarded pool job may unwind a worker that never decrements
  `num_threads`; an untimed shutdown then waits for ever (`runtime/blocking.rs:311`,
  `Unwound`).
* The destructor of a cancelled future may panic before the cancellation error is
  stored; awaiting the handle then panics (`task/vtable.rs:271`, the hypothesis of
  `OutputKept`).
* `IoUringBackend::wait` reports EINTR, which `block_on` turns into a panic
  (`driver/backends/iouring.rs:888`, `Interrupts`).
* After a failed submission `dispatch_completions` returns early and drops the
  wakes it has collected (`driver/backends/iouring.rs:978`, `be.failed`).
* The IOCP teardown waits for pool jobs even after a timed shutdown of the pool
  (`driver/backends/iocp.rs:822`, `PoolTimeout`).
* Two futures that close clones of one handle share one waker cell; the first one
  is not woken again (`driver/helpers/io_handle.rs:123`, `MaxClosers = 1`).
* The writer's `shutdown` of a split TLS stream stores `Closed` when it ends, over
  a failure the reader recorded meanwhile (`tls/split.rs:521`).
* `Interval::reset(None)` makes the next tick fire at once, where its comment
  promises one period later (`time/interval.rs:35`).
* A `BufReader` or `BufWriter` whose call is dropped while the inner operation has
  the buffer is left with an empty one (`io/read/buf_reader.rs:126`,
  `io/write/buf_writer.rs:76`).

## Proofs

The theorems hold for any sets of threads, wakers, jobs, tasks, handles, timers,
listeners and handlers, any script of a TLS peer, and any word size.  The constants
satisfy the `ASSUME` of their module: sets that are counted are finite, `None` is
not an element, listeners and handlers have different names, the thread cap is
positive and there are that many thread names, `EventInterval`, `Period` and
`OutCapacity` are positive, an Interval is ticked by one task at a time, a peer
sends units of the five kinds `Tls` knows.  `NoLostWakeup` also assumes that the
pipe is not among the `Backends`, and `OutputKept` that no destructor panics.

* `BlockingPoolProofs`.  The invariant relates the three counters to the sets of
  workers in each state and says that a non-empty queue implies an active or
  notified worker, or a shutdown caller that has not drained it.
  `IdleCountExact`, `ThreadCapKept`, `NoJobStranded`, `MandatoryNotDiscarded`.
  `QuietInv` adds who holds a job: a queued job is in the queue, a running one with
  a worker or the draining caller (`JobsHeld`), one caller at a time joins the workers (`OneJoins`),
  it drained the queue first (`DrainedFirst`), and whoever has returned found all
  of them joined (`JoinedAll`).  `ShutdownLeavesQuiet`.
* `TaskProofs`.  `TaskInv` has one part per concern: the poller and the flags
  (`RunnerInv`), the handle and the flags (`JoinInv`), the count (`CountInv`), the
  cells (`CellsInv`), the join wake, the output, the home scheduler and the pool
  task.  A holder of a reference keeps the allocation alive (`HolderKeepsAlive`),
  which is what makes the other parts local to each action.  `ReferencesExact`,
  `NotifiedOnce`, `CellsExclusive`, `NoAssertionFails`, `JoinWakeKept`,
  `DiesAtHome`, `OutputKept` (if destructors do not panic), `PoolTaskRunsOnce`.
* `RuntimeProofs`.  Work is announced by the thread that published it until its
  wakeup reaches the kernel, and by the kernel until a wait returns; kqueue's flag
  is backed by a trigger or a thread about to make one.  `NoLostWakeup`, for every
  wakeup but the pipe's.  `QueuedOnce` counts entries; its invariant (`QueueInv`)
  does without counting: the queues have no repetitions, no two of them and no
  thread about to push share a task (`Apart`), and together they hold exactly the
  notified tasks that are not being polled (`Covered`).  `EachTaskQueuedOnce`.
* `DriverProofs`, about the operators of `OpTable` and `Scopes` and about the
  contract.  The free list (`FreeList`) is a chain of vacant slots without
  repetition; with it a removed key is spent, and a spent key stays spent whatever
  the table does next.  `RegistryInv` adds that an active scope lists exactly the
  operations attached to it and that attachments name scopes that were issued.
  `KeysRoundTrip`, `RemovedIsSpent`, `SpentForEver`, `MapsStayExact`,
  `CancelledForEver`.  `Clear`, a loop over the slots, is not covered.  By the
  contract a payload that is with its caller is untouched, and one that is gone is
  idle and has one fate (`Sound`): `BusyIsPinned`.  TLC shows that
  `Driver` implements the contract on the instance of the run; that step is not
  proved.
* `LifetimeProofs`, about `HalfLock` and `IoHandle`.  Each slot's count is tied to
  the readers holding it, and a reader of an old allocation holds a slot the
  barrier has not yet seen empty: `SafeReads`, `NoLeakNoDoubleFree`.
  `strong_count` is one exactly for a clone that is alone (`AloneHandle`, from the
  cardinalities), and a close operation has the resource for itself
  (`CloserAlone`): `ResourceOutlivesUsers`.
* `WakeupProofs`, about `Timer` and `Signal`.  An armed sleep has a key of its own,
  and its entry stays in the wheel until its deadline has come (`WheelInv`):
  `WheelHoldsPending`.  Subtracting the drift from now plus a period gives a grid
  point later than now (`GridInv`): `TicksStayOnGrid`.  For signals the difficulty
  is a handler that finds the lock of a slot taken and skips it.  `SignalInv` says
  that the locks are those of polls and handlers in their critical sections
  (`LocksHeld`), that a waker that was stored stays in its slot or with a handler
  until its task is awake (`WakerKept`), that a handler in its critical section has
  woken the task whose poll is past the lock (`HeldWoke`), and that a parked
  listener that is behind its counter has a handler coming (`Reached`).
  `ParkedIsReached`.  The registry and the installed handlers change together
  (`RegistryExact`): `NeverTheDefaultAction`.
* `TlsProofs`, about what is written.  `Control` says where each future can be and
  that the session an operation on the transport has saved is the one it marked
  abandoned.  The output is either exact (`Exact`: what is on the wire, in flight
  or in the adapter, and in Rustls are consecutive numbers) or ended (`Ended`:
  nobody will write again, because the write side closed or an operation was
  dropped or failed), and a write that returned `Ok` is on the wire (`Kept`).
  `WireStaysFaithful`.
* `TlsPlainProofs`, about what is read, on top of `TlsInv`.  Delivered data and what
  Rustls holds are the data of the first units of the script, and the rest of what
  was received is in the adapter (`Live`), unless a dropped read lost it; then the
  reader is dead in every state the session can return to (`ReaderDead`).  The end
  is seen only with nothing left to deliver.  `PlaintextStaysFaithful`.

`process_new_packets` handles any number of units in one call.  Its model is a
recursive function, and what it preserves is shown by taking the least number of
units at which it fails (`NatMin`, from the well-foundedness of the naturals), so
this one induction over data needs no induction rule with an operator parameter.

Only model-checked: all liveness properties (they need fairness); the refinement
`ImplementsContract` and the invariants of `Driver` and `MultiStream`, whose
actions fold over the table and the completion queue of one of three backends;
`NothingLeaks`, about a table of step lists run by a fold; and `FramesExact`,
where the reader parses a concatenation of encodings of any length.

## Not modelled

* Rustls: `Tls` treats it as a queue of records with the answers the engine reacts
  to.  The record protocol, certificates and the metadata accessors of
  `tls/client.rs` and `tls/server.rs` are left out.
* Codecs that transform items: the codec in `Framed` passes payloads through.
* The arguments of system calls, address resolution, socket options, open flags
  and metadata layout (`net/`, `fs/`, `driver/helpers/socket.rs`): conversions
  between platform structures, with no state of their own.  The types in `net/`
  and `fs/` otherwise wrap one operation over one shared handle each, which
  `Operations` and `IoHandle` model.
* `buf/` other than the pool: bounds arithmetic on one buffer within one call.
* The provided methods of the I/O traits other than `write_all`: loops over `read`
  and `write` that keep nothing between calls.
* `builder.rs`, `lib.rs` and the macros: configuration and generated code.  What
  the builder sets is a constant of the models (`ThreadCap` and the like).
* `tls/server.rs` wraps the engine and the halves, and `Tls` models what it wraps;
  so does `tls/client.rs`.
* `driver/helpers/attached_handle.rs` adds to a shared handle, which is in
  `IoHandle`, its association with the completion port of IOCP: one call when the
  handle is made, which fails or has no further effect on the driver's state.
* Memory orderings weaker than the interleaving of atomic steps.
