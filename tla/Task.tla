-------------------------------- MODULE Task --------------------------------
(***************************************************************************)
(* One task: its state word, its future or output, its join-waker cell,    *)
(* and everything that holds a reference to it - the home scheduler's      *)
(* queues and owned table (runtime/local/scheduler.rs), the thread that    *)
(* polls it (task/vtable.rs), wakers on other threads (task/waker.rs,      *)
(* task/raw.rs) and the JoinHandle (task/join.rs).                         *)
(*                                                                         *)
(* Every access to the state word, to a queue and to the two unsafe cells  *)
(* is a step of its own; consecutive steps of one thread on data no other  *)
(* thread reads are merged.  The task is a local one or, when phase is     *)
(* "pool", one of spawn_blocking_task: a pool worker runs it once or drops *)
(* it unrun, and there is no owned table, no waker and no second poll.     *)
(***************************************************************************)
EXTENDS TaskState, FiniteSets

CONSTANTS Wakers,       \* places where a clone of the task's waker can live
          JoinWakers,   \* wakers that a JoinHandle can be polled with
          None,
          PanickyDrop   \* the future's destructor may panic

ASSUME TaskAssumption ==
    /\ IsFiniteSet(Wakers)
    /\ None \notin JoinWakers
    /\ PanickyDrop \in BOOLEAN

VARIABLES state,        \* Header::state
          stage,        \* InternalTask::future: running, finished or consumed
          jwaker,       \* Trailer::waker
          freed,        \* the allocation has been released
          local, remote,    \* entries of the task in the two run queues
          owned,        \* the scheduler's OwnedTask exists
          phase,        \* its scheduler: open, closing, closed or panicked; or the pool
          opc,          \* the thread that runs the task
          wpc,          \* each waker
          jpc, jarg, jpending, jwoken, jdrop,   \* the JoinHandle's owner
          wake          \* a wake has been asked for and no poll has begun since

cells == <<stage, jwaker>>
sched == <<local, remote, owned, phase>>
joiner == <<jpc, jarg, jpending, jwoken, jdrop>>
vars == <<state, cells, freed, sched, opc, wpc, joiner, wake>>

\* Inside Task::run, and so in possession of the poller's reference.
Polling == {"polling", "yield", "cancel", "finish", "drop_output",
            "wake_join", "unset_waker", "drop_waker", "drop_ref"}
JoinPoll == {"compare", "unset", "write", "set", "clear", "take"}

\* Every variable stays in its domain; the reference count and the queue lengths
\* stay natural numbers (ref_dec subtracts unchecked).
TypeOK ==
    /\ state \in Snapshot
    /\ stage \in {"running", "finished", "consumed"}
    /\ jwaker \in JoinWakers \cup {None}
    /\ freed \in BOOLEAN /\ owned \in BOOLEAN /\ wake \in BOOLEAN
    /\ local \in Nat /\ remote \in Nat
    /\ phase \in {"open", "closing", "closed", "panicked", "pool"}
    /\ opc \in {"loop", "ran"} \cup Polling
    /\ wpc \in [Wakers -> {"none", "held", "push_ref", "push_val", "drop"}]
    /\ jpc \in {"held", "done", "push", "drop_output", "drop_waker", "drop_ref", "gone"} \cup JoinPoll
    /\ jarg \in JoinWakers \cup {None}
    /\ jpending \in BOOLEAN /\ jwoken \in BOOLEAN /\ jdrop \in BOOLEAN

\* A task of the blocking pool.
Blocking == phase = "pool"

\* new_task, or new_owned_task and Scheduler::spawn: the first Task is queued.
Init ==
    /\ phase \in {"open", "pool"}
    /\ state = IF Blocking THEN InitialState ELSE RefInc(InitialState)
    /\ stage = "running"
    /\ jwaker = None
    /\ freed = FALSE
    /\ local = 1 /\ remote = 0
    /\ owned = ~Blocking
    /\ opc = "loop"
    /\ wpc = [w \in Wakers |-> "none"]
    /\ jpc = "held" /\ jarg = None /\ jpending = FALSE /\ jwoken = FALSE /\ jdrop = FALSE
    /\ wake = TRUE

-----------------------------------------------------------------------------
\* Install a snapshot; whoever took the last reference runs dealloc, which
\* drops what the cells still hold.
Install(s) ==
    /\ state' = s
    /\ IF s.refs = 0
       THEN freed' = TRUE /\ stage' = "consumed" /\ jwaker' = None
       ELSE UNCHANGED <<freed, cells>>

DropReference == Install(RefDec(state))

\* RemoteTaskQueue::push_back: a closed queue rejects the Task and drops it.
PushRemote ==
    IF phase = "closed"
    THEN DropReference /\ UNCHANGED remote
    ELSE remote' = remote + 1 /\ UNCHANGED <<state, cells, freed>>

\* A wake that finds the task unfinished must lead to a poll.
Asked(s) == wake' = (wake \/ ~s.complete)

-----------------------------------------------------------------------------
(* The home scheduler. *)

\* Scheduler::tick: drain the remote queue into the local one.
Tick ==
    /\ phase = "open" /\ opc = "loop" /\ remote > 0
    /\ local' = local + remote
    /\ remote' = 0
    /\ UNCHANGED <<state, cells, freed, owned, phase, opc, wpc, joiner, wake>>

\* Task::run up to the poll: transition_to_running.
EnterPoll(l) ==
    LET r == ToRunning(state) IN
    /\ l > 0
    /\ local' = l - 1
    /\ Install(r.state)
    /\ opc' = IF r.act = "Success" THEN "polling" ELSE IF r.act = "Cancelled" THEN "cancel" ELSE "ran"
    /\ wake' = (wake /\ r.act \notin {"Success", "Cancelled"})
    /\ UNCHANGED <<owned, wpc, joiner>>

\* The run loop (or a pool worker) takes the next Task of the queue.
RunNext ==
    /\ phase \in {"open", "pool"} /\ opc = "loop"
    /\ EnterPoll(local)
    /\ UNCHANGED <<remote, phase>>

\* Scheduler::shutdown with unfinished tasks: abort each one; shutdown runs
\* outside the scheduler context, so the notification goes to the remote queue.
BeginShutdown ==
    LET r == ToCancelled(state) IN
    /\ phase = "open" /\ opc = "loop" /\ owned
    /\ state' = r.state
    /\ remote' = IF r.act = "Submit" THEN remote + 1 ELSE remote
    /\ phase' = "closing"
    /\ UNCHANGED <<cells, freed, local, owned, opc, wpc, joiner, wake>>

\* Its loop: drain, pop_front().expect(...), run_task.
ShutdownStep ==
    /\ phase = "closing" /\ opc = "loop" /\ owned
    /\ remote' = 0
    /\ \/ /\ local + remote > 0
          /\ EnterPoll(local + remote)
          /\ UNCHANGED phase
       \/ /\ local + remote = 0
          /\ phase' = "panicked"
          /\ UNCHANGED <<state, cells, freed, local, owned, opc, wpc, joiner, wake>>

\* The end of shutdown: close the remote queue, drop what either queue holds.
CloseQueues ==
    /\ phase \in {"open", "closing"} /\ opc = "loop" /\ ~owned
    /\ Install([state EXCEPT !.refs = @ - (local + remote)])
    /\ local' = 0 /\ remote' = 0
    /\ phase' = "closed"
    /\ UNCHANGED <<owned, opc, wpc, joiner, wake>>

\* The pool discards an optional job at shutdown: the Task is dropped unrun.
DiscardJob ==
    /\ Blocking /\ opc = "loop" /\ local > 0
    /\ local' = local - 1
    /\ DropReference
    /\ UNCHANGED <<remote, owned, phase, opc, wpc, joiner, wake>>

-----------------------------------------------------------------------------
(* vtable::poll. *)

\* Waker::clone, by the future being polled or by a thread that has a waker.
CloneWaker(w) ==
    /\ ~Blocking
    /\ opc = "polling" \/ \E v \in Wakers : wpc[v] = "held"
    /\ wpc[w] = "none"
    /\ wpc' = [wpc EXCEPT ![w] = "held"]
    /\ state' = RefInc(state)
    /\ UNCHANGED <<cells, freed, sched, opc, joiner, wake>>

\* The future wakes its own task.
WakeSelf ==
    /\ opc = "polling" /\ ~Blocking
    /\ state' = NotifyByRef(state).state
    /\ Asked(state)
    /\ UNCHANGED <<cells, freed, sched, opc, wpc, joiner>>

\* Poll::Pending: transition_to_idle.
PollPending ==
    LET r == ToIdle(state) IN
    /\ opc = "polling" /\ ~Blocking
    /\ Install(r.state)
    /\ opc' = IF r.act = "OkNotified" THEN "yield" ELSE IF r.act = "Cancelled" THEN "cancel" ELSE "ran"
    /\ UNCHANGED <<sched, wpc, joiner, wake>>

\* Poll::Ready, or a caught panic: store_output.
PollReady ==
    /\ opc = "polling"
    /\ stage' = "finished"
    /\ opc' = "finish"
    /\ UNCHANGED <<state, jwaker, freed, sched, wpc, joiner, wake>>

\* yield_now on the owner thread, inside the scheduler's context.
Yield ==
    /\ opc = "yield"
    /\ local' = local + 1
    /\ opc' = "drop_ref"
    /\ UNCHANGED <<state, cells, freed, remote, owned, phase, wpc, joiner, wake>>

\* cancel_task: drop the future, store the cancellation error.  A panic of the
\* destructor is caught around both, so then nothing is stored.
CancelTask ==
    /\ opc = "cancel"
    /\ stage' \in {"finished"} \cup (IF PanickyDrop THEN {"consumed"} ELSE {})
    /\ opc' = "finish"
    /\ UNCHANGED <<state, jwaker, freed, sched, wpc, joiner, wake>>

\* complete: transition_to_complete decides who deals with output and waker.
Complete ==
    /\ opc = "finish"
    /\ state' = ToComplete(state)
    /\ opc' = IF ~state.join_interest THEN "drop_output"
              ELSE IF state.join_waker THEN "wake_join" ELSE "drop_ref"
    /\ wake' = FALSE
    /\ UNCHANGED <<cells, freed, sched, wpc, joiner>>

\* complete: nobody wants the output.
DropOutput ==
    /\ opc = "drop_output"
    /\ stage' = "consumed"
    /\ opc' = "drop_ref"
    /\ UNCHANGED <<state, jwaker, freed, sched, wpc, joiner, wake>>

\* complete: Trailer::wake_join wakes the stored waker by reference.
WakeJoin ==
    /\ opc = "wake_join"
    /\ jwoken' = (jwoken \/ jwaker = jarg)
    /\ opc' = "unset_waker"
    /\ UNCHANGED <<state, cells, freed, sched, wpc, jpc, jarg, jpending, jdrop, wake>>

\* complete: unset_waker_after_complete.
UnsetJoinWaker ==
    /\ opc = "unset_waker"
    /\ state' = UnsetWaker(state)
    /\ opc' = IF state.join_interest THEN "drop_ref" ELSE "drop_waker"
    /\ UNCHANGED <<cells, freed, sched, wpc, joiner, wake>>

\* complete: the handle went away meanwhile, so its waker is ours to drop.
DropJoinWaker ==
    /\ opc = "drop_waker"
    /\ jwaker' = None
    /\ opc' = "drop_ref"
    /\ UNCHANGED <<state, stage, freed, sched, wpc, joiner, wake>>

\* The poller's reference.
DropPollerRef ==
    /\ opc = "drop_ref"
    /\ DropReference
    /\ opc' = "ran"
    /\ UNCHANGED <<sched, wpc, joiner, wake>>

\* Scheduler::run_task after Task::run: release the OwnedTask of a finished task.
AfterRun ==
    /\ opc = "ran"
    /\ opc' = "loop"
    /\ IF owned /\ state.complete
       THEN owned' = FALSE /\ DropReference
       ELSE UNCHANGED <<owned, state, cells, freed>>
    /\ UNCHANGED <<local, remote, phase, wpc, joiner, wake>>

-----------------------------------------------------------------------------
(* A waker on another thread (RawTask::wake_by_val, wake_by_ref). *)

WakeByRef(w) ==
    LET r == NotifyByRef(state) IN
    /\ wpc[w] = "held"
    /\ state' = r.state
    /\ Asked(state)
    /\ wpc' = [wpc EXCEPT ![w] = IF r.act = "Submit" THEN "push_ref" ELSE "held"]
    /\ UNCHANGED <<cells, freed, sched, opc, joiner>>

WakeByVal(w) ==
    LET r == NotifyByVal(state) IN
    /\ wpc[w] = "held"
    /\ Install(r.state)
    /\ Asked(state)
    /\ wpc' = [wpc EXCEPT ![w] = IF r.act = "Submit" THEN "push_val" ELSE "none"]
    /\ UNCHANGED <<sched, opc, joiner>>

\* schedule() from a thread other than the owner.
Push(w) ==
    /\ wpc[w] \in {"push_ref", "push_val"}
    /\ PushRemote
    /\ wpc' = [wpc EXCEPT ![w] = IF @ = "push_ref" THEN "held" ELSE "drop"]
    /\ UNCHANGED <<local, owned, phase, opc, joiner, wake>>

\* wake_by_val's own reference, or Drop of a waker that was not used.
DropWaker(w) ==
    /\ wpc[w] \in {"held", "drop"}
    /\ DropReference
    /\ wpc' = [wpc EXCEPT ![w] = "none"]
    /\ UNCHANGED <<sched, opc, joiner, wake>>

\* A wake by reference on the owner thread (a completion, a timer, another
\* task): inside the scheduler's context the notification goes to the local queue.
WakeLocally(w) ==
    LET r == NotifyByRef(state) IN
    /\ phase = "open" /\ opc = "loop" /\ wpc[w] = "held"
    /\ state' = r.state
    /\ Asked(state)
    /\ local' = IF r.act = "Submit" THEN local + 1 ELSE local
    /\ UNCHANGED <<cells, freed, remote, owned, phase, opc, wpc, joiner>>

-----------------------------------------------------------------------------
(* The JoinHandle: JoinHandle::poll is can_read_output and take_output. *)

\* can_read_output: the first snapshot.
JoinPollStart(jw) ==
    /\ jpc = "held"
    /\ jarg' = jw
    /\ jwoken' = FALSE
    /\ jpc' = IF state.complete THEN "take"
              ELSE IF state.join_waker THEN "compare" ELSE "write"
    /\ UNCHANGED <<state, cells, freed, sched, opc, wpc, jpending, jdrop, wake>>

\* The poll returns Pending; the caller waits for the waker it passed.
JoinPending ==
    /\ jpc' = "held"
    /\ jpending' = TRUE

\* trailer.will_wake: same waker, nothing to do.
JoinCompare ==
    /\ jpc = "compare"
    /\ \/ jwaker = jarg /\ JoinPending
       \/ jwaker # jarg /\ jpc' = "unset" /\ UNCHANGED jpending
    /\ UNCHANGED <<state, cells, freed, sched, opc, wpc, jarg, jwoken, jdrop, wake>>

\* unset_waker, to gain access to the cell; it fails on a complete task.
JoinUnset ==
    /\ jpc = "unset"
    /\ \/ state.complete /\ jpc' = "take" /\ UNCHANGED state
       \/ ~state.complete /\ jpc' = "write" /\ state' = UnsetWaker(state)
    /\ UNCHANGED <<cells, freed, sched, opc, wpc, jarg, jpending, jwoken, jdrop, wake>>

\* set_join_waker: write the cell, then publish it.
JoinWrite ==
    /\ jpc = "write"
    /\ jwaker' = jarg
    /\ jpc' = "set"
    /\ UNCHANGED <<state, stage, freed, sched, opc, wpc, jarg, jpending, jwoken, jdrop, wake>>

\* Fault: a task that completed meanwhile is not noticed.
JoinSetBlindly ==
    /\ jpc = "set"
    /\ JoinPending /\ state' = SetJoinWaker(state)
    /\ UNCHANGED <<cells, freed, sched, opc, wpc, jarg, jwoken, jdrop, wake>>

JoinSet ==
    /\ jpc = "set"
    /\ \/ ~state.complete /\ JoinPending /\ state' = SetJoinWaker(state)
       \/ state.complete /\ jpc' = "clear" /\ UNCHANGED <<state, jpending>>
    /\ UNCHANGED <<cells, freed, sched, opc, wpc, jarg, jwoken, jdrop, wake>>

JoinClear ==
    /\ jpc = "clear"
    /\ jwaker' = None
    /\ jpc' = "take"
    /\ UNCHANGED <<state, stage, freed, sched, opc, wpc, jarg, jpending, jwoken, jdrop, wake>>

\* take_output; a handle that has returned Ready is only dropped.
JoinTake ==
    /\ jpc = "take"
    /\ stage' = "consumed"
    /\ jpc' = "done"
    /\ UNCHANGED <<state, jwaker, freed, sched, opc, wpc, jarg, jpending, jwoken, jdrop, wake>>

\* JoinHandle::abort; a Submit is pushed from the handle's thread.
JoinAbort ==
    LET r == ToCancelled(state) IN
    /\ jpc = "held"
    /\ state' = r.state
    /\ jpc' = IF r.act = "Submit" THEN "push" ELSE "held"
    /\ wake' = (wake \/ r.act = "Submit")
    /\ UNCHANGED <<cells, freed, sched, opc, wpc, jarg, jpending, jwoken, jdrop>>

JoinPush ==
    /\ jpc = "push"
    /\ PushRemote
    /\ jpc' = "held"
    /\ UNCHANGED <<local, owned, phase, opc, wpc, jarg, jpending, jwoken, jdrop, wake>>

\* Drop for JoinHandle: the compare_exchange_weak against INITIAL_STATE.
JoinDropFast ==
    /\ jpc \in {"held", "done"}
    /\ state = InitialState
    /\ state' = JoinHandleDroppedFast(state)
    /\ jpc' = "gone"
    /\ UNCHANGED <<cells, freed, sched, opc, wpc, jarg, jpending, jwoken, jdrop, wake>>

\* drop_join_handle: the transition says what is ours to drop.
JoinDropSlow ==
    LET r == JoinHandleDropped(state) IN
    /\ jpc \in {"held", "done"}
    /\ state' = r.state
    /\ jdrop' = r.drop_waker
    /\ jpc' = IF r.drop_output THEN "drop_output"
              ELSE IF r.drop_waker THEN "drop_waker" ELSE "drop_ref"
    /\ UNCHANGED <<cells, freed, sched, opc, wpc, jarg, jpending, jwoken, wake>>

JoinDropOutput ==
    /\ jpc = "drop_output"
    /\ stage' = "consumed"
    /\ jpc' = IF jdrop THEN "drop_waker" ELSE "drop_ref"
    /\ UNCHANGED <<state, jwaker, freed, sched, opc, wpc, jarg, jpending, jwoken, jdrop, wake>>

JoinDropWaker ==
    /\ jpc = "drop_waker"
    /\ jwaker' = None
    /\ jpc' = "drop_ref"
    /\ UNCHANGED <<state, stage, freed, sched, opc, wpc, jarg, jpending, jwoken, jdrop, wake>>

JoinDropRef ==
    /\ jpc = "drop_ref"
    /\ DropReference
    /\ jpc' = "gone"
    /\ UNCHANGED <<sched, opc, wpc, jarg, jpending, jwoken, jdrop, wake>>

-----------------------------------------------------------------------------
Scheduler == Tick \/ RunNext \/ BeginShutdown \/ ShutdownStep \/ CloseQueues \/ DiscardJob

Finishing ==
    \/ Yield \/ CancelTask \/ Complete \/ DropOutput \/ WakeJoin \/ UnsetJoinWaker
    \/ DropJoinWaker \/ DropPollerRef \/ AfterRun

Poller == WakeSelf \/ PollPending \/ PollReady \/ Finishing

Waker(w) == CloneWaker(w) \/ WakeByRef(w) \/ WakeByVal(w) \/ Push(w) \/ DropWaker(w) \/ WakeLocally(w)

JoinSteps ==
    \/ JoinCompare \/ JoinUnset \/ JoinWrite \/ JoinSet \/ JoinClear \/ JoinTake
    \/ JoinPush \/ JoinDropOutput \/ JoinDropWaker \/ JoinDropRef

Join == JoinSteps \/ JoinAbort \/ JoinDropFast \/ JoinDropSlow \/ \E jw \in JoinWakers : JoinPollStart(jw)

Next == Scheduler \/ Poller \/ Join \/ \E w \in Wakers : Waker(w)

Spec == Init /\ [][Next]_vars

\* What the scheduling of threads gives: the owner keeps ticking and running,
\* polls return, and a thread inside a wake, an abort or a poll gets through it.
Fairness ==
    /\ WF_vars(Tick) /\ WF_vars(RunNext) /\ WF_vars(ShutdownStep)
    /\ WF_vars(PollPending \/ PollReady) /\ WF_vars(Finishing)
    /\ WF_vars(JoinSteps)
    /\ \A w \in Wakers : WF_vars(Push(w))

FairSpec == Spec /\ Fairness

-----------------------------------------------------------------------------
One(b) == IF b THEN 1 ELSE 0

Pushing == {w \in Wakers : wpc[w] \in {"push_ref", "push_val"}}
Holding == {w \in Wakers : wpc[w] # "none"}

\* Task values: a queue entry, or one on its way into a queue.
Tasks == local + remote + One(opc = "yield") + One(jpc = "push") + Cardinality(Pushing)

HeldRefs == Tasks + One(owned) + One(opc \in Polling) + One(jpc # "gone") + Cardinality(Holding)

\* The reference count is exactly the number of references that threads, queues
\* and the owned table hold, and the allocation is released exactly with the
\* last one: no use after free, no double free, no leak (State::ref_dec, dealloc).
RefCounted ==
    /\ state.refs = HeldRefs
    /\ freed <=> state.refs = 0

\* A task is in the queues, or on its way there, at most once, and exactly when it
\* is idle and NOTIFIED; so no notification is lost or run twice
\* (transition_to_notified_by_val/by_ref, transition_to_cancelled, OkNotified).
OneNotification ==
    /\ Tasks <= 1
    /\ Tasks = 1 => IsIdle(state) /\ state.notified
    /\ IsIdle(state) /\ state.notified /\ ~Blocking => Tasks = 1

\* The two unsafe cells are never accessed by the polling thread and the
\* JoinHandle's thread at once, unless both only read (the access rules behind
\* Trailer::set_waker, wake_join, drop_future_or_output and take_output).
NoCellRace ==
    /\ ~(opc \in {"polling", "cancel", "drop_output"} /\ jpc \in {"take", "drop_output"})
    /\ ~(opc = "wake_join" /\ jpc \in {"write", "clear", "drop_waker"})
    /\ ~(opc = "drop_waker" /\ jpc \in {"compare", "write", "clear", "drop_waker"})

\* Every assert!, unwrap and expect of state.rs, vtable.rs and trailer.rs holds
\* when a thread reaches it.
AssertionsHold ==
    /\ local + remote > 0 => state.notified                    \* transition_to_running
    /\ opc \in {"polling", "cancel"} => stage = "running"      \* InternalTask::poll
    /\ opc \in {"polling", "cancel", "finish"} => state.running /\ ~state.complete
    /\ opc = "wake_join" => jwaker # None                      \* wake_join
    /\ opc \in {"wake_join", "unset_waker"} => state.complete /\ state.join_waker
    /\ jpc \in JoinPoll \cup {"held"} => state.join_interest
    /\ jpc = "compare" => jwaker # None                        \* will_wake
    /\ jpc = "unset" => state.complete \/ state.join_waker      \* unset_waker
    /\ jpc \in {"write", "set"} => ~state.join_waker           \* set_join_waker

\* A JoinHandle that reaches take_output finds the output, never an empty stage.
OutputThere == jpc = "take" => stage = "finished"

\* A JoinHandle that returned Pending has its last waker woken once the task is
\* complete: the re-registration of another waker races the completion without
\* losing the wake (can_read_output, set_join_waker, complete).
NoLostJoinWake ==
    jpc = "held" /\ jpending /\ state.complete /\ opc # "wake_join" => jwoken

\* Once neither the home scheduler nor the JoinHandle refers to the task, it holds
\* neither future nor output: what a waker frees on another thread is an empty
\* shell (the OwnedTask contract, and drop_join_handle's comment).
FutureStaysHome == ~Blocking /\ ~owned /\ opc = "loop" /\ jpc = "gone" => stage = "consumed"

\* When the scheduler has closed its queues no Task is left in them or on its way,
\* so push_back rejects nothing that was still to run (Scheduler::shutdown).
NothingRejected == phase = "closed" => Tasks = 0 /\ state.complete

\* A pool task is never put back into a queue (BlockingSchedule::schedule is
\* unreachable!).
NeverRescheduled == Blocking => opc # "yield" /\ jpc # "push" /\ Pushing = {}

\* The scheduler's shutdown finds the notification of every task it cancelled
\* (the expect in Scheduler::shutdown and the comment above it).
NotificationThere == phase # "panicked"

\* A wake of an unfinished local task is followed by a poll that begins after it, or
\* by the task's end.
WakeLeadsToPoll == wake /\ ~Blocking ~> (~wake \/ phase = "panicked")

\* A cancelled local task reaches completion whatever it was doing when it was
\* aborted (JoinHandle::abort, Scheduler::shutdown).
CancelledCompletes == state.cancelled /\ ~Blocking ~> (state.complete \/ phase = "panicked")
=============================================================================
