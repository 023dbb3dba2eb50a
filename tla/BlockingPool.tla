---------------------------- MODULE BlockingPool ----------------------------
(***************************************************************************)
(* runtime/blocking.rs: a pool of worker threads that run blocking jobs,   *)
(* one mutex (`shared`) and one condition variable.                        *)
(*                                                                         *)
(* An action is one critical section of `shared`, from the acquisition of  *)
(* the mutex to the wait or unlock that ends it.  A thread in the condition*)
(* variable's wait set leaves it by a notification, by its timeout or for  *)
(* no reason (a spurious wake), and takes the mutex again in a later step. *)
(* Jobs are mandatory (driver system calls) or optional (spawn_blocking).  *)
(***************************************************************************)
EXTENDS Naturals, Sequences, FiniteSets

CONSTANTS Workers,      \* names for worker threads
          ThreadCap,    \* PoolInner::thread_cap
          Jobs,         \* the jobs that may be dispatched, each at most once
          Mandatory,    \* those sent by try_dispatch_mandatory
          PanickyDrop,  \* optional jobs whose captured values panic when dropped
          Callers,      \* calls of shutdown()
          Timed,        \* those that pass a timeout (shutdown_with_timeout)
          NoJob

ASSUME PoolAssumption ==
    /\ IsFiniteSet(Workers)
    /\ ThreadCap \in 1..Cardinality(Workers)
    /\ Mandatory \subseteq Jobs
    /\ PanickyDrop \subseteq Jobs \ Mandatory
    /\ Timed \subseteq Callers
    /\ NoJob \notin Jobs

VARIABLES queue, num_notify, num_threads, num_idle,
          shutdown, shutdown_complete,      \* the fields of Shared
          jobState,     \* what has become of each job
          wpc, wjob,    \* each worker: where it is, the job it runs
          cpc, cjob,    \* each shutdown call: likewise
          expired       \* the shutdown calls whose deadline has passed

pool == <<num_notify, num_idle>>
flags == <<shutdown, shutdown_complete>>
vars == <<queue, num_threads, pool, flags, jobState, wpc, wjob, cpc, cjob, expired>>

\* Inside condvar.wait_timeout: in the wait set, or out of it but not yet
\* holding the mutex again.
InWait == {"waiting", "notified", "timed_out"}
Active == {"ready", "running"}

\* Every variable stays in its domain; num_idle, num_notify and num_threads, which
\* the code decrements unchecked, stay natural numbers.
TypeOK ==
    /\ queue \in Seq(Jobs)
    /\ num_notify \in Nat /\ num_threads \in Nat /\ num_idle \in Nat
    /\ shutdown \in BOOLEAN /\ shutdown_complete \in BOOLEAN
    /\ jobState \in [Jobs -> {"new", "queued", "running", "done", "discarded", "rejected"}]
    /\ wpc \in [Workers -> {"none", "dead"} \cup Active \cup InWait]
    /\ wjob \in [Workers -> Jobs \cup {NoJob}]
    /\ cpc \in [Callers -> {"outside", "draining", "join_wait", "join_woken",
                            "follow_wait", "follow_woken", "panicked", "returned"}]
    /\ cjob \in [Callers -> Jobs \cup {NoJob}]
    /\ expired \in SUBSET Timed

\* BlockingPool::new
Init ==
    /\ queue = <<>>
    /\ num_notify = 0 /\ num_threads = 0 /\ num_idle = 0
    /\ shutdown = FALSE /\ shutdown_complete = FALSE
    /\ jobState = [j \in Jobs |-> "new"]
    /\ wpc = [w \in Workers |-> "none"]
    /\ wjob = [w \in Workers |-> NoJob]
    /\ cpc = [c \in Callers |-> "outside"]
    /\ cjob = [c \in Callers |-> NoJob]
    /\ expired = {}

-----------------------------------------------------------------------------
(* The condition variable. *)

\* Fault: the shutdown callers are not notified.
WakeNoCallers(pc) == pc

\* condvar.notify_all() seen by the workers and by the shutdown calls.
WakeWorkers(pc) == [w \in Workers |-> IF pc[w] = "waiting" THEN "notified" ELSE pc[w]]
WakeCallers(pc) ==
    [c \in Callers |-> IF pc[c] = "join_wait" THEN "join_woken"
                       ELSE IF pc[c] = "follow_wait" THEN "follow_woken" ELSE pc[c]]

\* keep_alive elapses, or the wait returns spuriously.
LeaveWait(w, as) ==
    /\ wpc[w] = "waiting"
    /\ wpc' = [wpc EXCEPT ![w] = as]
    /\ UNCHANGED <<queue, num_threads, pool, flags, jobState, wjob, cpc, cjob, expired>>

\* Instant::now() reaches the deadline of a shutdown call; its wait_timeout returns.
Expire(c) ==
    /\ c \in Timed \ expired
    /\ expired' = expired \cup {c}
    /\ cpc' = [cpc EXCEPT ![c] = WakeCallers(cpc)[c]]
    /\ UNCHANGED <<queue, num_threads, pool, flags, jobState, wpc, wjob, cjob>>

\* A shutdown call's wait returns spuriously.
SpuriousCaller(c) ==
    /\ cpc[c] \in {"join_wait", "follow_wait"}
    /\ cpc' = [cpc EXCEPT ![c] = WakeCallers(cpc)[c]]
    /\ UNCHANGED <<queue, num_threads, pool, flags, jobState, wpc, wjob, cjob, expired>>

-----------------------------------------------------------------------------
(* PoolInner::dispatch_with. *)

Accept(j) ==
    /\ jobState[j] = "new" /\ ~shutdown
    /\ queue' = Append(queue, j)
    /\ jobState' = [jobState EXCEPT ![j] = "queued"]
    /\ UNCHANGED <<flags, wjob, cpc, cjob, expired>>

\* The pool is shut down: BrokenPipe, nothing is queued.
DispatchClosed(j) ==
    /\ jobState[j] = "new" /\ shutdown
    /\ jobState' = [jobState EXCEPT ![j] = "rejected"]
    /\ UNCHANGED <<queue, num_threads, pool, flags, wpc, wjob, cpc, cjob, expired>>

\* Fault: the condition variable is not notified.
DispatchWithoutNotify(j) ==
    /\ Accept(j)
    /\ num_idle > 0
    /\ num_idle' = num_idle - 1
    /\ num_notify' = num_notify + 1
    /\ UNCHANGED <<wpc, num_threads>>

\* An idle worker: hand it the wakeup and notify_one, which removes one thread
\* from the wait set if there is one.
DispatchToIdle(j) ==
    /\ Accept(j)
    /\ num_idle > 0
    /\ num_idle' = num_idle - 1
    /\ num_notify' = num_notify + 1
    /\ \/ \E w \in Workers : /\ wpc[w] = "waiting"
                             /\ wpc' = [wpc EXCEPT ![w] = "notified"]
       \/ /\ \A w \in Workers : wpc[w] # "waiting"
          /\ UNCHANGED wpc
    /\ UNCHANGED num_threads

\* No idle worker, below the cap, and the OS gives us a thread.
DispatchSpawn(j) ==
    /\ Accept(j)
    /\ num_idle = 0 /\ num_threads < ThreadCap
    /\ num_threads' = num_threads + 1
    /\ \E w \in Workers : wpc[w] = "none" /\ wpc' = [wpc EXCEPT ![w] = "ready"]
    /\ UNCHANGED pool

\* At the cap, or the thread cannot be spawned but others exist: the job waits.
DispatchWait(j) ==
    /\ Accept(j)
    /\ num_idle = 0 /\ num_threads > 0
    /\ UNCHANGED <<wpc, num_threads, pool>>

\* The first thread cannot be spawned: pop_back takes the job back out of the
\* queue and the error is reported.
DispatchFails(j) ==
    /\ jobState[j] = "new" /\ ~shutdown
    /\ num_idle = 0 /\ num_threads = 0
    /\ jobState' = [jobState EXCEPT ![j] = "rejected"]
    /\ UNCHANGED <<queue, num_threads, pool, flags, wpc, wjob, cpc, cjob, expired>>

-----------------------------------------------------------------------------
(* PoolInner::worker_loop. *)

\* Popping from the queue while optional jobs are being discarded (`drops`)
\* stops at the first job that is to be run, or whose drop panics.
StopsAt(drops) ==
    {i \in DOMAIN queue : ~drops \/ queue[i] \in Mandatory \/ queue[i] \in PanickyDrop}

\* Pop up to the job at i: what is left, and the fate of what was popped.
PopTo(i, fate) ==
    /\ queue' = SubSeq(queue, i + 1, Len(queue))
    /\ jobState' = [j \in Jobs |->
                      IF j = queue[i] THEN fate
                      ELSE IF \E k \in 1..(i - 1) : j = queue[k] THEN "discarded"
                      ELSE jobState[j]]

\* The queue runs dry.
PopAll ==
    /\ queue' = <<>>
    /\ jobState' = [j \in Jobs |->
                      IF \E k \in DOMAIN queue : j = queue[k] THEN "discarded" ELSE jobState[j]]

\* while let Some(job) = pop_front(): the first job to run is taken, the mutex
\* released and the job started.
RunNext(w, ni, nn) ==
    /\ \E i \in StopsAt(shutdown) :
          /\ \A k \in StopsAt(shutdown) : i <= k
          /\ ~shutdown \/ queue[i] \in Mandatory
          /\ PopTo(i, "running")
          /\ wjob' = [wjob EXCEPT ![w] = queue[i]]
    /\ wpc' = [wpc EXCEPT ![w] = "running"]
    /\ num_idle' = ni /\ num_notify' = nn
    /\ UNCHANGED <<num_threads, flags, cpc, cjob, expired>>

\* drop(job) of a discarded job unwinds out of worker_loop: the thread is gone
\* and num_threads still counts it.
DropUnwinds(w, ni, nn) ==
    /\ shutdown
    /\ \E i \in StopsAt(TRUE) :
          /\ \A k \in StopsAt(TRUE) : i <= k
          /\ queue[i] \notin Mandatory
          /\ PopTo(i, "discarded")
    /\ wpc' = [wpc EXCEPT ![w] = "dead"]
    /\ wjob' = [wjob EXCEPT ![w] = NoJob]
    /\ num_idle' = ni /\ num_notify' = nn
    /\ UNCHANGED <<num_threads, flags, cpc, cjob, expired>>

\* Nothing to run and no shutdown: wait on the condition variable.
GoIdle(w, ni, nn) ==
    /\ ~shutdown /\ queue = <<>>
    /\ wpc' = [wpc EXCEPT ![w] = "waiting"]
    /\ wjob' = [wjob EXCEPT ![w] = NoJob]
    /\ num_idle' = ni + 1 /\ num_notify' = nn
    /\ UNCHANGED <<queue, num_threads, flags, jobState, cpc, cjob, expired>>

\* Leaving worker_loop: num_threads -= 1 and notify_all.
Exit(w, ni, nn) ==
    /\ num_threads' = num_threads - 1
    /\ wpc' = [WakeWorkers(wpc) EXCEPT ![w] = "none"]
    /\ wjob' = [wjob EXCEPT ![w] = NoJob]
    /\ cpc' = WakeCallers(cpc)
    /\ num_idle' = ni /\ num_notify' = nn
    /\ UNCHANGED <<flags, cjob, expired>>

\* The queue is drained under shutdown.
ExitDrained(w, ni, nn) ==
    /\ shutdown /\ StopsAt(TRUE) = {}
    /\ PopAll
    /\ Exit(w, ni, nn)

\* The body of the loop from the drain on, with the mutex held.
Drain(w, ni, nn) ==
    RunNext(w, ni, nn) \/ DropUnwinds(w, ni, nn) \/ GoIdle(w, ni, nn) \/ ExitDrained(w, ni, nn)

\* A new worker, or one whose job has returned, takes the mutex.
Start(w) == wpc[w] = "ready" /\ Drain(w, num_idle, num_notify)

\* wait_timeout returns with a notification outstanding: consume it.
WakeNotified(w) ==
    /\ wpc[w] \in {"notified", "timed_out"}
    /\ num_notify > 0
    /\ Drain(w, num_idle, num_notify - 1)

\* It returns without one: undo num_idle, then exit or go round again.
WakeSpurious(w) ==
    /\ wpc[w] \in {"notified", "timed_out"}
    /\ num_notify = 0
    /\ IF shutdown \/ (wpc[w] = "timed_out" /\ queue = <<>>)
       THEN Exit(w, num_idle - 1, 0) /\ UNCHANGED <<queue, jobState>>
       ELSE Drain(w, num_idle - 1, 0)

\* The job returns (or its panic is caught).
FinishJob(w) ==
    /\ wpc[w] = "running"
    /\ wpc' = [wpc EXCEPT ![w] = "ready"]
    /\ jobState' = [jobState EXCEPT ![wjob[w]] = "done"]
    /\ wjob' = [wjob EXCEPT ![w] = NoJob]
    /\ UNCHANGED <<queue, num_threads, pool, flags, cpc, cjob, expired>>

-----------------------------------------------------------------------------
(* PoolInner::shutdown. *)

\* Fault: the last worker is not waited for.
JoinAllButOne(c, pcs, ws) ==
    /\ IF num_threads > 1 /\ c \notin expired
       THEN cpc' = [pcs EXCEPT ![c] = "join_wait"] /\ wpc' = ws /\ UNCHANGED shutdown_complete
       ELSE /\ cpc' = [WakeCallers(pcs) EXCEPT ![c] = "returned"]
            /\ wpc' = WakeWorkers(ws)
            /\ shutdown_complete' = TRUE
    /\ cjob' = [cjob EXCEPT ![c] = NoJob]

\* The loop on num_threads, then shutdown_complete: `pcs` and `ws` are the
\* program counters after the notify_all that may precede it.
JoinOrWait(c, pcs, ws) ==
    /\ IF num_threads > 0 /\ c \notin expired
       THEN /\ cpc' = [pcs EXCEPT ![c] = "join_wait"]
            /\ wpc' = ws
            /\ UNCHANGED shutdown_complete
       ELSE /\ cpc' = [WakeCallers(pcs) EXCEPT ![c] = "returned"]
            /\ wpc' = WakeWorkers(ws)
            /\ shutdown_complete' = TRUE
    /\ cjob' = [cjob EXCEPT ![c] = NoJob]

\* The first caller drains the queue: it runs mandatory jobs itself.
CallerDrain(c, pcs, ws, js) ==
    \/ \E i \in StopsAt(TRUE) :
          /\ \A k \in StopsAt(TRUE) : i <= k
          /\ queue' = SubSeq(queue, i + 1, Len(queue))
          /\ jobState' = [j \in Jobs |->
                IF j = queue[i]
                THEN IF j \in Mandatory THEN "running" ELSE "discarded"
                ELSE IF \E k \in 1..(i - 1) : j = queue[k] THEN "discarded" ELSE js[j]]
          /\ cpc' = [pcs EXCEPT ![c] = IF queue[i] \in Mandatory THEN "draining" ELSE "panicked"]
          /\ cjob' = [cjob EXCEPT ![c] = IF queue[i] \in Mandatory THEN queue[i] ELSE NoJob]
          /\ wpc' = ws
          /\ UNCHANGED shutdown_complete
    \/ /\ StopsAt(TRUE) = {}
       /\ queue' = <<>>
       /\ jobState' = [j \in Jobs |->
             IF \E k \in DOMAIN queue : j = queue[k] THEN "discarded" ELSE js[j]]
       /\ JoinOrWait(c, pcs, ws)

\* Fault: the queue is left to the workers.
ShutdownWithoutDrain(c) ==
    /\ cpc[c] = "outside" /\ ~shutdown
    /\ shutdown' = TRUE
    /\ JoinOrWait(c, WakeCallers(cpc), WakeWorkers(wpc))
    /\ UNCHANGED <<queue, jobState, num_threads, pool, wjob, expired>>

\* The first call.
ShutdownFirst(c) ==
    /\ cpc[c] = "outside" /\ ~shutdown
    /\ shutdown' = TRUE
    /\ CallerDrain(c, WakeCallers(cpc), WakeWorkers(wpc), jobState)
    /\ UNCHANGED <<num_threads, pool, wjob, expired>>

\* Its mandatory job has returned: take the mutex and drain on.
ShutdownContinue(c) ==
    /\ cpc[c] = "draining"
    /\ CallerDrain(c, cpc, wpc, [jobState EXCEPT ![cjob[c]] = "done"])
    /\ UNCHANGED <<shutdown, num_threads, pool, wjob, expired>>

\* It wakes up and looks at num_threads and its deadline again.
ShutdownJoin(c) ==
    /\ cpc[c] = "join_woken"
    /\ JoinOrWait(c, cpc, wpc)
    /\ UNCHANGED <<shutdown, queue, num_threads, pool, jobState, wjob, expired>>

\* A later call waits for the first to complete, or for its own deadline.
ShutdownFollow(c) ==
    /\ cpc[c] \in {"outside", "follow_woken"} /\ shutdown
    /\ cpc' = [cpc EXCEPT ![c] = IF shutdown_complete \/ c \in expired THEN "returned"
                                 ELSE "follow_wait"]
    /\ UNCHANGED <<queue, num_threads, pool, flags, jobState, wpc, wjob, cjob, expired>>

-----------------------------------------------------------------------------
Dispatch(j) ==
    \/ DispatchClosed(j) \/ DispatchToIdle(j) \/ DispatchSpawn(j)
    \/ DispatchWait(j) \/ DispatchFails(j)

Worker(w) ==
    \/ Start(w) \/ WakeNotified(w) \/ WakeSpurious(w) \/ FinishJob(w)
    \/ LeaveWait(w, "timed_out") \/ LeaveWait(w, "notified")

Shutdown(c) ==
    \/ ShutdownFirst(c) \/ ShutdownContinue(c) \/ ShutdownJoin(c) \/ ShutdownFollow(c)
    \/ Expire(c) \/ SpuriousCaller(c)

Next ==
    \/ \E j \in Jobs : Dispatch(j)
    \/ \E w \in Workers : Worker(w)
    \/ \E c \in Callers : Shutdown(c)

Spec == Init /\ [][Next]_vars

\* A thread that wants the mutex gets it, the deadline of a call of shutdown passes
\* and a mandatory job returns.  An optional job may run for ever; keep-alive
\* timeouts, spurious wakes, dispatches and calls of shutdown may never happen.
FairSpec ==
    /\ Spec
    /\ \A w \in Workers : /\ WF_vars(Start(w))
                          /\ WF_vars(WakeNotified(w) \/ WakeSpurious(w))
                          /\ WF_vars(wjob[w] \in Mandatory /\ FinishJob(w))
    /\ \A c \in Callers : /\ WF_vars(ShutdownContinue(c))
                          /\ WF_vars(ShutdownJoin(c))
                          /\ WF_vars(cpc[c] = "follow_woken" /\ ShutdownFollow(c))
                          /\ WF_vars(cpc[c] # "outside" /\ Expire(c))

-----------------------------------------------------------------------------
InState(S) == {w \in Workers : wpc[w] \in S}

\* Every worker inside wait_timeout is counted once, either as idle or as the
\* owner of an outstanding notification (blocking.rs:256-260, 326-340), so no
\* saturating_sub saturates and no dispatch counts on a worker that is not there.
IdleAccounting == num_idle + num_notify = Cardinality(InState(InWait))

\* There are never more outstanding notifications than workers on their way out
\* of the wait to consume them: notify_one is not lost when the idle worker it
\* was meant for has timed out meanwhile (blocking.rs:257-259, 333-336).
NotifyDelivered == num_notify <= Cardinality(InState({"notified", "timed_out"}))

\* num_threads counts the workers, within the cap (blocking.rs:263, 272, 353).
ThreadAccounting ==
    /\ num_threads = Cardinality({w \in Workers : wpc[w] # "none"})
    /\ num_threads <= ThreadCap

\* A queued job is never left behind by workers that all went to sleep or
\* exited: some worker is at work or on its way to the queue
\* (blocking.rs:256-291, 346-349).
WorkNotStranded ==
    queue # <<>> /\ ~shutdown => InState(Active \cup {"notified", "timed_out"}) # {}

\* Only optional jobs are ever discarded, and only by a shutdown
\* (blocking.rs:307-313, 396-399).
MandatoryKept ==
    \A j \in Jobs : jobState[j] = "discarded" => shutdown /\ j \notin Mandatory

\* When shutdown_and_join returns (no deadline expired), every worker is gone and
\* every job that was accepted has run or been discarded (blocking.rs:150-153).
JoinedMeansQuiet ==
    expired = {} /\ (\E c \in Callers : cpc[c] = "returned")
        => /\ \A w \in Workers : wpc[w] = "none"
           /\ \A j \in Jobs : jobState[j] \notin {"queued", "running"}

\* Optional jobs return as well.
OptionalJobsReturn == \A w \in Workers : WF_vars(FinishJob(w))

\* The drop of a discarded job has unwound a worker or a shutdown call.
Unwound == "dead" \in {wpc[w] : w \in Workers} \/ "panicked" \in {cpc[c] : c \in Callers}

\* If jobs return, every job that was accepted is eventually run or, at shutdown,
\* discarded, without the help of any keep-alive timeout (blocking.rs:256-291).
AcceptedJobsSettle ==
    OptionalJobsReturn =>
        \A j \in Jobs : jobState[j] = "queued" ~> jobState[j] \in {"done", "discarded"} \/ Unwound

\* If jobs return, every call of shutdown() returns: neither the first caller's wait
\* for num_threads nor a later caller's wait for shutdown_complete misses its
\* notify_all (blocking.rs:353-355, 409-428).
ShutdownReturns ==
    OptionalJobsReturn =>
        \A c \in Callers : cpc[c] # "outside" ~> cpc[c] = "returned" \/ Unwound

\* "Drain the queue ourselves so mandatory jobs run even if every worker is stuck
\* in an optional (user) job" (blocking.rs:387-388).
MandatoryRunsDespiteStuckWorkers ==
    \A j \in Mandatory : shutdown /\ jobState[j] = "queued" ~> jobState[j] = "done" \/ Unwound
=============================================================================
