--------------------------- MODULE RuntimeProofs ---------------------------
(***************************************************************************)
(* The runtime thread never parks on work it has not been told of, for any *)
(* number of tasks and threads, any event_interval, and every wakeup but   *)
(* the pipe's, for which module Runtime has a counterexample.              *)
(*                                                                         *)
(* The argument: work is published before the driver is woken, so until    *)
(* the thread that published it has made its wakeup, that thread stands    *)
(* for it; afterwards the kernel does.  A wakeup is consumed only by a     *)
(* wait that returns, and from there block_on passes the queues (the tick, *)
(* the drain and the root's poll) before it can wait again.                *)
(*                                                                         *)
(* The second part shows that a notified task is queued exactly once.      *)
(***************************************************************************)
EXTENDS Runtime, FiniteSetTheorems, TLAPS

\* The part of TypeOK the argument needs.
WakeTypes ==
  /\ woken \in [Futures -> BOOLEAN]
  /\ tpc \in [Threads -> {"idle", "push", "wake", "notify"}]
  /\ op \in [Futures -> {"none", "kernel", "ready", "pool"}]
  /\ flag \in BOOLEAN /\ signal \in BOOLEAN /\ wakeCqe \in BOOLEAN
  /\ armed \in {"off", "queued", "on"}

\* The claim on a kqueue notification is backed by a pending trigger, by the
\* thread that is about to make it, or by the wait that is about to drop it.
FlagBacked ==
  Kqueue /\ flag => signal \/ pc = "reset" \/ \E t \in Threads : tpc[t] = "notify"

\* A wakeup that is signalled is reported: the eventfd read is armed or has
\* completed, and a user event or a port stays armed.
StaysArmed ==
  IF backend = "eventfd" THEN armed # "off" \/ wakeCqe
                         ELSE armed = "on" /\ ~wakeCqe

\* The io_uring backend gives nothing to the blocking pool.
NoPoolOnUring ==
  backend = "eventfd" => jobsDone = {} /\ \A f \in Futures : op[f] # "pool"

Announced ==
  \/ signal \/ wakeCqe
  \/ \E t \in Threads : tpc[t] = "notify" \/ tpc[t] = "wake"

\* From a tick to the next wait, a task in the remote queue is announced; from
\* a drain, the result of a job; and in the wait, a wake of the root.  No task is
\* being polled there, and none is queued locally.
WorkAnnounced ==
  /\ pc \in {"timers", "batch", "running", "root", "wait"} /\ remote # <<>>
       => Announced
  /\ pc \notin {"reset", "reregister", "drain"} /\ jobsDone # {} => Announced
  /\ pc = "wait" /\ woken[Root] => Announced
  /\ Parked => local = <<>>
  /\ pc # "running" => cur = None

WakeInv ==
  /\ WakeTypes /\ FlagBacked /\ StaysArmed /\ NoPoolOnUring /\ WorkAnnounced
  /\ backend \in {"eventfd", "user", "port"}

-----------------------------------------------------------------------------
\* A new runtime satisfies the invariant.
LEMMA WakeInit ==
  ASSUME "pipe" \notin Backends, Init
  PROVE  WakeInv
<1> USE RuntimeAssumption DEF Init
<1>1. WakeTypes
  BY DEF WakeTypes
<1>2. FlagBacked /\ StaysArmed /\ NoPoolOnUring
  BY DEF FlagBacked, StaysArmed, NoPoolOnUring
<1>3. WorkAnnounced
  BY DEF WorkAnnounced, Parked
<1> QED BY <1>1, <1>2, <1>3 DEF WakeInv

\* The types are preserved.
LEMMA TypesStep ==
  ASSUME WakeInv, [Next]_vars, UNCHANGED backend
  PROVE  WakeTypes'
<1> USE RuntimeAssumption DEF WakeInv, WakeTypes, Futures
<1>1. CASE Tick \/ RunTask \/ EndBatch \/ BlockOn \/ RootReady
  BY <1>1 DEF Tick, RunTask, EndBatch, BlockOn, RootReady, wakeup, others, queues, inputs
<1>2. CASE ExpireTimers
  BY <1>2 DEF ExpireTimers, WakeOnOwner, QueueLocally, SignalSelf, others
<1>3. CASE DrainBlocking
  BY <1>3 DEF DrainBlocking, WakeOnOwner, QueueLocally, SignalSelf, others
<1>4. CASE Dispatch
  BY <1>4 DEF Dispatch, QueueLocally, SignalSelf, others
<1>5. CASE Wait \/ ResetNotified \/ Reregister \/ Interrupt \/ KernelRead
  BY <1>5 DEF Wait, ResetNotified, Reregister, Interrupt, KernelRead, queues, others, inputs
<1>6. ASSUME NEW what \in Things, NEW again \in BOOLEAN, TaskPending(what, again)
      PROVE  WakeTypes'
  BY <1>6 DEF TaskPending, Awaits, others
<1>7. ASSUME NEW what \in Things, RootPending(what)
      PROVE  WakeTypes'
  BY <1>7 DEF RootPending, Awaits, others
<1>8. ASSUME NEW f \in Futures, WakeSibling(f)
      PROVE  WakeTypes'
  BY <1>8 DEF WakeSibling, WakeOnOwner, QueueLocally, SignalSelf, others, inputs
<1>9. ASSUME NEW f \in Futures, KernelReady(f) \/ Deadline(f)
      PROVE  WakeTypes'
  BY <1>9 DEF KernelReady, Deadline, queues, wakeup, others
<1>10. ASSUME NEW t \in Threads, ThreadStep(t)
       PROVE  WakeTypes'
  BY <1>10 DEF ThreadStep, PushBack, Wake, Notify, wakeup, inputs, queues
<1>11. ASSUME NEW t \in Threads, NEW f \in Futures, RemoteWake(t, f) \/ FinishJob(t, f)
       PROVE  WakeTypes'
  <2>1. CASE RemoteWake(t, f) /\ f = cur
    BY <2>1 DEF RemoteWake, wakeup, inputs, others
  <2>2. CASE RemoteWake(t, f) /\ f # cur
    BY <2>2 DEF RemoteWake, wakeup, inputs
  <2>3. CASE FinishJob(t, f)
    BY <2>3 DEF FinishJob, wakeup, queues
  <2> QED BY <1>11, <2>1, <2>2, <2>3
<1>12. CASE UNCHANGED vars
  BY <1>12 DEF vars, queues, inputs, wakeup, others
<1> HIDE DEF WakeInv, WakeTypes, Futures
<1>13. ASSUME OwnerStep PROVE WakeTypes'
  BY <1>13, <1>1, <1>2, <1>3, <1>4, <1>5, <1>6, <1>7, Zenon DEF OwnerStep
<1> QED BY <1>5, <1>8, <1>9, <1>10, <1>11, <1>12, <1>13, Zenon DEF Next

-----------------------------------------------------------------------------
\* Every step preserves the rest of the invariant.
LEMMA WakeStep ==
  ASSUME WakeInv, [Next]_vars, UNCHANGED backend
  PROVE  WakeInv'
<1>t. WakeTypes' /\ WakeTypes
  BY SMTT(60), TypesStep DEF WakeInv
<1>r. Root \in Futures /\ backend \in {"eventfd", "user", "port"} /\ UNCHANGED backend
  BY DEF Futures, WakeInv
<1> SUFFICES (FlagBacked /\ StaysArmed /\ NoPoolOnUring /\ WorkAnnounced)'
  BY <1>t DEF WakeInv
<1> USE <1>t, <1>r, RuntimeAssumption
        DEF WakeInv, FlagBacked, StaysArmed, NoPoolOnUring, WorkAnnounced, Announced,
            Kqueue, Parked, WakeTypes
<1>1. CASE Tick
  BY <1>1 DEF Tick, wakeup, others, inputs
<1>2. CASE RunTask \/ EndBatch
  BY <1>2 DEF RunTask, EndBatch, wakeup, others, inputs, queues
<1>3. CASE RootReady \/ BlockOn
  BY <1>3 DEF RootReady, BlockOn, wakeup, others, inputs
<1>4. CASE ExpireTimers
  BY <1>4 DEF ExpireTimers, WakeOnOwner, QueueLocally, SignalSelf, others
<1>5. CASE DrainBlocking
  BY <1>5 DEF DrainBlocking, WakeOnOwner, QueueLocally, SignalSelf, others
<1>6. CASE Dispatch
  BY <1>6 DEF Dispatch, QueueLocally, SignalSelf, others
<1>7. CASE Wait
  BY <1>7 DEF Wait, queues, others, WakeupReported
<1>8. CASE ResetNotified \/ Reregister
  BY <1>8 DEF ResetNotified, Reregister, queues, others, inputs
<1>9. CASE Interrupt
  BY <1>9 DEF Interrupt, queues, others, inputs
<1>10. CASE KernelRead
  BY <1>10 DEF KernelRead, owner, queues, others, inputs
<1>11. ASSUME NEW what \in Things, NEW again \in BOOLEAN, TaskPending(what, again)
       PROVE  (FlagBacked /\ StaysArmed /\ NoPoolOnUring /\ WorkAnnounced)'
  BY <1>11 DEF TaskPending, Awaits, others
<1>12. ASSUME NEW what \in Things, RootPending(what)
       PROVE  (FlagBacked /\ StaysArmed /\ NoPoolOnUring /\ WorkAnnounced)'
  <2>1. FlagBacked' /\ StaysArmed'
    BY <1>12 DEF RootPending, others
  <2>2. NoPoolOnUring'
    BY <1>12 DEF RootPending, Awaits
  <2>3. UNCHANGED <<remote, jobsDone, signal, wakeCqe, tpc, cur, local>> /\ pc = "root"
    BY <1>12 DEF RootPending, Awaits, others
  <2>4. ~woken'[Root] /\ pc' = "wait" /\ blocking' = (local = <<>>)
    BY <1>12 DEF RootPending
  <2>5. WorkAnnounced'
    BY <2>3, <2>4
  <2> QED BY <2>1, <2>2, <2>5, Zenon
<1>13. ASSUME NEW f \in Futures, WakeSibling(f)
       PROVE  (FlagBacked /\ StaysArmed /\ NoPoolOnUring /\ WorkAnnounced)'
  BY <1>13 DEF WakeSibling, WakeOnOwner, QueueLocally, SignalSelf, owner, others, inputs
<1>14. ASSUME NEW f \in Futures, KernelReady(f) \/ Deadline(f)
       PROVE  (FlagBacked /\ StaysArmed /\ NoPoolOnUring /\ WorkAnnounced)'
  BY <1>14 DEF KernelReady, Deadline, owner, queues, wakeup, others
<1>15. ASSUME NEW t \in Threads, PushBack(t)
       PROVE  (FlagBacked /\ StaysArmed /\ NoPoolOnUring /\ WorkAnnounced)'
  BY <1>15 DEF PushBack, wakeup, inputs, owner
<1>16. ASSUME NEW t \in Threads, Wake(t) \/ Notify(t)
       PROVE  (FlagBacked /\ StaysArmed /\ NoPoolOnUring /\ WorkAnnounced)'
  BY <1>16 DEF Wake, Notify, inputs, owner, queues
<1>17. ASSUME NEW t \in Threads, NEW f \in Futures, RemoteWake(t, f)
       PROVE  (FlagBacked /\ StaysArmed /\ NoPoolOnUring /\ WorkAnnounced)'
  BY <1>17 DEF RemoteWake, wakeup, inputs, owner, others
<1>18. ASSUME NEW t \in Threads, NEW f \in Futures, FinishJob(t, f)
       PROVE  (FlagBacked /\ StaysArmed /\ NoPoolOnUring /\ WorkAnnounced)'
  BY <1>18 DEF FinishJob, wakeup, owner, queues
<1>19. CASE UNCHANGED vars
  BY <1>19 DEF vars, owner, queues, inputs, wakeup, others
<1> HIDE DEF WakeInv, FlagBacked, StaysArmed, NoPoolOnUring, WorkAnnounced, Announced,
             Kqueue, Parked, WakeTypes
<1> DEFINE Rest == FlagBacked /\ StaysArmed /\ NoPoolOnUring /\ WorkAnnounced
<1>20. ASSUME OwnerStep PROVE Rest'
  BY <1>20, <1>1, <1>2, <1>3, <1>4, <1>5, <1>6, <1>7, <1>8, <1>11, <1>12, Zenon DEF OwnerStep
<1>21. ASSUME NEW t \in Threads, ThreadStep(t) PROVE Rest'
  BY <1>21, <1>15, <1>16, Zenon DEF ThreadStep
<1>22. CASE Next
  BY <1>22, <1>9, <1>10, <1>13, <1>14, <1>17, <1>18, <1>20, <1>21, Zenon DEF Next
<1> QED BY <1>19, <1>22, Zenon

\* The invariant holds in every reachable state.
THEOREM WakeInvariance ==
  ASSUME "pipe" \notin Backends
  PROVE  Spec => []WakeInv
<1>1. Init => WakeInv
  BY WakeInit
<1>2. WakeInv /\ [Next /\ UNCHANGED backend]_<<backend, vars>> => WakeInv'
  BY WakeStep
<1> QED BY <1>1, <1>2, PTL DEF Spec

\* block_on never parks while the remote queue, the blocking pool's results or
\* a woken root wait for it without a wakeup pending or certain to be made.
THEOREM NoLostWakeup ==
  ASSUME "pipe" \notin Backends
  PROVE  Spec => []NeverSleepsOnWork
<1>1. WakeInv => NeverSleepsOnWork
  BY DEF WakeInv, WakeTypes, FlagBacked, StaysArmed, WorkAnnounced, Announced, Parked,
         NeverSleepsOnWork, WakeupComing, Kqueue
<1> QED BY <1>1, WakeInvariance, PTL
-----------------------------------------------------------------------------
(* The task queues.  They are compared as sets of tasks: what a queue holds *)
(* and that it holds nothing twice.                                        *)

Holds(q, t) == \E k \in DOMAIN q : q[k] = t
Distinct(q) == \A i, j \in DOMAIN q : q[i] = q[j] => i = j

\* Appending a queue of other tasks.
LEMMA ConcatQueue ==
  ASSUME NEW S, NEW p \in Seq(S), NEW q \in Seq(S)
  PROVE  /\ p \o q \in Seq(S)
         /\ \A t : Holds(p \o q, t) <=> Holds(p, t) \/ Holds(q, t)
         /\ Distinct(p) /\ Distinct(q) /\ (\A t \in S : ~(Holds(p, t) /\ Holds(q, t)))
              => Distinct(p \o q)
<1> DEFINE r == p \o q
<1>1. /\ r \in Seq(S) /\ Len(r) = Len(p) + Len(q)
      /\ Len(p) \in Nat /\ Len(q) \in Nat /\ DOMAIN p = 1..Len(p) /\ DOMAIN q = 1..Len(q)
      /\ DOMAIN r = 1..(Len(p) + Len(q))
      /\ \A k \in 1..Len(p) : r[k] = p[k]
      /\ \A k \in (Len(p) + 1)..(Len(p) + Len(q)) : r[k] = q[k - Len(p)]
  OBVIOUS
<1> HIDE DEF r
<1>2. \A k \in 1..Len(q) : r[Len(p) + k] = q[k] /\ Len(p) + k \in DOMAIN r
  <2> TAKE k \in 1..Len(q)
  <2>1. Len(p) + k \in (Len(p) + 1)..(Len(p) + Len(q)) /\ (Len(p) + k) - Len(p) = k
    BY <1>1
  <2>2. r[Len(p) + k] = q[(Len(p) + k) - Len(p)]
    BY <1>1, <2>1
  <2>3. Len(p) + k \in 1..(Len(p) + Len(q))
    BY <1>1
  <2> QED BY <1>1, <2>1, <2>2, <2>3
<1>3. \A k \in DOMAIN r : \/ k \in 1..Len(p) /\ r[k] = p[k]
                          \/ k - Len(p) \in 1..Len(q) /\ r[k] = q[k - Len(p)] /\ k \notin 1..Len(p)
  BY <1>1
<1>4. ASSUME NEW t PROVE Holds(r, t) <=> Holds(p, t) \/ Holds(q, t)
  <2>1. Holds(r, t) => Holds(p, t) \/ Holds(q, t)
    BY <1>1, <1>3 DEF Holds
  <2>2. Holds(p, t) => Holds(r, t)
    <3>1. 1..Len(p) \subseteq DOMAIN r
      BY <1>1
    <3> QED BY <1>1, <3>1 DEF Holds
  <2>3. Holds(q, t) => Holds(r, t)
    BY <1>1, <1>2 DEF Holds
  <2> QED BY <2>1, <2>2, <2>3
<1>5. ASSUME Distinct(p), Distinct(q), \A t \in S : ~(Holds(p, t) /\ Holds(q, t)) PROVE Distinct(r)
  <2> SUFFICES ASSUME NEW i \in DOMAIN r, NEW j \in DOMAIN r, r[i] = r[j] PROVE i = j
    BY DEF Distinct
  <2>0. \A k \in 1..Len(p) : \A m \in 1..Len(q) : p[k] # q[m]
    <3> SUFFICES ASSUME NEW k \in 1..Len(p), NEW m \in 1..Len(q) PROVE p[k] # q[m]
      OBVIOUS
    <3>1. p[k] \in S
      BY <1>1
    <3>2. Holds(p, p[k])
      BY <1>1, Zenon DEF Holds
    <3>3. Holds(q, q[m])
      BY <1>1, Zenon DEF Holds
    <3> QED BY <3>1, <3>2, <3>3, <1>5
  <2>1. CASE i \in 1..Len(p) /\ j \in 1..Len(p)
    BY <2>1, <1>1, <1>5 DEF Distinct
  <2>2. CASE i \notin 1..Len(p) /\ j \notin 1..Len(p)
    <3>1. i - Len(p) = j - Len(p)
      BY <2>2, <1>1, <1>3, <1>5 DEF Distinct
    <3> QED BY <3>1, <1>1
  <2>3. CASE i \in 1..Len(p) /\ j \notin 1..Len(p)
    BY <2>0, <2>3, <1>1, <1>3
  <2>4. CASE i \notin 1..Len(p) /\ j \in 1..Len(p)
    BY <2>0, <2>4, <1>1, <1>3
  <2> QED BY <2>1, <2>2, <2>3, <2>4
<1> QED BY <1>1, <1>4, <1>5 DEF r

\* Appending one task.
LEMMA AppendQueue ==
  ASSUME NEW S, NEW p \in Seq(S), NEW x \in S
  PROVE  /\ Append(p, x) \in Seq(S)
         /\ \A t : Holds(Append(p, x), t) <=> Holds(p, t) \/ t = x
         /\ Distinct(p) /\ ~Holds(p, x) => Distinct(Append(p, x))
<1> DEFINE r == Append(p, x)
<1>1. /\ r \in Seq(S) /\ Len(p) \in Nat /\ DOMAIN p = 1..Len(p)
      /\ DOMAIN r = 1..(Len(p) + 1)
      /\ \A k \in 1..Len(p) : r[k] = p[k]
      /\ r[Len(p) + 1] = x
  OBVIOUS
<1> HIDE DEF r
<1>2. \A k \in DOMAIN r : k \in 1..Len(p) \/ k = Len(p) + 1
  BY <1>1
<1>3. 1..Len(p) \subseteq DOMAIN r /\ Len(p) + 1 \in DOMAIN r
  BY <1>1
<1>4. \A t : Holds(r, t) <=> Holds(p, t) \/ t = x
  BY <1>1, <1>2, <1>3 DEF Holds
<1>5. Distinct(p) /\ ~Holds(p, x) => Distinct(r)
  BY <1>1, <1>2 DEF Distinct, Holds
<1> QED BY <1>1, <1>4, <1>5 DEF r

\* Taking the first task.
LEMMA TailQueue ==
  ASSUME NEW S, NEW p \in Seq(S), p # <<>>, Distinct(p)
  PROVE  /\ Tail(p) \in Seq(S) /\ Head(p) \in S /\ Holds(p, Head(p))
         /\ \A t : Holds(Tail(p), t) <=> Holds(p, t) /\ t # Head(p)
         /\ Distinct(Tail(p))
<1> DEFINE r == Tail(p)
<1>1. /\ r \in Seq(S) /\ Len(p) \in Nat /\ Len(p) >= 1 /\ DOMAIN p = 1..Len(p)
      /\ Head(p) = p[1] /\ Head(p) \in S
      /\ DOMAIN r = 1..(Len(p) - 1)
      /\ \A k \in 1..(Len(p) - 1) : r[k] = p[k + 1]
  OBVIOUS
<1> HIDE DEF r
<1>2. \A k \in DOMAIN r : k + 1 \in DOMAIN p /\ k + 1 # 1 /\ r[k] = p[k + 1]
  BY <1>1
<1>3. \A k \in DOMAIN p : k # 1 => k - 1 \in DOMAIN r /\ r[k - 1] = p[k]
  BY <1>1
<1>4. 1 \in DOMAIN p
  BY <1>1
<1>5. ASSUME NEW t PROVE Holds(r, t) <=> Holds(p, t) /\ t # Head(p)
  <2>1. Holds(r, t) => Holds(p, t) /\ t # Head(p)
    BY <1>1, <1>2, <1>4 DEF Holds, Distinct
  <2>2. Holds(p, t) /\ t # Head(p) => Holds(r, t)
    BY <1>1, <1>3 DEF Holds
  <2> QED BY <2>1, <2>2
<1>6. Distinct(r)
  <2> SUFFICES ASSUME NEW i \in DOMAIN r, NEW j \in DOMAIN r, r[i] = r[j] PROVE i = j
    BY DEF Distinct
  <2>1. i + 1 = j + 1
    BY <1>2 DEF Distinct
  <2> QED BY <2>1, <1>1
<1>7. Holds(p, Head(p))
  BY <1>1, <1>4 DEF Holds
<1> QED BY <1>1, <1>5, <1>6, <1>7 DEF r

\* The tasks of a finite set in some order.
LEMMA OrderedSet ==
  ASSUME NEW T, IsFiniteSet(T), NEW q \in SetToSeqs(T)
  PROVE  q \in Seq(T) /\ Distinct(q) /\ \A t : Holds(q, t) <=> t \in T
<1> DEFINE n == Cardinality(T)
<1>1. n \in Nat
  BY FS_CardinalityType
<1>2. q \in [1..n -> T] /\ \A i, j \in 1..n : i # j => q[i] # q[j]
  BY DEF SetToSeqs
<1>3. q \in Seq(T) /\ DOMAIN q = 1..n
  BY <1>1, <1>2
<1>4. Distinct(q)
  BY <1>2 DEF Distinct
<1>5. q \in Injection(1..n, T)
  BY <1>2 DEF Injection, IsInjective
<1>6. IsFiniteSet(1..n) /\ Cardinality(1..n) = n
  BY <1>1, FS_Interval
<1>7. q \in Surjection(1..n, T)
  BY <1>5, <1>6, FS_Injection
<1>8. \A t \in T : \E k \in 1..n : q[k] = t
  BY <1>7 DEF Surjection
<1> QED BY <1>2, <1>3, <1>4, <1>8 DEF Holds

\* Some thread is about to push t.
Pushed(t) == \E h \in Threads : target[h] = t

QueueTypes ==
  /\ local \in Seq(Tasks) /\ remote \in Seq(Tasks)
  /\ woken \in [Futures -> BOOLEAN]
  /\ cur \in Tasks \cup {None}
  /\ pc = "running" <=> cur # None
  /\ tpc \in [Threads -> {"idle", "push", "wake", "notify"}]
  /\ target \in [Threads -> Tasks \cup {None}]
  /\ \A h \in Threads : tpc[h] = "push" <=> target[h] # None

\* A notified task that is not being polled is in one of the queues, or some
\* thread is about to push it; no other task is.
Covered ==
  \A t \in Tasks :
    (woken[t] /\ t # cur) <=> (Holds(local, t) \/ Holds(remote, t) \/ Pushed(t))

\* No task is in two of those places, or twice in one.
Apart ==
  /\ Distinct(local) /\ Distinct(remote)
  /\ \A g, h \in Threads : target[g] = target[h] /\ target[g] # None => g = h
  /\ \A t \in Tasks : /\ ~(Holds(local, t) /\ Holds(remote, t))
                      /\ ~(Holds(local, t) /\ Pushed(t))
                      /\ ~(Holds(remote, t) /\ Pushed(t))

QueueInv == QueueTypes /\ Covered /\ Apart

\* An empty queue holds nothing.
LEMMA EmptyQueue ==
  <<>> \in Seq(Tasks) /\ Distinct(<<>>) /\ \A t : ~Holds(<<>>, t)
BY DEF Distinct, Holds

\* A step that leaves the queues and the tasks' NOTIFIED bits alone.
LEMMA QueueFrame ==
  ASSUME QueueInv, UNCHANGED <<local, remote, cur, target>>,
         woken' \in [Futures -> BOOLEAN], \A t \in Tasks : woken'[t] = woken[t],
         tpc' \in [Threads -> {"idle", "push", "wake", "notify"}],
         \A h \in Threads : tpc'[h] = "push" <=> tpc[h] = "push",
         pc' = "running" <=> pc = "running"
  PROVE  QueueInv'
<1>1. \A t : Pushed(t)' <=> Pushed(t)
  BY DEF Pushed
<1>2. QueueTypes'
  BY DEF QueueInv, QueueTypes
<1>3. Covered'
  BY <1>1 DEF QueueInv, Covered
<1>4. Apart'
  BY <1>1 DEF QueueInv, Apart
<1> QED BY <1>2, <1>3, <1>4 DEF QueueInv

\* Wakes made on the runtime thread queue each task that was not notified, once.
LEMMA QueueLocallyStep ==
  ASSUME QueueInv, NEW S, QueueLocally(S), cur \notin S, UNCHANGED <<cur, tpc, target>>,
         pc' = "running" <=> pc = "running"
  PROVE  QueueInv'
<1> DEFINE T == {t \in S \cap Tasks : ~woken[t]}
<1>0. QueueTypes /\ Covered /\ Apart
  BY DEF QueueInv
<1>1. PICK q \in SetToSeqs(T) : local' = local \o q
  BY DEF QueueLocally
<1>2. IsFiniteSet(T)
  BY RuntimeAssumption, FS_Subset
<1>3. q \in Seq(T) /\ Distinct(q) /\ \A t : Holds(q, t) <=> t \in T
  BY <1>2, OrderedSet
<1>4. q \in Seq(Tasks) /\ local \in Seq(Tasks)
  BY <1>0, <1>3 DEF QueueTypes
<1>5. remote' = remote /\ woken' = [f \in Futures |-> woken[f] \/ f \in S]
  BY DEF QueueLocally
<1>6. \A t : Pushed(t)' <=> Pushed(t)
  BY DEF Pushed
<1>7. \A t \in T : t \in Tasks /\ ~Holds(local, t) /\ ~Holds(remote, t) /\ ~Pushed(t)
  BY <1>0 DEF Covered
<1>8. /\ local' \in Seq(Tasks) /\ Distinct(local')
      /\ \A t : Holds(local', t) <=> Holds(local, t) \/ t \in T
  <2>1. Distinct(local)
    BY <1>0 DEF Apart
  <2>2. \A t \in Tasks : ~(Holds(local, t) /\ Holds(q, t))
    BY <1>3, <1>7
  <2> QED BY <1>1, <1>3, <1>4, <2>1, <2>2, ConcatQueue
<1>t. \A t \in Tasks : t \in Futures /\ (woken'[t] <=> woken[t] \/ t \in S)
  BY <1>5 DEF Futures
<1> HIDE DEF T
<1>9. QueueTypes'
  <2>1. woken' \in [Futures -> BOOLEAN]
    BY <1>5
  <2> QED BY <2>1, <1>0, <1>5, <1>8 DEF QueueTypes
<1>10. Covered'
  <2> SUFFICES ASSUME NEW t \in Tasks
               PROVE  (woken'[t] /\ t # cur) <=> (Holds(local', t) \/ Holds(remote, t) \/ Pushed(t))
    BY <1>5, <1>6 DEF Covered
  <2>1. (woken[t] /\ t # cur) <=> (Holds(local, t) \/ Holds(remote, t) \/ Pushed(t))
    BY <1>0 DEF Covered
  <2>2. t \in T <=> t \in S /\ ~woken[t]
    BY DEF T
  <2> QED BY <2>1, <2>2, <1>8, <1>t
<1>11. Apart'
  BY <1>0, <1>5, <1>6, <1>7, <1>8 DEF Apart
<1> QED BY <1>9, <1>10, <1>11 DEF QueueInv

\* The tick moves the remote queue to the end of the local one.
LEMMA QueueTick ==
  ASSUME QueueInv, Tick
  PROVE  QueueInv'
<1>0. QueueTypes /\ Covered /\ Apart
  BY DEF QueueInv
<1>1. /\ local' = local \o remote /\ remote' = <<>> /\ pc = "tick" /\ pc' = "timers"
      /\ UNCHANGED <<cur, woken, tpc, target>>
  BY DEF Tick, others
<1>2. local \in Seq(Tasks) /\ remote \in Seq(Tasks) /\ Distinct(local) /\ Distinct(remote)
  BY <1>0 DEF QueueTypes, Apart
<1>3. \A t \in Tasks : ~(Holds(local, t) /\ Holds(remote, t))
  BY <1>0 DEF Apart
<1>4. /\ local' \in Seq(Tasks) /\ Distinct(local')
      /\ \A t : Holds(local', t) <=> Holds(local, t) \/ Holds(remote, t)
  BY <1>1, <1>2, <1>3, ConcatQueue
<1>5. remote' \in Seq(Tasks) /\ Distinct(remote') /\ \A t : ~Holds(remote', t)
  BY <1>1, EmptyQueue
<1>6. \A t : Pushed(t)' <=> Pushed(t)
  BY <1>1 DEF Pushed
<1>7. QueueTypes'
  BY <1>0, <1>1, <1>4, <1>5 DEF QueueTypes
<1>8. Covered'
  BY <1>0, <1>1, <1>4, <1>5, <1>6 DEF Covered
<1>9. Apart'
  BY <1>0, <1>1, <1>4, <1>5, <1>6 DEF Apart
<1> QED BY <1>7, <1>8, <1>9 DEF QueueInv

\* The batch takes the first task out of the queue and clears NOTIFIED.
LEMMA QueueRun ==
  ASSUME QueueInv, RunTask
  PROVE  QueueInv'
<1>0. QueueTypes /\ Covered /\ Apart
  BY DEF QueueInv
<1> DEFINE x == Head(local)
<1>1. /\ pc = "batch" /\ local # <<>> /\ cur' = x /\ local' = Tail(local)
      /\ woken' = [woken EXCEPT ![x] = FALSE] /\ pc' = "running"
      /\ UNCHANGED <<remote, tpc, target>>
  BY DEF RunTask, others
<1>2. local \in Seq(Tasks) /\ Distinct(local) /\ cur = None
  BY <1>0, <1>1 DEF QueueTypes, Apart
<1>3. /\ local' \in Seq(Tasks) /\ x \in Tasks /\ Holds(local, x) /\ Distinct(local')
      /\ \A t : Holds(local', t) <=> Holds(local, t) /\ t # x
  BY <1>1, <1>2, TailQueue
<1> HIDE DEF x
<1>4. \A t : Pushed(t)' <=> Pushed(t)
  BY <1>1 DEF Pushed
<1>5. x # None /\ \A t \in Tasks : t # None
  BY <1>3, RuntimeAssumption
<1>6. QueueTypes'
  BY <1>0, <1>1, <1>3, <1>5 DEF QueueTypes
<1>7. Covered'
  <2> SUFFICES ASSUME NEW t \in Tasks
               PROVE  (woken'[t] /\ t # x) <=> (Holds(local', t) \/ Holds(remote, t) \/ Pushed(t))
    BY <1>1, <1>4 DEF Covered
  <2>1. woken[t] <=> (Holds(local, t) \/ Holds(remote, t) \/ Pushed(t))
    BY <1>0, <1>2, <1>5 DEF Covered
  <2>2. t # x => woken'[t] = woken[t]
    BY <1>0, <1>1 DEF QueueTypes, Futures
  <2>3. ~Holds(remote, x) /\ ~Pushed(x)
    BY <1>0, <1>3 DEF Apart
  <2> QED BY <2>1, <2>2, <2>3, <1>3
<1>8. Apart'
  BY <1>0, <1>1, <1>3, <1>4 DEF Apart
<1> QED BY <1>6, <1>7, <1>8 DEF QueueInv

\* A task that was notified while it was polled is queued when the poll ends.
LEMMA QueuePending ==
  ASSUME QueueInv, NEW what, NEW again \in BOOLEAN, TaskPending(what, again)
  PROVE  QueueInv'
<1>0. QueueTypes /\ Covered /\ Apart
  BY DEF QueueInv
<1>1. /\ pc = "running" /\ pc' = "batch" /\ cur' = None
      /\ woken' = [woken EXCEPT ![cur] = @ \/ again]
      /\ local' = IF woken[cur] \/ again THEN Append(local, cur) ELSE local
      /\ UNCHANGED <<remote, tpc, target>>
  BY DEF TaskPending, others
<1>2. cur \in Tasks /\ local \in Seq(Tasks) /\ Distinct(local) /\ \A t \in Tasks : t # None
  BY <1>0, <1>1, RuntimeAssumption DEF QueueTypes, Apart
<1>3. ~Holds(local, cur) /\ ~Holds(remote, cur) /\ ~Pushed(cur)
  BY <1>0, <1>2 DEF Covered
<1>4. /\ local' \in Seq(Tasks) /\ Distinct(local')
      /\ \A t : Holds(local', t) <=> Holds(local, t) \/ (t = cur /\ (woken[cur] \/ again))
  <2>1. CASE woken[cur] \/ again
    BY <2>1, <1>1, <1>2, <1>3, AppendQueue
  <2>2. CASE ~(woken[cur] \/ again)
    BY <2>2, <1>1, <1>2
  <2> QED BY <2>1, <2>2
<1>5. \A t : Pushed(t)' <=> Pushed(t)
  BY <1>1 DEF Pushed
<1>w. /\ woken' \in [Futures -> BOOLEAN]
      /\ woken'[cur] = (woken[cur] \/ again)
      /\ \A t \in Tasks : t # cur => woken'[t] = woken[t]
  BY <1>0, <1>1, <1>2 DEF QueueTypes, Futures
<1>6. QueueTypes'
  BY <1>0, <1>1, <1>4, <1>w DEF QueueTypes
<1>7. Covered'
  <2> SUFFICES ASSUME NEW t \in Tasks
               PROVE  woken'[t] <=> (Holds(local', t) \/ Holds(remote, t) \/ Pushed(t))
    BY <1>1, <1>2, <1>5 DEF Covered
  <2>1. (woken[t] /\ t # cur) <=> (Holds(local, t) \/ Holds(remote, t) \/ Pushed(t))
    BY <1>0 DEF Covered
  <2> QED BY <2>1, <1>3, <1>4, <1>w
<1>8. Apart'
  BY <1>0, <1>1, <1>3, <1>4, <1>5 DEF Apart
<1> QED BY <1>6, <1>7, <1>8 DEF QueueInv

\* Another thread that finds a task not notified, nor being polled, will push it.
LEMMA QueueRemoteWake ==
  ASSUME QueueInv, NEW h \in Threads, NEW f \in Futures, RemoteWake(h, f)
  PROVE  QueueInv'
<1>0. QueueTypes /\ Covered /\ Apart
  BY DEF QueueInv
<1>1. /\ tpc[h] = "idle"
      /\ f \in Tasks => ~woken[f]
      /\ woken' = [woken EXCEPT ![f] = (@ \/ f # Root \/ pc # "done")]
      /\ UNCHANGED <<local, remote, cur, pc>>
  BY DEF RemoteWake, owner
<1>2. target[h] = None /\ Root \notin Tasks /\ \A t \in Tasks : t # None
  BY <1>0, <1>1, RuntimeAssumption DEF QueueTypes
<1>w. /\ woken' \in [Futures -> BOOLEAN]
      /\ f \in Tasks => woken'[f]
      /\ \A t \in Tasks : t # f => woken'[t] = woken[t]
  BY <1>0, <1>1, <1>2 DEF QueueTypes, Futures
<1>3. CASE f = Root
  <2>1. f # cur
    BY <1>0, <1>2, <1>3, RuntimeAssumption DEF QueueTypes
  <2>2. tpc' = [tpc EXCEPT ![h] = "wake"] /\ target' = [target EXCEPT ![h] = None]
    BY <1>3, <2>1 DEF RemoteWake
  <2>3. /\ target' = target
        /\ tpc' \in [Threads -> {"idle", "push", "wake", "notify"}]
        /\ \A g \in Threads : tpc'[g] = "push" <=> tpc[g] = "push"
    BY <1>0, <1>1, <1>2, <2>2 DEF QueueTypes
  <2>4. \A t \in Tasks : woken'[t] = woken[t]
    BY <1>2, <1>3, <1>w
  <2> QED BY <1>1, <1>w, <2>3, <2>4, QueueFrame
<1>4. CASE f \in Tasks /\ f = cur
  <2>1. UNCHANGED <<tpc, target>>
    BY <1>4 DEF RemoteWake, others
  <2>2. \A t : Pushed(t)' <=> Pushed(t)
    BY <2>1 DEF Pushed
  <2>3. QueueTypes'
    BY <1>0, <1>1, <1>w, <2>1 DEF QueueTypes
  <2>4. Covered'
    BY <1>0, <1>1, <1>w, <1>4, <2>2 DEF Covered
  <2>5. Apart'
    BY <1>0, <1>1, <2>1, <2>2 DEF Apart
  <2> QED BY <2>3, <2>4, <2>5 DEF QueueInv
<1>5. CASE f \in Tasks /\ f # cur
  <2>1. tpc' = [tpc EXCEPT ![h] = "push"] /\ target' = [target EXCEPT ![h] = f]
    BY <1>2, <1>5 DEF RemoteWake
  <2>2. \A t \in Tasks : Pushed(t)' <=> (Pushed(t) \/ t = f)
    BY <1>0, <1>2, <1>5, <2>1 DEF Pushed, QueueTypes
  <2>3. ~Holds(local, f) /\ ~Holds(remote, f) /\ ~Pushed(f)
    BY <1>0, <1>1, <1>5 DEF Covered
  <2>4. QueueTypes'
    BY <1>0, <1>1, <1>2, <1>5, <1>w, <2>1 DEF QueueTypes
  <2>5. Covered'
    BY <1>0, <1>1, <1>5, <1>w, <2>2 DEF Covered
  <2>6. \A g, k \in Threads : target'[g] = target'[k] /\ target'[g] # None => g = k
    BY <1>0, <2>1, <2>3 DEF Apart, Pushed, QueueTypes
  <2>7. Apart'
    BY <1>0, <1>1, <2>2, <2>3, <2>6 DEF Apart
  <2> QED BY <2>4, <2>5, <2>7 DEF QueueInv
<1> QED BY <1>3, <1>4, <1>5 DEF Futures

\* push_back moves the task from the thread to the remote queue.
LEMMA QueuePushBack ==
  ASSUME QueueInv, NEW h \in Threads, PushBack(h)
  PROVE  QueueInv'
<1>0. QueueTypes /\ Covered /\ Apart
  BY DEF QueueInv
<1> DEFINE x == target[h]
<1>1. /\ tpc[h] = "push" /\ remote' = Append(remote, x)
      /\ target' = [target EXCEPT ![h] = None] /\ tpc' = [tpc EXCEPT ![h] = "wake"]
      /\ UNCHANGED <<local, woken, cur, pc>>
  BY DEF PushBack, owner
<1>2. x \in Tasks /\ Pushed(x) /\ \A t \in Tasks : t # None
  BY <1>0, <1>1, RuntimeAssumption DEF QueueTypes, Pushed
<1>3. ~Holds(local, x) /\ ~Holds(remote, x)
  BY <1>0, <1>2 DEF Apart
<1>4. /\ remote' \in Seq(Tasks) /\ Distinct(remote')
      /\ \A t : Holds(remote', t) <=> Holds(remote, t) \/ t = x
  BY <1>0, <1>1, <1>2, <1>3, AppendQueue DEF QueueTypes, Apart
<1>5. \A t \in Tasks : Pushed(t)' <=> (Pushed(t) /\ t # x)
  BY <1>0, <1>1, <1>2 DEF Pushed, Apart, QueueTypes
<1>6. QueueTypes'
  BY <1>0, <1>1, <1>4 DEF QueueTypes
<1> HIDE DEF x
<1>7. Covered'
  BY <1>0, <1>1, <1>2, <1>4, <1>5 DEF Covered
<1>8. \A g, k \in Threads : target'[g] = target'[k] /\ target'[g] # None => g = k
  BY <1>0, <1>1 DEF Apart, QueueTypes
<1>9. Apart'
  BY <1>0, <1>1, <1>3, <1>4, <1>5, <1>8 DEF Apart
<1> QED BY <1>6, <1>7, <1>9 DEF QueueInv

\* The invariant holds initially.
LEMMA QueueInit == Init => QueueInv
<1> SUFFICES ASSUME Init PROVE QueueInv
  OBVIOUS
<1>1. PICK q \in SetToSeqs(Tasks) : local = q
  BY DEF Init
<1>2. local \in Seq(Tasks) /\ Distinct(local) /\ \A t : Holds(local, t) <=> t \in Tasks
  BY <1>1, RuntimeAssumption, OrderedSet
<1>3. remote \in Seq(Tasks) /\ Distinct(remote) /\ \A t : ~Holds(remote, t)
  BY EmptyQueue DEF Init
<1>4. \A t \in Tasks : t # None
  BY RuntimeAssumption
<1>5. \A t \in Tasks : ~Pushed(t)
  BY <1>4 DEF Init, Pushed
<1>6. QueueTypes
  BY <1>2, <1>3 DEF Init, QueueTypes
<1>7. Covered
  BY <1>2, <1>4 DEF Init, Covered, Futures
<1>8. Apart
  BY <1>2, <1>3, <1>5 DEF Init, Apart
<1> QED BY <1>6, <1>7, <1>8 DEF QueueInv

\* Events and results of jobs belong to futures.
Sources == events \subseteq Futures /\ jobsDone \subseteq Futures

\* Every step keeps it so.
LEMMA SourcesStep ==
  ASSUME Sources, [Next]_vars
  PROVE  Sources'
<1> USE DEF Sources
<1>1. CASE OwnerStep
  BY <1>1 DEF OwnerStep, Tick, ExpireTimers, RunTask, EndBatch, TaskPending, RootPending, RootReady,
     BlockOn, Wait, ResetNotified, Reregister, DrainBlocking, Dispatch, Awaits, Ready, inputs
<1>2. CASE ~OwnerStep
  BY <1>2 DEF Next, WakeSibling, KernelReady, Deadline, Interrupt, KernelRead, ThreadStep,
     PushBack, Wake, Notify, RemoteWake, FinishJob, inputs, vars
<1> QED BY <1>1, <1>2

\* Every step keeps each notified task in one place.
LEMMA QueueStep ==
  ASSUME QueueInv, Sources, [Next]_vars
  PROVE  QueueInv'
<1>0. QueueTypes
  BY DEF QueueInv
<1>r. Root \in Futures /\ Root \notin Tasks /\ Tasks \subseteq Futures
  BY RuntimeAssumption DEF Futures
<1>c. pc # "running" => cur = None /\ \A S : S \subseteq Futures => cur \notin S
  BY <1>0, RuntimeAssumption DEF QueueTypes, Futures
<1>k. woken \in [Futures -> BOOLEAN] /\ tpc \in [Threads -> {"idle", "push", "wake", "notify"}]
  BY <1>0 DEF QueueTypes
<1>1. CASE ExpireTimers
  <2>1. PICK S : /\ QueueLocally(S) /\ S \subseteq Futures /\ pc \in {"timers", "expire"}
                 /\ pc' # "running" /\ UNCHANGED <<cur, tpc, target>>
    BY <1>1 DEF ExpireTimers, WakeOnOwner, others
  <2> QED BY <2>1, <1>c, QueueLocallyStep
<1>2. CASE DrainBlocking \/ Dispatch
  <2>1. PICK S : /\ QueueLocally(S) /\ S \subseteq Futures /\ pc \in {"drain", "dispatch"}
                 /\ pc' # "running" /\ UNCHANGED <<cur, tpc, target>>
    BY <1>2 DEF DrainBlocking, Dispatch, WakeOnOwner, Ready, Sources, others
  <2> QED BY <2>1, <1>c, QueueLocallyStep
<1>3. ASSUME NEW f \in Futures, WakeSibling(f) PROVE QueueInv'
  <2>1. QueueLocally({f}) /\ cur \notin {f} /\ UNCHANGED <<cur, pc, tpc, target>>
    BY <1>3 DEF WakeSibling, WakeOnOwner, owner, others
  <2> QED BY <2>1, QueueLocallyStep
<1>4. ASSUME UNCHANGED <<local, remote, cur, target, woken>>, pc' = "running" <=> pc = "running",
             UNCHANGED tpc
      PROVE  QueueInv'
  BY <1>4, <1>k, QueueFrame
<1>5. CASE EndBatch \/ Wait \/ ResetNotified \/ Reregister \/ Interrupt \/ KernelRead
  BY <1>5, <1>4 DEF EndBatch, Wait, ResetNotified, Reregister, Interrupt, KernelRead,
     queues, others, owner
<1>6. ASSUME NEW f \in Futures, KernelReady(f) \/ Deadline(f) PROVE QueueInv'
  BY <1>6, <1>4 DEF KernelReady, Deadline, queues, others, owner
<1>7. ASSUME pc # "running", pc' # "running", UNCHANGED <<local, remote, cur, tpc, target>>,
             NEW b \in BOOLEAN, woken' = [woken EXCEPT ![Root] = b]
      PROVE  QueueInv'
  <2>1. woken' \in [Futures -> BOOLEAN] /\ \A t \in Tasks : woken'[t] = woken[t]
    BY <1>7, <1>k, <1>r
  <2> QED BY <1>7, <1>k, <2>1, QueueFrame
<1>8. CASE RootReady \/ BlockOn
  BY <1>8, <1>7 DEF RootReady, BlockOn, others
<1>9. ASSUME NEW what \in Things, RootPending(what) PROVE QueueInv'
  BY <1>9, <1>7 DEF RootPending, others
<1>10. ASSUME NEW h \in Threads, UNCHANGED <<local, remote, cur, pc, woken, target>>, tpc[h] # "push",
              NEW x \in {"idle", "wake", "notify"}, tpc' = [tpc EXCEPT ![h] = x]
       PROVE  QueueInv'
  <2>1. /\ tpc' \in [Threads -> {"idle", "push", "wake", "notify"}]
        /\ \A g \in Threads : tpc'[g] = "push" <=> tpc[g] = "push"
    BY <1>10, <1>k
  <2> QED BY <1>10, <1>k, <2>1, QueueFrame
<1>11. ASSUME NEW h \in Threads, Wake(h) \/ Notify(h) PROVE QueueInv'
  BY <1>11, <1>10 DEF Wake, Notify, owner, queues
<1>12. ASSUME NEW h \in Threads, NEW f \in Futures, FinishJob(h, f) PROVE QueueInv'
  BY <1>12, <1>10 DEF FinishJob, owner, queues
<1>13. CASE UNCHANGED vars
  BY <1>13, <1>4 DEF vars, owner, queues, others
<1>14. ASSUME OwnerStep PROVE QueueInv'
  BY <1>14, <1>1, <1>2, <1>5, <1>8, <1>9, QueueTick, QueueRun, QueuePending, Zenon DEF OwnerStep
<1>15. ASSUME NEW h \in Threads, ThreadStep(h) PROVE QueueInv'
  BY <1>15, <1>11, QueuePushBack, Zenon DEF ThreadStep
<1>16. CASE Next
  BY <1>16, <1>3, <1>5, <1>6, <1>12, <1>14, <1>15, QueueRemoteWake, Zenon DEF Next
<1> QED BY <1>13, <1>16, Zenon

\* How often a queue without repetitions holds a task.
LEMMA CountOnce ==
  ASSUME NEW S, NEW q \in Seq(S), Distinct(q), NEW t
  PROVE  Cardinality({k \in DOMAIN q : q[k] = t}) = IF Holds(q, t) THEN 1 ELSE 0
<1>1. CASE Holds(q, t)
  <2>1. PICK k \in DOMAIN q : q[k] = t
    BY <1>1 DEF Holds
  <2>2. {i \in DOMAIN q : q[i] = t} = {k}
    BY <2>1 DEF Distinct
  <2> QED BY <1>1, <2>2, FS_Singleton
<1>2. CASE ~Holds(q, t)
  <2>1. {i \in DOMAIN q : q[i] = t} = {}
    BY <1>2 DEF Holds
  <2> QED BY <1>2, <2>1, FS_EmptySet
<1> QED BY <1>1, <1>2

\* However wakes from tasks, timers, completions and other threads interleave, a
\* notified task is queued exactly once and no other task is queued, for every
\* wakeup, the pipe's included.
THEOREM EachTaskQueuedOnce == Spec => []QueuedOnce
<1>1. Init => QueueInv /\ Sources
  <2>1. Init => Sources
    BY DEF Init, Sources
  <2> QED BY <2>1, QueueInit
<1>2. QueueInv /\ Sources /\ [Next /\ UNCHANGED backend]_<<backend, vars>> => QueueInv' /\ Sources'
  BY QueueStep, SourcesStep
<1>3. QueueInv => QueuedOnce
  <2> SUFFICES ASSUME QueueInv, NEW t \in Tasks
               PROVE  Entries(t) = IF woken[t] /\ t # cur THEN 1 ELSE 0
    BY DEF QueuedOnce
  <2>0. QueueTypes /\ Covered /\ Apart
    BY DEF QueueInv
  <2>1. Cardinality({i \in DOMAIN local : local[i] = t}) = IF Holds(local, t) THEN 1 ELSE 0
    BY <2>0, CountOnce DEF QueueTypes, Apart
  <2>2. Cardinality({i \in DOMAIN remote : remote[i] = t}) = IF Holds(remote, t) THEN 1 ELSE 0
    BY <2>0, CountOnce DEF QueueTypes, Apart
  <2>3. Cardinality({h \in Threads : target[h] = t}) = IF Pushed(t) THEN 1 ELSE 0
    <3>1. CASE Pushed(t)
      <4>1. PICK h \in Threads : target[h] = t
        BY <3>1 DEF Pushed
      <4>2. {g \in Threads : target[g] = t} = {h}
        BY <4>1, <2>0, RuntimeAssumption DEF Apart
      <4> QED BY <3>1, <4>2, FS_Singleton
    <3>2. CASE ~Pushed(t)
      <4>1. {g \in Threads : target[g] = t} = {}
        BY <3>2 DEF Pushed
      <4> QED BY <3>2, <4>1, FS_EmptySet
    <3> QED BY <3>1, <3>2
  <2>4. /\ (woken[t] /\ t # cur) <=> (Holds(local, t) \/ Holds(remote, t) \/ Pushed(t))
        /\ ~(Holds(local, t) /\ Holds(remote, t))
        /\ ~(Holds(local, t) /\ Pushed(t)) /\ ~(Holds(remote, t) /\ Pushed(t))
    BY <2>0 DEF Covered, Apart
  <2> QED BY <2>1, <2>2, <2>3, <2>4 DEF Entries
<1> QED BY <1>1, <1>2, <1>3, PTL DEF Spec

=============================================================================
