------------------------- MODULE BlockingPoolProofs -------------------------
(***************************************************************************)
(* The blocking pool's accounting of idle workers and notifications, its   *)
(* thread cap, that no queued job is stranded, and that a shutdown leaves  *)
(* neither workers nor jobs behind, for any number of threads, jobs and    *)
(* shutdown calls.                                                         *)
(***************************************************************************)
EXTENDS BlockingPool, FiniteSetTheorems, TLAPS

WaitSet(pc) == {w \in Workers : pc[w] \in InWait}
WokenSet(pc) == {w \in Workers : pc[w] \in {"notified", "timed_out"}}
Counted(pc) == {w \in Workers : pc[w] # "none"}

\* The idle accounting for given counts and program counters: a worker updates
\* it in two parts, on leaving the wait and at the end of its critical section.
Accounts(ni, nn, pc) ==
    /\ ni \in Nat /\ nn \in Nat
    /\ ni + nn = Cardinality(WaitSet(pc))
    /\ nn <= Cardinality(WokenSet(pc))

\* A worker only dies while a shutdown discards optional jobs.
DeadAtShutdown == \A w \in Workers : wpc[w] = "dead" => shutdown

\* A call of shutdown() that is under way has set the flag or found it set.
CallersSetShutdown == \A c \in Callers : cpc[c] # "outside" => shutdown

PoolInv ==
    /\ TypeOK
    /\ Accounts(num_idle, num_notify, wpc)
    /\ ThreadAccounting
    /\ DeadAtShutdown
    /\ CallersSetShutdown
    /\ WorkNotStranded
    /\ MandatoryKept

-----------------------------------------------------------------------------
(* Cardinalities of sets of workers. *)

\* The sets that are counted are finite.
LEMMA WorkersFinite ==
    ASSUME NEW S, S \subseteq Workers
    PROVE  /\ IsFiniteSet(S)
           /\ Cardinality(S) \in Nat
           /\ Cardinality(S) = 0 <=> S = {}
<1>1. IsFiniteSet(S)
  BY PoolAssumption, FS_Subset
<1> QED
  BY <1>1, FS_CardinalityType, FS_EmptySet

\* One more element, one more in the count.
LEMMA CardAdd ==
    ASSUME NEW S, S \subseteq Workers, NEW w \in Workers, w \notin S
    PROVE  Cardinality(S \cup {w}) = Cardinality(S) + 1
BY WorkersFinite, FS_AddElement

\* One element less, one less in the count.
LEMMA CardRemove ==
    ASSUME NEW S, S \subseteq Workers, NEW w \in S
    PROVE  Cardinality(S \ {w}) = Cardinality(S) - 1
BY WorkersFinite, FS_RemoveElement

\* A subset counts no more.
LEMMA CardMono ==
    ASSUME NEW S, NEW T, S \subseteq T, T \subseteq Workers
    PROVE  Cardinality(S) <= Cardinality(T)
BY WorkersFinite, FS_Subset

-----------------------------------------------------------------------------
(* Accounting. *)

\* A worker that leaves the wait with or without a notification keeps the
\* accounts, as if it were then "ready".
LEMMA LeavingAccounts ==
    ASSUME NEW w \in Workers, TypeOK, Accounts(num_idle, num_notify, wpc)
    PROVE  LET pc0 == [wpc EXCEPT ![w] = "ready"]
           IN  /\ wpc[w] = "ready" => Accounts(num_idle, num_notify, pc0)
               /\ wpc[w] \in {"notified", "timed_out"} /\ num_notify > 0
                    => Accounts(num_idle, num_notify - 1, pc0)
               /\ wpc[w] \in {"notified", "timed_out"} /\ num_notify = 0
                    => Accounts(num_idle - 1, 0, pc0)
<1> DEFINE pc0 == [wpc EXCEPT ![w] = "ready"]
<1>1. wpc[w] = "ready" => pc0 = wpc
  BY DEF TypeOK
<1>2. ASSUME wpc[w] \in {"notified", "timed_out"}
      PROVE  /\ w \in WaitSet(wpc) /\ WaitSet(pc0) = WaitSet(wpc) \ {w}
             /\ w \in WokenSet(wpc) /\ WokenSet(pc0) = WokenSet(wpc) \ {w}
  BY <1>2 DEF TypeOK, WaitSet, WokenSet, InWait
<1>3. WaitSet(wpc) \subseteq Workers /\ WokenSet(wpc) \subseteq Workers
  BY DEF WaitSet, WokenSet
<1>4. ASSUME wpc[w] \in {"notified", "timed_out"}
      PROVE  /\ Cardinality(WaitSet(pc0)) = Cardinality(WaitSet(wpc)) - 1
             /\ Cardinality(WokenSet(pc0)) = Cardinality(WokenSet(wpc)) - 1
             /\ Cardinality(WaitSet(wpc)) > 0 /\ Cardinality(WokenSet(wpc)) > 0
             /\ Cardinality(WaitSet(wpc)) \in Nat /\ Cardinality(WokenSet(wpc)) \in Nat
  <2>1. /\ Cardinality(WaitSet(pc0)) = Cardinality(WaitSet(wpc)) - 1
        /\ Cardinality(WokenSet(pc0)) = Cardinality(WokenSet(wpc)) - 1
    BY <1>2, <1>3, <1>4, CardRemove
  <2>2. WaitSet(wpc) # {} /\ WokenSet(wpc) # {}
    BY <1>2, <1>4
  <2>3. /\ Cardinality(WaitSet(wpc)) \in Nat /\ Cardinality(WokenSet(wpc)) \in Nat
        /\ Cardinality(WaitSet(wpc)) # 0 /\ Cardinality(WokenSet(wpc)) # 0
    BY <1>3, <2>2, WorkersFinite
  <2> QED
    BY <2>1, <2>3
<1>5. CASE wpc[w] = "ready"
  BY <1>1, <1>5
<1>6. CASE wpc[w] \in {"notified", "timed_out"}
  BY <1>4, <1>6 DEF Accounts
<1> QED
  BY <1>5, <1>6

\* notify_all moves workers within the wait: the accounts only get better.
LEMMA WakeAllAccounts ==
    ASSUME NEW ni, NEW nn, NEW pc, Accounts(ni, nn, pc)
    PROVE  Accounts(ni, nn, WakeWorkers(pc))
<1>1. WaitSet(WakeWorkers(pc)) = WaitSet(pc)
  BY DEF WaitSet, WakeWorkers, InWait
<1>2. WokenSet(pc) \subseteq WokenSet(WakeWorkers(pc)) /\ WokenSet(WakeWorkers(pc)) \subseteq Workers
  BY DEF WokenSet, WakeWorkers
<1>3. Cardinality(WokenSet(pc)) <= Cardinality(WokenSet(WakeWorkers(pc)))
  BY <1>2, CardMono
<1>4. Cardinality(WokenSet(pc)) \in Nat /\ Cardinality(WokenSet(WakeWorkers(pc))) \in Nat
  BY <1>2, WorkersFinite
<1> QED
  BY <1>1, <1>3, <1>4 DEF Accounts

\* The critical section that starts with the accounts of a "ready" worker ends
\* with the accounts in order.
LEMMA DrainAccounts ==
    ASSUME NEW w \in Workers, NEW ni, NEW nn, TypeOK,
           Accounts(ni, nn, [wpc EXCEPT ![w] = "ready"]),
           Drain(w, ni, nn) \/ Exit(w, ni, nn)
    PROVE  Accounts(num_idle, num_notify, wpc)'
<1> DEFINE pc0 == [wpc EXCEPT ![w] = "ready"]
<1>1. WaitSet(pc0) \subseteq Workers /\ WokenSet(pc0) \subseteq Workers
  BY DEF WaitSet, WokenSet
<1>2. CASE RunNext(w, ni, nn) \/ DropUnwinds(w, ni, nn)
  <2>1. /\ wpc' \in {[wpc EXCEPT ![w] = "running"], [wpc EXCEPT ![w] = "dead"]}
        /\ num_idle' = ni /\ num_notify' = nn
    BY <1>2 DEF RunNext, DropUnwinds
  <2>2. WaitSet(wpc') = WaitSet(pc0) /\ WokenSet(wpc') = WokenSet(pc0)
    BY <2>1 DEF WaitSet, WokenSet, InWait, TypeOK
  <2> QED
    BY <2>1, <2>2 DEF Accounts
<1>3. CASE GoIdle(w, ni, nn)
  <2>1. wpc' = [wpc EXCEPT ![w] = "waiting"] /\ num_idle' = ni + 1 /\ num_notify' = nn
    BY <1>3 DEF GoIdle
  <2>2. /\ WaitSet(wpc') = WaitSet(pc0) \cup {w} /\ w \notin WaitSet(pc0)
        /\ WokenSet(wpc') = WokenSet(pc0)
    BY <2>1 DEF WaitSet, WokenSet, InWait, TypeOK
  <2>3. Cardinality(WaitSet(wpc')) = Cardinality(WaitSet(pc0)) + 1
    BY <1>1, <2>2, CardAdd
  <2> QED
    BY <2>1, <2>2, <2>3 DEF Accounts
<1>4. CASE Exit(w, ni, nn) \/ ExitDrained(w, ni, nn)
  <2>1. wpc' = [WakeWorkers(wpc) EXCEPT ![w] = "none"] /\ num_idle' = ni /\ num_notify' = nn
    BY <1>4 DEF Exit, ExitDrained
  <2>2. WaitSet(wpc') = WaitSet(WakeWorkers(pc0)) /\ WokenSet(wpc') = WokenSet(WakeWorkers(pc0))
    BY <2>1 DEF WaitSet, WokenSet, WakeWorkers, InWait, TypeOK
  <2>3. Accounts(ni, nn, WakeWorkers(pc0))
    BY WakeAllAccounts
  <2> QED
    BY <2>1, <2>2, <2>3 DEF Accounts
<1> QED
  BY <1>2, <1>3, <1>4 DEF Drain

\* Every step keeps the accounts.
LEMMA AccountsStep ==
    ASSUME PoolInv, [Next]_vars
    PROVE  Accounts(num_idle, num_notify, wpc)'
<1> USE DEF PoolInv
<1>s. ASSUME UNCHANGED <<num_idle, num_notify, wpc>> PROVE Accounts(num_idle, num_notify, wpc)'
  BY <1>s DEF Accounts, WaitSet, WokenSet
<1>a. ASSUME UNCHANGED <<num_idle, num_notify>>, wpc' = WakeWorkers(wpc)
      PROVE  Accounts(num_idle, num_notify, wpc)'
  BY <1>a, WakeAllAccounts
<1>t. wpc \in [Workers -> {"none", "dead"} \cup Active \cup InWait] /\ num_idle \in Nat /\ num_notify \in Nat
  BY DEF TypeOK
<1>1. ASSUME NEW j \in Jobs, Dispatch(j) PROVE Accounts(num_idle, num_notify, wpc)'
  <2>1. CASE DispatchClosed(j) \/ DispatchWait(j) \/ DispatchFails(j)
    BY <2>1, <1>s DEF DispatchClosed, DispatchWait, DispatchFails, pool
  <2>2. CASE DispatchToIdle(j)
    <3>1. num_idle > 0 /\ num_idle' = num_idle - 1 /\ num_notify' = num_notify + 1
      BY <2>2 DEF DispatchToIdle
    <3>2. CASE \E w \in Workers : wpc[w] = "waiting" /\ wpc' = [wpc EXCEPT ![w] = "notified"]
      <4>1. PICK w \in Workers : wpc[w] = "waiting" /\ wpc' = [wpc EXCEPT ![w] = "notified"]
        BY <3>2
      <4>2. /\ WaitSet(wpc') = WaitSet(wpc)
            /\ WokenSet(wpc') = WokenSet(wpc) \cup {w} /\ w \notin WokenSet(wpc)
            /\ WokenSet(wpc) \subseteq Workers
        BY <4>1, <1>t DEF WaitSet, WokenSet, InWait
      <4>3. Cardinality(WokenSet(wpc')) = Cardinality(WokenSet(wpc)) + 1
        BY <4>2, CardAdd
      <4>4. Cardinality(WokenSet(wpc)) \in Nat
        BY <4>2, WorkersFinite
      <4> QED
        BY <3>1, <4>2, <4>3, <4>4, <1>t DEF Accounts
    <3>3. CASE (\A w \in Workers : wpc[w] # "waiting") /\ UNCHANGED wpc
      <4>1. WaitSet(wpc) = WokenSet(wpc)
        BY <3>3 DEF WaitSet, WokenSet, InWait
      <4> QED
        BY <3>1, <3>3, <4>1, <1>t DEF Accounts
    <3> QED
      BY <2>2, <3>2, <3>3 DEF DispatchToIdle
  <2>3. CASE DispatchSpawn(j)
    <3>1. PICK w \in Workers : wpc[w] = "none" /\ wpc' = [wpc EXCEPT ![w] = "ready"]
      BY <2>3 DEF DispatchSpawn
    <3>2. WaitSet(wpc') = WaitSet(wpc) /\ WokenSet(wpc') = WokenSet(wpc)
      BY <3>1, <1>t DEF WaitSet, WokenSet, InWait
    <3> QED
      BY <2>3, <3>2 DEF DispatchSpawn, pool, Accounts
  <2> QED
    BY <1>1, <2>1, <2>2, <2>3 DEF Dispatch
<1>2. ASSUME NEW w \in Workers, Worker(w) PROVE Accounts(num_idle, num_notify, wpc)'
  <2>1. CASE Start(w)
    BY <2>1, LeavingAccounts, DrainAccounts DEF Start
  <2>2. CASE WakeNotified(w)
    BY <2>2, LeavingAccounts, DrainAccounts DEF WakeNotified
  <2>3. CASE WakeSpurious(w)
    BY <2>3, LeavingAccounts, DrainAccounts DEF WakeSpurious
  <2>4. CASE FinishJob(w)
    <3>1. wpc[w] = "running" /\ wpc' = [wpc EXCEPT ![w] = "ready"] /\ UNCHANGED <<num_idle, num_notify>>
      BY <2>4 DEF FinishJob, pool
    <3>2. WaitSet(wpc') = WaitSet(wpc) /\ WokenSet(wpc') = WokenSet(wpc)
      BY <3>1, <1>t DEF WaitSet, WokenSet, InWait
    <3> QED
      BY <3>1, <3>2 DEF Accounts
  <2>5. CASE LeaveWait(w, "timed_out") \/ LeaveWait(w, "notified")
    <3>1. /\ wpc[w] = "waiting" /\ UNCHANGED <<num_idle, num_notify>>
          /\ wpc' \in {[wpc EXCEPT ![w] = "timed_out"], [wpc EXCEPT ![w] = "notified"]}
      BY <2>5 DEF LeaveWait, pool
    <3>2. /\ WaitSet(wpc') = WaitSet(wpc)
          /\ WokenSet(wpc) \subseteq WokenSet(wpc') /\ WokenSet(wpc') \subseteq Workers
      BY <3>1, <1>t DEF WaitSet, WokenSet, InWait
    <3>3. Cardinality(WokenSet(wpc)) <= Cardinality(WokenSet(wpc'))
      BY <3>2, CardMono
    <3>4. Cardinality(WokenSet(wpc)) \in Nat /\ Cardinality(WokenSet(wpc')) \in Nat
      BY <3>2, WorkersFinite
    <3> QED
      BY <3>1, <3>2, <3>3, <3>4 DEF Accounts
  <2> QED
    BY <1>2, <2>1, <2>2, <2>3, <2>4, <2>5 DEF Worker
<1>3. ASSUME NEW c \in Callers, Shutdown(c) PROVE Accounts(num_idle, num_notify, wpc)'
  <2>0. WakeWorkers(WakeWorkers(wpc)) = WakeWorkers(wpc)
    BY DEF WakeWorkers
  <2>1. CASE ShutdownFirst(c)
    BY <2>1, <2>0, <1>a DEF ShutdownFirst, CallerDrain, JoinOrWait, pool
  <2>2. CASE ShutdownContinue(c)
    BY <2>2, <1>a, <1>s DEF ShutdownContinue, CallerDrain, JoinOrWait, pool
  <2>3. CASE ShutdownJoin(c)
    BY <2>3, <1>a, <1>s DEF ShutdownJoin, JoinOrWait, pool
  <2>4. CASE ShutdownFollow(c) \/ Expire(c) \/ SpuriousCaller(c)
    BY <2>4, <1>s DEF ShutdownFollow, Expire, SpuriousCaller, pool
  <2> QED
    BY <1>3, <2>1, <2>2, <2>3, <2>4 DEF Shutdown
<1>4. CASE UNCHANGED vars
  BY <1>4, <1>s DEF vars, pool
<1> QED
  BY <1>1, <1>2, <1>3, <1>4 DEF Next

-----------------------------------------------------------------------------
(* The other conjuncts. *)

\* num_threads moves with the set of counted workers.
LEMMA ThreadsStep ==
    ASSUME PoolInv, [Next]_vars
    PROVE  ThreadAccounting' /\ num_threads' \in Nat
<1> USE DEF PoolInv
<1>t. /\ wpc \in [Workers -> {"none", "dead"} \cup Active \cup InWait]
      /\ num_threads \in Nat /\ ThreadCap \in Nat
      /\ num_threads = Cardinality(Counted(wpc)) /\ num_threads <= ThreadCap
      /\ Counted(wpc) \subseteq Workers
  BY PoolAssumption, WorkersFinite DEF TypeOK, ThreadAccounting, Counted
<1>s. ASSUME Counted(wpc') = Counted(wpc), num_threads' = num_threads
      PROVE  ThreadAccounting' /\ num_threads' \in Nat
  BY <1>s, <1>t DEF ThreadAccounting, Counted
<1>a. ASSUME NEW pc PROVE Counted(WakeWorkers(pc)) = Counted(pc)
  BY DEF Counted, WakeWorkers
<1>1. ASSUME NEW j \in Jobs, Dispatch(j) PROVE ThreadAccounting' /\ num_threads' \in Nat
  <2>1. CASE DispatchClosed(j) \/ DispatchWait(j) \/ DispatchFails(j)
    BY <2>1, <1>s DEF DispatchClosed, DispatchWait, DispatchFails
  <2>2. CASE DispatchToIdle(j)
    BY <2>2, <1>s, <1>t DEF DispatchToIdle, Counted
  <2>3. CASE DispatchSpawn(j)
    <3>1. PICK w \in Workers : wpc[w] = "none" /\ wpc' = [wpc EXCEPT ![w] = "ready"]
      BY <2>3 DEF DispatchSpawn
    <3>2. Counted(wpc') = Counted(wpc) \cup {w} /\ w \notin Counted(wpc)
      BY <3>1, <1>t DEF Counted
    <3>3. Cardinality(Counted(wpc')) = num_threads + 1
      BY <3>2, <1>t, CardAdd
    <3>4. num_threads < ThreadCap /\ num_threads' = num_threads + 1
      BY <2>3 DEF DispatchSpawn
    <3> QED
      BY <3>3, <3>4, <1>t DEF ThreadAccounting, Counted
  <2> QED
    BY <1>1, <2>1, <2>2, <2>3 DEF Dispatch
<1>2. ASSUME NEW w \in Workers, Worker(w) PROVE ThreadAccounting' /\ num_threads' \in Nat
  <2>1. ASSUME NEW ni, NEW nn, Exit(w, ni, nn), wpc[w] # "none"
        PROVE  ThreadAccounting' /\ num_threads' \in Nat
    <3>1. wpc' = [WakeWorkers(wpc) EXCEPT ![w] = "none"] /\ num_threads' = num_threads - 1
      BY <2>1 DEF Exit
    <3>2. w \in Counted(wpc) /\ Counted(wpc') = Counted(wpc) \ {w}
      BY <2>1, <3>1, <1>t DEF Counted, WakeWorkers
    <3>3. Cardinality(Counted(wpc')) = num_threads - 1
      BY <3>2, <1>t, CardRemove
    <3>4. Cardinality(Counted(wpc')) \in Nat
      BY <3>2, <1>t, WorkersFinite
    <3> QED
      BY <3>1, <3>3, <3>4, <1>t DEF ThreadAccounting, Counted
  <2>2. ASSUME NEW ni, NEW nn, Drain(w, ni, nn), wpc[w] # "none"
        PROVE  ThreadAccounting' /\ num_threads' \in Nat
    <3>1. CASE RunNext(w, ni, nn) \/ DropUnwinds(w, ni, nn) \/ GoIdle(w, ni, nn)
      BY <2>2, <3>1, <1>s, <1>t DEF RunNext, DropUnwinds, GoIdle, Counted
    <3>2. CASE ExitDrained(w, ni, nn)
      BY <2>1, <2>2, <3>2 DEF ExitDrained
    <3> QED
      BY <2>2, <3>1, <3>2 DEF Drain
  <2>3. CASE Start(w) \/ WakeNotified(w) \/ WakeSpurious(w)
    BY <2>1, <2>2, <2>3 DEF Start, WakeNotified, WakeSpurious
  <2>4. CASE FinishJob(w) \/ LeaveWait(w, "timed_out") \/ LeaveWait(w, "notified")
    BY <2>4, <1>s, <1>t DEF FinishJob, LeaveWait, Counted
  <2> QED
    BY <1>2, <2>3, <2>4 DEF Worker
<1>3. ASSUME NEW c \in Callers, Shutdown(c) PROVE ThreadAccounting' /\ num_threads' \in Nat
  <2>1. num_threads' = num_threads
    BY <1>3 DEF Shutdown, ShutdownFirst, ShutdownContinue, ShutdownJoin, ShutdownFollow,
       Expire, SpuriousCaller
  <2>2. wpc' \in {wpc, WakeWorkers(wpc), WakeWorkers(WakeWorkers(wpc))}
    BY <1>3 DEF Shutdown, ShutdownFirst, ShutdownContinue, ShutdownJoin, ShutdownFollow,
       Expire, SpuriousCaller, CallerDrain, JoinOrWait
  <2> QED
    BY <2>1, <2>2, <1>a, <1>s
<1>4. CASE UNCHANGED vars
  BY <1>4, <1>s DEF vars
<1> QED
  BY <1>1, <1>2, <1>3, <1>4 DEF Next

\* A worker dies only in DropUnwinds, which needs shutdown; shutdown is never
\* taken back.
LEMMA DeadStep ==
    ASSUME PoolInv, [Next]_vars
    PROVE  DeadAtShutdown' /\ (shutdown => shutdown')
<1> USE DEF PoolInv, DeadAtShutdown, TypeOK
<1>1. ASSUME NEW j \in Jobs, Dispatch(j) PROVE DeadAtShutdown' /\ (shutdown => shutdown')
  BY <1>1 DEF Dispatch, DispatchClosed, DispatchWait, DispatchFails, DispatchToIdle, DispatchSpawn,
     Accept, flags
<1>2. ASSUME NEW w \in Workers, Worker(w) PROVE DeadAtShutdown' /\ (shutdown => shutdown')
  <2>1. ASSUME NEW ni, NEW nn, Exit(w, ni, nn)
        PROVE DeadAtShutdown' /\ (shutdown => shutdown')
    BY <2>1 DEF Exit, WakeWorkers, flags
  <2>2. ASSUME NEW ni, NEW nn, Drain(w, ni, nn)
        PROVE DeadAtShutdown' /\ (shutdown => shutdown')
    <3>1. CASE RunNext(w, ni, nn) \/ DropUnwinds(w, ni, nn) \/ GoIdle(w, ni, nn)
      BY <3>1 DEF RunNext, DropUnwinds, GoIdle, flags
    <3>2. CASE ExitDrained(w, ni, nn)
      BY <2>1, <3>2 DEF ExitDrained
    <3> QED
      BY <2>2, <3>1, <3>2 DEF Drain
  <2>3. CASE Start(w) \/ WakeNotified(w) \/ WakeSpurious(w)
    BY <2>1, <2>2, <2>3 DEF Start, WakeNotified, WakeSpurious
  <2>4. CASE FinishJob(w) \/ LeaveWait(w, "timed_out") \/ LeaveWait(w, "notified")
    BY <2>4 DEF FinishJob, LeaveWait, flags
  <2> QED
    BY <1>2, <2>3, <2>4 DEF Worker
<1>3. ASSUME NEW c \in Callers, Shutdown(c) PROVE DeadAtShutdown' /\ (shutdown => shutdown')
  <2>1. wpc' \in {wpc, WakeWorkers(wpc), WakeWorkers(WakeWorkers(wpc))}
    BY <1>3 DEF Shutdown, ShutdownFirst, ShutdownContinue, ShutdownJoin, ShutdownFollow,
       Expire, SpuriousCaller, CallerDrain, JoinOrWait
  <2>2. \A w \in Workers : wpc'[w] = "dead" => wpc[w] = "dead"
    BY <2>1 DEF WakeWorkers
  <2>3. shutdown' = TRUE \/ shutdown' = shutdown
    BY <1>3 DEF Shutdown, ShutdownFirst, ShutdownContinue, ShutdownJoin, ShutdownFollow,
       Expire, SpuriousCaller, flags
  <2> QED
    BY <2>2, <2>3
<1>4. CASE UNCHANGED vars
  BY <1>4 DEF vars, flags
<1> QED
  BY <1>1, <1>2, <1>3, <1>4 DEF Next

\* shutdown() takes effect before the call does anything else.
LEMMA CallersStep ==
    ASSUME PoolInv, [Next]_vars
    PROVE  CallersSetShutdown'
<1> USE DEF PoolInv, CallersSetShutdown
<1>0. shutdown => shutdown'
  BY DeadStep
<1>t. cpc \in [Callers -> {"outside", "draining", "join_wait", "join_woken",
                           "follow_wait", "follow_woken", "panicked", "returned"}]
  BY DEF TypeOK
<1>w. \A c \in Callers : WakeCallers(cpc)[c] # "outside" => cpc[c] # "outside"
  BY DEF WakeCallers
<1>1. ASSUME NEW j \in Jobs, Dispatch(j) PROVE CallersSetShutdown'
  BY <1>1, <1>0 DEF Dispatch, DispatchClosed, DispatchToIdle, DispatchSpawn, DispatchWait,
     DispatchFails, Accept
<1>2. ASSUME NEW w \in Workers, Worker(w) PROVE CallersSetShutdown'
  <2>1. cpc' = cpc \/ cpc' = WakeCallers(cpc)
    BY <1>2 DEF Worker, Start, WakeNotified, WakeSpurious, FinishJob, LeaveWait, Drain,
       RunNext, DropUnwinds, GoIdle, ExitDrained, Exit
  <2> QED
    BY <2>1, <1>0, <1>w
<1>3. ASSUME NEW c \in Callers, Shutdown(c) PROVE CallersSetShutdown'
  <2>1. CASE ShutdownFirst(c) \/ ShutdownContinue(c) \/ ShutdownJoin(c) \/ ShutdownFollow(c)
    <3>1. shutdown'
      BY <2>1, <1>0 DEF ShutdownFirst, ShutdownContinue, ShutdownJoin, ShutdownFollow
    <3> QED
      BY <3>1
  <2>2. CASE Expire(c) \/ SpuriousCaller(c)
    BY <2>2, <1>0, <1>t, <1>w DEF Expire, SpuriousCaller
  <2> QED
    BY <1>3, <2>1, <2>2 DEF Shutdown
<1>4. CASE UNCHANGED vars
  BY <1>4, <1>0 DEF vars
<1> QED
  BY <1>1, <1>2, <1>3, <1>4 DEF Next

\* A dispatch leaves a worker at work or woken for its job: an idle one that it
\* notifies, a new one, or, when none is idle, one of those that exist.
LEMMA StrandedStep ==
    ASSUME PoolInv, [Next]_vars
    PROVE  WorkNotStranded'
<1> USE DEF PoolInv
<1> DEFINE AtWork(pc) == \E w \in Workers : pc[w] \in {"ready", "running", "notified", "timed_out"}
<1> SUFFICES ASSUME queue' # <<>>, ~shutdown' PROVE AtWork(wpc')
  BY DEF WorkNotStranded, InState, Active
<1>0. ~shutdown
  BY DeadStep
<1>t. wpc \in [Workers -> {"none", "dead"} \cup Active \cup InWait]
  BY DEF TypeOK
<1>i. queue # <<>> => AtWork(wpc)
  BY <1>0 DEF WorkNotStranded, InState, Active
<1>1. ASSUME NEW j \in Jobs, Dispatch(j) PROVE AtWork(wpc')
  <2>1. CASE DispatchClosed(j)
    BY <2>1, <1>0 DEF DispatchClosed
  <2>2. CASE DispatchFails(j)
    BY <2>2, <1>i DEF DispatchFails
  <2>3. CASE DispatchToIdle(j)
    <3>1. CASE \E w \in Workers : wpc[w] = "waiting" /\ wpc' = [wpc EXCEPT ![w] = "notified"]
      BY <3>1, <1>t
    <3>2. CASE (\A w \in Workers : wpc[w] # "waiting") /\ UNCHANGED wpc
      <4>1. num_idle > 0 /\ num_idle \in Nat /\ num_notify \in Nat
        BY <2>3 DEF DispatchToIdle, TypeOK
      <4>2. Cardinality(WaitSet(wpc)) # 0
        BY <4>1 DEF Accounts
      <4>3. WaitSet(wpc) # {}
        BY <4>2, WorkersFinite DEF WaitSet
      <4> QED
        BY <3>2, <4>3 DEF WaitSet, InWait
    <3> QED
      BY <2>3, <3>1, <3>2 DEF DispatchToIdle
  <2>4. CASE DispatchSpawn(j)
    BY <2>4, <1>t DEF DispatchSpawn
  <2>5. CASE DispatchWait(j)
    <3>1. num_idle = 0 /\ num_threads > 0 /\ wpc' = wpc /\ num_notify \in Nat
      BY <2>5 DEF DispatchWait, TypeOK
    <3>2. Counted(wpc) # {}
      BY <3>1, WorkersFinite DEF ThreadAccounting, Counted
    <3>3. PICK w \in Workers : wpc[w] # "none"
      BY <3>2 DEF Counted
    <3>4. CASE wpc[w] \in InWait
      <4>1. WaitSet(wpc) # {} /\ WaitSet(wpc) \subseteq Workers /\ WokenSet(wpc) \subseteq Workers
        BY <3>4 DEF WaitSet, WokenSet
      <4>2. num_notify > 0
        BY <3>1, <4>1, WorkersFinite DEF Accounts
      <4>3. WokenSet(wpc) # {}
        BY <4>1, <4>2, WorkersFinite DEF Accounts
      <4> QED
        BY <3>1, <4>3 DEF WokenSet
    <3>5. CASE wpc[w] \notin InWait
      BY <3>1, <3>3, <3>5, <1>t, <1>0 DEF DeadAtShutdown, Active
    <3> QED
      BY <3>4, <3>5
  <2> QED
    BY <1>1, <2>1, <2>2, <2>3, <2>4, <2>5 DEF Dispatch
<1>2. ASSUME NEW w \in Workers, Worker(w) PROVE AtWork(wpc')
  <2>1. ASSUME NEW ni, NEW nn, Drain(w, ni, nn) PROVE AtWork(wpc')
    <3>1. RunNext(w, ni, nn)
      BY <2>1, <1>0 DEF Drain, DropUnwinds, GoIdle, ExitDrained
    <3> QED
      BY <3>1, <1>t DEF RunNext
  <2>2. CASE Start(w) \/ WakeNotified(w)
    BY <2>1, <2>2 DEF Start, WakeNotified
  <2>3. CASE WakeSpurious(w)
    <3>1. ~(shutdown \/ (wpc[w] = "timed_out" /\ queue = <<>>))
      BY <2>3, <1>0 DEF WakeSpurious
    <3> QED
      BY <2>1, <2>3, <3>1 DEF WakeSpurious
  <2>4. CASE FinishJob(w) \/ LeaveWait(w, "timed_out") \/ LeaveWait(w, "notified")
    BY <2>4, <1>i, <1>t DEF FinishJob, LeaveWait
  <2> QED
    BY <1>2, <2>2, <2>3, <2>4 DEF Worker
<1>3. ASSUME NEW c \in Callers, Shutdown(c) PROVE AtWork(wpc')
  <2>1. ~ShutdownFirst(c) /\ ~ShutdownContinue(c) /\ ~ShutdownJoin(c) /\ ~ShutdownFollow(c)
    BY <1>0 DEF ShutdownFirst, ShutdownContinue, ShutdownJoin, ShutdownFollow, CallersSetShutdown
  <2> QED
    BY <1>3, <2>1, <1>i DEF Shutdown, Expire, SpuriousCaller
<1>4. CASE UNCHANGED vars
  BY <1>4, <1>i DEF vars
<1> QED
  BY <1>1, <1>2, <1>3, <1>4 DEF Next

\* Jobs popped on the way to the first one that must stop the drain are optional,
\* and without shutdown the first job of the queue stops it.
LEMMA KeptStep ==
    ASSUME PoolInv, [Next]_vars
    PROVE  MandatoryKept'
<1> USE DEF PoolInv, MandatoryKept
<1>0. shutdown => shutdown'
  BY DeadStep
<1>t. queue \in Seq(Jobs) /\ jobState \in [Jobs -> {"new", "queued", "running", "done", "discarded", "rejected"}]
  BY DEF TypeOK
<1>p. ASSUME NEW i \in StopsAt(shutdown), \A k \in StopsAt(shutdown) : i <= k, NEW k \in 1..(i - 1)
      PROVE  shutdown /\ queue[k] \notin Mandatory
  <2>1. k \in DOMAIN queue /\ k \notin StopsAt(shutdown)
    BY <1>p, <1>t DEF StopsAt
  <2> QED
    BY <2>1 DEF StopsAt
<1>q. StopsAt(TRUE) = {} => \A k \in DOMAIN queue : queue[k] \notin Mandatory
  BY DEF StopsAt
<1>1. ASSUME NEW j \in Jobs, Dispatch(j) PROVE MandatoryKept'
  BY <1>1, <1>0, <1>t DEF Dispatch, DispatchClosed, DispatchToIdle, DispatchSpawn, DispatchWait,
     DispatchFails, Accept
<1>2. ASSUME NEW w \in Workers, Worker(w) PROVE MandatoryKept'
  <2>1. ASSUME NEW ni, NEW nn, Drain(w, ni, nn) PROVE MandatoryKept'
    <3>1. CASE RunNext(w, ni, nn)
      <4>1. PICK i \in StopsAt(shutdown) :
                /\ \A k \in StopsAt(shutdown) : i <= k
                /\ PopTo(i, "running")
        BY <3>1 DEF RunNext
      <4> QED
        BY <4>1, <1>0, <1>p DEF PopTo
    <3>2. CASE DropUnwinds(w, ni, nn)
      <4>1. shutdown
        BY <3>2 DEF DropUnwinds
      <4>2. PICK i \in StopsAt(shutdown) :
                /\ \A k \in StopsAt(shutdown) : i <= k
                /\ queue[i] \notin Mandatory
                /\ PopTo(i, "discarded")
        BY <3>2, <4>1 DEF DropUnwinds, TypeOK
      <4> QED
        BY <4>1, <4>2, <1>0, <1>p DEF PopTo
    <3>3. CASE GoIdle(w, ni, nn)
      BY <3>3, <1>0 DEF GoIdle
    <3>4. CASE ExitDrained(w, ni, nn)
      BY <3>4, <1>0, <1>q DEF ExitDrained, PopAll
    <3> QED
      BY <2>1, <3>1, <3>2, <3>3, <3>4 DEF Drain
  <2>2. CASE Start(w) \/ WakeNotified(w)
    BY <2>1, <2>2 DEF Start, WakeNotified
  <2>3. CASE WakeSpurious(w)
    BY <2>1, <2>3, <1>0 DEF WakeSpurious
  <2>4. CASE FinishJob(w) \/ LeaveWait(w, "timed_out") \/ LeaveWait(w, "notified")
    BY <2>4, <1>0, <1>t DEF FinishJob, LeaveWait
  <2> QED
    BY <1>2, <2>2, <2>3, <2>4 DEF Worker
<1>3. ASSUME NEW c \in Callers, Shutdown(c) PROVE MandatoryKept'
  <2>1. ASSUME NEW pcs, NEW ws, NEW js, CallerDrain(c, pcs, ws, js), shutdown',
               \A j \in Jobs : js[j] = "discarded" => j \notin Mandatory
        PROVE  MandatoryKept'
    <3>1. CASE StopsAt(TRUE) = {}
      <4>1. jobState' = [j \in Jobs |->
                IF \E k \in DOMAIN queue : j = queue[k] THEN "discarded" ELSE js[j]]
        BY <2>1, <3>1 DEF CallerDrain
      <4> QED
        BY <2>1, <3>1, <4>1, <1>q
    <3>2. CASE StopsAt(TRUE) # {}
      <4>1. PICK i \in StopsAt(TRUE) :
                /\ \A k \in StopsAt(TRUE) : i <= k
                /\ jobState' = [j \in Jobs |->
                      IF j = queue[i]
                      THEN IF j \in Mandatory THEN "running" ELSE "discarded"
                      ELSE IF \E k \in 1..(i - 1) : j = queue[k] THEN "discarded" ELSE js[j]]
        BY <2>1, <3>2 DEF CallerDrain
      <4>2. \A k \in 1..(i - 1) : k \in DOMAIN queue /\ k \notin StopsAt(TRUE)
        BY <4>1, <1>t DEF StopsAt
      <4>3. \A k \in 1..(i - 1) : queue[k] \notin Mandatory
        BY <4>2 DEF StopsAt
      <4> QED
        BY <2>1, <4>1, <4>3
    <3> QED
      BY <3>1, <3>2
  <2>2. CASE ShutdownFirst(c)
    BY <2>1, <2>2 DEF ShutdownFirst
  <2>3. CASE ShutdownContinue(c)
    <3>1. shutdown' = shutdown
      BY <2>3 DEF ShutdownContinue
    <3>2. CallerDrain(c, cpc, wpc, [jobState EXCEPT ![cjob[c]] = "done"])
      BY <2>3 DEF ShutdownContinue
    <3>3. \A j \in Jobs : [jobState EXCEPT ![cjob[c]] = "done"][j] = "discarded" => j \notin Mandatory
      BY <1>t
    <3>4. shutdown
      BY <2>3 DEF ShutdownContinue, CallersSetShutdown
    <3> QED
      BY <2>1, <3>1, <3>2, <3>3, <3>4
  <2>4. CASE ShutdownJoin(c) \/ ShutdownFollow(c) \/ Expire(c) \/ SpuriousCaller(c)
    BY <2>4, <1>0 DEF ShutdownJoin, ShutdownFollow, Expire, SpuriousCaller
  <2> QED
    BY <1>3, <2>2, <2>3, <2>4 DEF Shutdown
<1>4. CASE UNCHANGED vars
  BY <1>4, <1>0 DEF vars, flags
<1> QED
  BY <1>1, <1>2, <1>3, <1>4 DEF Next

-----------------------------------------------------------------------------
(* Types. *)

\* A worker's critical section keeps the types of what it writes.
LEMMA DrainType ==
    ASSUME TypeOK, NEW w \in Workers, NEW ni, NEW nn, ni \in Nat, nn \in Nat,
           num_threads' \in Nat, Drain(w, ni, nn)
    PROVE  TypeOK'
<1> USE DEF TypeOK, InWait, Active
<1>p. ASSUME NEW i \in DOMAIN queue, NEW f \in {"running", "discarded"}, PopTo(i, f)
      PROVE  queue' \in Seq(Jobs) /\ queue[i] \in Jobs
             /\ jobState' \in [Jobs -> {"new", "queued", "running", "done", "discarded", "rejected"}]
  BY <1>p DEF PopTo
<1>1. CASE RunNext(w, ni, nn)
  <2>1. PICK i \in DOMAIN queue : PopTo(i, "running") /\ wjob' = [wjob EXCEPT ![w] = queue[i]]
    BY <1>1 DEF RunNext, StopsAt
  <2> QED
    BY <1>1, <2>1, <1>p DEF RunNext, flags
<1>2. CASE DropUnwinds(w, ni, nn)
  <2>1. PICK i \in DOMAIN queue : PopTo(i, "discarded")
    BY <1>2 DEF DropUnwinds, StopsAt
  <2> QED
    BY <1>2, <2>1, <1>p DEF DropUnwinds, flags
<1>3. CASE GoIdle(w, ni, nn)
  BY <1>3 DEF GoIdle, flags
<1>4. CASE ExitDrained(w, ni, nn)
  <2>1. /\ queue' \in Seq(Jobs)
        /\ jobState' \in [Jobs -> {"new", "queued", "running", "done", "discarded", "rejected"}]
    BY <1>4 DEF ExitDrained, PopAll
  <2> QED
    BY <1>4, <2>1 DEF ExitDrained, Exit, WakeWorkers, WakeCallers, flags
<1> QED
  BY <1>1, <1>2, <1>3, <1>4 DEF Drain

\* What is left of the queue is a queue.
LEMMA PoppedSeq ==
    ASSUME NEW q \in Seq(Jobs), NEW i \in DOMAIN q
    PROVE  SubSeq(q, i + 1, Len(q)) \in Seq(Jobs) /\ q[i] \in Jobs
OBVIOUS

\* So does the first shutdown caller's.
LEMMA CallerDrainType ==
    ASSUME TypeOK, NEW c \in Callers, NEW pcs, NEW ws, NEW js,
           pcs \in [Callers -> {"outside", "draining", "join_wait", "join_woken",
                                "follow_wait", "follow_woken", "panicked", "returned"}],
           ws \in [Workers -> {"none", "dead"} \cup Active \cup InWait],
           js \in [Jobs -> {"new", "queued", "running", "done", "discarded", "rejected"}],
           CallerDrain(c, pcs, ws, js)
    PROVE  /\ queue' \in Seq(Jobs)
           /\ jobState' \in [Jobs -> {"new", "queued", "running", "done", "discarded", "rejected"}]
           /\ cpc' \in [Callers -> {"outside", "draining", "join_wait", "join_woken",
                                    "follow_wait", "follow_woken", "panicked", "returned"}]
           /\ wpc' \in [Workers -> {"none", "dead"} \cup Active \cup InWait]
           /\ cjob' \in [Callers -> Jobs \cup {NoJob}]
           /\ shutdown_complete' \in BOOLEAN
<1> USE DEF TypeOK, InWait, Active
<1>1. CASE StopsAt(TRUE) = {}
  <2>1. /\ queue' = <<>> /\ JoinOrWait(c, pcs, ws)
        /\ jobState' = [j \in Jobs |->
             IF \E k \in DOMAIN queue : j = queue[k] THEN "discarded" ELSE js[j]]
    BY <1>1 DEF CallerDrain
  <2>2. jobState' \in [Jobs -> {"new", "queued", "running", "done", "discarded", "rejected"}]
    BY <2>1
  <2>3. /\ WakeCallers(pcs) \in [Callers -> {"outside", "draining", "join_wait", "join_woken",
                                    "follow_wait", "follow_woken", "panicked", "returned"}]
        /\ WakeWorkers(ws) \in [Workers -> {"none", "dead"} \cup Active \cup InWait]
    BY DEF WakeCallers, WakeWorkers
  <2>4. queue' \in Seq(Jobs) /\ cjob' \in [Callers -> Jobs \cup {NoJob}]
    BY <2>1 DEF JoinOrWait
  <2>5. shutdown_complete' \in BOOLEAN
    <3>1. shutdown_complete' = shutdown_complete \/ shutdown_complete' = TRUE
      BY <2>1 DEF JoinOrWait
    <3> QED
      BY <3>1
  <2>6. cpc' \in [Callers -> {"outside", "draining", "join_wait", "join_woken",
                              "follow_wait", "follow_woken", "panicked", "returned"}]
    <3>1. cpc' = [pcs EXCEPT ![c] = "join_wait"] \/ cpc' = [WakeCallers(pcs) EXCEPT ![c] = "returned"]
      BY <2>1 DEF JoinOrWait
    <3> QED
      BY <2>3, <3>1
  <2>7. wpc' \in [Workers -> {"none", "dead"} \cup Active \cup InWait]
    <3>1. wpc' = ws \/ wpc' = WakeWorkers(ws)
      BY <2>1 DEF JoinOrWait
    <3> QED
      BY <2>3, <3>1
  <2> QED
    BY <2>2, <2>4, <2>5, <2>6, <2>7
<1>2. CASE StopsAt(TRUE) # {}
  <2>1. PICK i \in StopsAt(TRUE) :
          /\ queue' = SubSeq(queue, i + 1, Len(queue))
          /\ jobState' = [j \in Jobs |->
                IF j = queue[i]
                THEN IF j \in Mandatory THEN "running" ELSE "discarded"
                ELSE IF \E k \in 1..(i - 1) : j = queue[k] THEN "discarded" ELSE js[j]]
          /\ cpc' = [pcs EXCEPT ![c] = IF queue[i] \in Mandatory THEN "draining" ELSE "panicked"]
          /\ cjob' = [cjob EXCEPT ![c] = IF queue[i] \in Mandatory THEN queue[i] ELSE NoJob]
          /\ wpc' = ws
          /\ UNCHANGED shutdown_complete
    BY <1>2 DEF CallerDrain
  <2>2. i \in DOMAIN queue
    BY DEF StopsAt
  <2>3. queue' \in Seq(Jobs) /\ queue[i] \in Jobs
    <3>1. queue \in Seq(Jobs)
      OBVIOUS
    <3>2. SubSeq(queue, i + 1, Len(queue)) \in Seq(Jobs) /\ queue[i] \in Jobs
      BY Zenon, <2>2, <3>1, PoppedSeq
    <3> QED
      BY Zenon, <2>1, <3>2
  <2>4. jobState' \in [Jobs -> {"new", "queued", "running", "done", "discarded", "rejected"}]
    BY <2>1
  <2> QED
    BY <2>1, <2>3, <2>4
<1> QED
  BY <1>1, <1>2

\* Every step keeps the types.
LEMMA TypeStep ==
    ASSUME PoolInv, [Next]_vars
    PROVE  TypeOK'
<1>0. TypeOK /\ num_threads' \in Nat
  BY ThreadsStep DEF PoolInv
<1>u. /\ WakeCallers(cpc) \in [Callers -> {"outside", "draining", "join_wait", "join_woken",
                                    "follow_wait", "follow_woken", "panicked", "returned"}]
      /\ WakeWorkers(wpc) \in [Workers -> {"none", "dead"} \cup Active \cup InWait]
  BY <1>0 DEF WakeCallers, WakeWorkers, TypeOK, InWait, Active
<1>1. ASSUME NEW j \in Jobs, Dispatch(j) PROVE TypeOK'
  <2> USE <1>0 DEF TypeOK, InWait, Active, pool, flags
  <2>1. CASE DispatchClosed(j) \/ DispatchFails(j)
    BY <2>1 DEF DispatchClosed, DispatchFails
  <2>2. CASE DispatchToIdle(j)
    BY <2>2 DEF DispatchToIdle, Accept
  <2>3. CASE DispatchSpawn(j)
    BY <2>3 DEF DispatchSpawn, Accept
  <2>4. CASE DispatchWait(j)
    BY <2>4 DEF DispatchWait, Accept
  <2> QED
    BY <1>1, <2>1, <2>2, <2>3, <2>4 DEF Dispatch
<1>2. ASSUME NEW w \in Workers, Worker(w) PROVE TypeOK'
  <2>0. Accounts(num_idle, num_notify, wpc)
    BY DEF PoolInv
  <2>1. CASE Start(w)
    BY <2>1, <1>0, DrainType DEF Start, TypeOK
  <2>2. CASE WakeNotified(w)
    <3>1. num_idle \in Nat /\ num_notify - 1 \in Nat
      BY <2>2, <1>0 DEF WakeNotified, TypeOK
    <3> QED
      BY <2>2, <3>1, <1>0, DrainType DEF WakeNotified
  <2>3. CASE WakeSpurious(w)
    <3>1. Accounts(num_idle - 1, 0, [wpc EXCEPT ![w] = "ready"])
      BY <2>3, <2>0, <1>0, LeavingAccounts DEF WakeSpurious
    <3>2. num_idle - 1 \in Nat
      BY <3>1 DEF Accounts
    <3>3. CASE shutdown \/ (wpc[w] = "timed_out" /\ queue = <<>>)
      <4>1. Exit(w, num_idle - 1, 0) /\ UNCHANGED <<queue, jobState>>
        BY <2>3, <3>3 DEF WakeSpurious
      <4> QED
        BY <4>1, <3>2, <1>0, <1>u DEF Exit, TypeOK, flags
    <3>4. CASE ~(shutdown \/ (wpc[w] = "timed_out" /\ queue = <<>>))
      BY <2>3, <3>2, <3>4, <1>0, DrainType DEF WakeSpurious
    <3> QED
      BY <3>3, <3>4
  <2>4. CASE FinishJob(w) \/ LeaveWait(w, "timed_out") \/ LeaveWait(w, "notified")
    BY <2>4, <1>0 DEF FinishJob, LeaveWait, TypeOK, InWait, Active, pool, flags
  <2> QED
    BY <1>2, <2>1, <2>2, <2>3, <2>4 DEF Worker
<1>3. ASSUME NEW c \in Callers, Shutdown(c) PROVE TypeOK'
  <2>1. CASE ShutdownFirst(c)
    BY <2>1, <1>0, <1>u, CallerDrainType DEF ShutdownFirst, TypeOK, pool
  <2>2. CASE ShutdownContinue(c)
    <3>1. [jobState EXCEPT ![cjob[c]] = "done"]
            \in [Jobs -> {"new", "queued", "running", "done", "discarded", "rejected"}]
      BY <1>0 DEF TypeOK
    <3> QED
      BY <2>2, <3>1, <1>0, <1>u, CallerDrainType DEF ShutdownContinue, TypeOK, pool
  <2>3. CASE ShutdownJoin(c)
    BY <2>3, <1>0, <1>u DEF ShutdownJoin, JoinOrWait, TypeOK, pool
  <2>4. CASE ShutdownFollow(c) \/ Expire(c) \/ SpuriousCaller(c)
    BY <2>4, <1>0, <1>u DEF ShutdownFollow, Expire, SpuriousCaller, TypeOK, pool, flags
  <2> QED
    BY <1>3, <2>1, <2>2, <2>3, <2>4 DEF Shutdown
<1>4. CASE UNCHANGED vars
  BY <1>4, <1>0 DEF vars, TypeOK, pool, flags
<1> QED
  BY <1>1, <1>2, <1>3, <1>4 DEF Next

-----------------------------------------------------------------------------
\* The invariant holds of a new pool.
LEMMA InitPoolInv == Init => PoolInv
<1> SUFFICES ASSUME Init PROVE PoolInv
  OBVIOUS
<1>1. TypeOK
  <2>1. shutdown \in BOOLEAN /\ shutdown_complete \in BOOLEAN
    BY DEF Init
  <2>2. queue \in Seq(Jobs)
    BY DEF Init
  <2> QED
    BY <2>1, <2>2 DEF Init, TypeOK, InWait, Active
<1>2. WaitSet(wpc) = {} /\ WokenSet(wpc) = {} /\ Counted(wpc) = {}
  BY DEF Init, WaitSet, WokenSet, Counted, InWait
<1>e. Cardinality(WaitSet(wpc)) = 0 /\ Cardinality(WokenSet(wpc)) = 0 /\ Cardinality(Counted(wpc)) = 0
  BY <1>2, WorkersFinite
<1>3. Accounts(num_idle, num_notify, wpc)
  BY <1>e DEF Init, Accounts
<1>c. ThreadCap \in Nat
  BY PoolAssumption, WorkersFinite
<1>4. ThreadAccounting
  BY <1>e, <1>c DEF Init, ThreadAccounting, Counted
<1>5. DeadAtShutdown /\ CallersSetShutdown /\ WorkNotStranded /\ MandatoryKept
  BY DEF Init, DeadAtShutdown, CallersSetShutdown, WorkNotStranded, MandatoryKept
<1> QED
  BY <1>1, <1>3, <1>4, <1>5 DEF PoolInv

\* The inductive invariant of dispatch_with, worker_loop and shutdown.
THEOREM PoolInvariance == Spec => []PoolInv
<1>1. PoolInv /\ [Next]_vars => PoolInv'
  BY TypeStep, AccountsStep, ThreadsStep, DeadStep, CallersStep, StrandedStep, KeptStep DEF PoolInv
<1> QED
  BY InitPoolInv, <1>1, PTL DEF Spec

\* num_idle and num_notify account for every waiting worker, whatever the
\* order of timeouts, notifications and spurious wakes.
THEOREM IdleCountExact == Spec => [](IdleAccounting /\ NotifyDelivered)
<1>1. PoolInv => IdleAccounting /\ NotifyDelivered
  BY DEF PoolInv, Accounts, IdleAccounting, NotifyDelivered, InState, WaitSet, WokenSet
<1> QED
  BY <1>1, PoolInvariance, PTL

\* The pool never exceeds thread_cap and num_threads counts its workers.
THEOREM ThreadCapKept == Spec => []ThreadAccounting
<1>1. PoolInv => ThreadAccounting
  BY DEF PoolInv
<1> QED
  BY <1>1, PoolInvariance, PTL

\* No accepted job is left in the queue with every worker asleep or gone.
THEOREM NoJobStranded == Spec => []WorkNotStranded
<1>1. PoolInv => WorkNotStranded
  BY DEF PoolInv
<1> QED
  BY <1>1, PoolInvariance, PTL

\* No driver system call is ever discarded, and optional jobs only at shutdown.
THEOREM MandatoryNotDiscarded == Spec => []MandatoryKept
<1>1. PoolInv => MandatoryKept
  BY DEF PoolInv
<1> QED
  BY <1>1, PoolInvariance, PTL
-----------------------------------------------------------------------------
(* What a completed shutdown leaves behind. *)

\* A call of shutdown() that set the flag and has not returned.
Joining == {"draining", "join_wait", "join_woken", "panicked"}

Holds(q, j) == \E k \in DOMAIN q : q[k] = j
AmongFirst(q, i, j) == \E k \in 1..i : q[k] = j

\* A job is queued only while the queue holds it, and running only while a worker
\* or the draining caller runs it.
JobsHeld ==
    \A j \in Jobs :
       /\ jobState[j] = "queued" => Holds(queue, j)
       /\ jobState[j] = "running" =>
             \/ \E w \in Workers : wpc[w] = "running" /\ wjob[w] = j
             \/ \E c \in Callers : cpc[c] = "draining" /\ cjob[c] = j

\* One call drains and joins, and none once shutdown is complete.
OneJoins ==
    /\ \A c, d \in Callers : cpc[c] \in Joining /\ cpc[d] \in Joining => c = d
    /\ shutdown_complete => shutdown /\ \A c \in Callers : cpc[c] \notin Joining

\* The call joins the workers only after it has seen the queue empty.
DrainedFirst ==
    shutdown_complete \/ (\E c \in Callers : cpc[c] \in {"join_wait", "join_woken"}) => queue = <<>>

\* Without a deadline no call returns before the workers are gone.
JoinedAll ==
    expired = {} =>
       /\ shutdown_complete => num_threads = 0
       /\ \A c \in Callers : cpc[c] = "returned" => shutdown_complete

QuietInv == JobsHeld /\ OneJoins /\ DrainedFirst /\ JoinedAll

\* Popping the first i jobs leaves the others in the queue.
LEMMA PoppedJobs ==
    ASSUME NEW q, NEW i, NEW j, NEW r, q \in Seq(Jobs), i \in DOMAIN q,
           Holds(q, j), ~AmongFirst(q, i, j), r = SubSeq(q, i + 1, Len(q))
    PROVE  Holds(r, j)
<1> USE DEF Holds, AmongFirst
<1>1. PICK k \in DOMAIN q : q[k] = j
  OBVIOUS
<1>2. k \in (i + 1)..Len(q) /\ i \in Nat /\ Len(q) \in Nat
  BY <1>1
<1>3. DOMAIN r = 1..(Len(q) - i) /\ \A m \in 1..(Len(q) - i) : r[m] = q[i + m]
  OBVIOUS
<1>4. k - i \in 1..(Len(q) - i) /\ i + (k - i) = k
  BY <1>2
<1> QED
  BY <1>1, <1>3, <1>4

\* Every step keeps track of the jobs.
LEMMA HeldStep ==
    ASSUME PoolInv, JobsHeld, [Next]_vars
    PROVE  JobsHeld'
<1>t. /\ queue \in Seq(Jobs)
      /\ jobState \in [Jobs -> {"new", "queued", "running", "done", "discarded", "rejected"}]
      /\ wpc \in [Workers -> {"none", "dead"} \cup Active \cup InWait]
      /\ wjob \in [Workers -> Jobs \cup {NoJob}]
      /\ cpc \in [Callers -> {"outside", "draining", "join_wait", "join_woken",
                              "follow_wait", "follow_woken", "panicked", "returned"}]
      /\ cjob \in [Callers -> Jobs \cup {NoJob}]
  BY DEF PoolInv, TypeOK
<1> DEFINE InQueue(j) == Holds(queue, j)
           Runs(j) == \/ \E w \in Workers : wpc[w] = "running" /\ wjob[w] = j
                      \/ \E c \in Callers : cpc[c] = "draining" /\ cjob[c] = j
<1>h. \A j \in Jobs : (jobState[j] = "queued" => InQueue(j)) /\ (jobState[j] = "running" => Runs(j))
  BY DEF JobsHeld
<1>g. ASSUME \A j \in Jobs : /\ jobState'[j] = "queued" => InQueue(j)'
                             /\ jobState'[j] = "running" => Runs(j)'
      PROVE  JobsHeld'
  BY <1>g DEF JobsHeld
<1>k. ASSUME NEW j, Runs(j), \A w \in Workers : wpc[w] = "running" => wpc'[w] = "running" /\ wjob'[w] = wjob[w],
             \A c \in Callers : cpc[c] = "draining" => cpc'[c] = "draining" /\ cjob'[c] = cjob[c]
      PROVE  Runs(j)'
  BY <1>k
<1>m. ASSUME \A w \in Workers : wpc[w] = "running" => wpc'[w] = "running" /\ wjob'[w] = wjob[w],
             \A c \in Callers : cpc[c] = "draining" => cpc'[c] = "draining" /\ cjob'[c] = cjob[c],
             \A j \in Jobs : jobState'[j] = "running" => jobState[j] = "running",
             \A j \in Jobs : jobState'[j] = "queued" => InQueue(j)'
      PROVE  JobsHeld'
  <2>1. ASSUME NEW j \in Jobs, jobState'[j] = "running" PROVE Runs(j)'
    <3>1. Runs(j)
      BY <1>m, <2>1, <1>h
    <3> QED
      BY <1>m, <3>1
  <2> QED
    BY <1>m, <2>1, <1>g
<1>c. \A c \in Callers : cpc[c] = "draining" <=> WakeCallers(cpc)[c] = "draining"
  BY DEF WakeCallers
<1>w. \A w \in Workers : wpc[w] = "running" <=> WakeWorkers(wpc)[w] = "running"
  BY DEF WakeWorkers
<1>1. ASSUME NEW j \in Jobs, Dispatch(j) PROVE JobsHeld'
  <2>1. /\ \A w \in Workers : wpc[w] = "running" => wpc'[w] = "running" /\ wjob'[w] = wjob[w]
        /\ UNCHANGED <<cpc, cjob>>
    BY <1>1, <1>t DEF Dispatch, DispatchClosed, DispatchFails, DispatchToIdle, DispatchSpawn,
       DispatchWait, Accept
  <2>2. CASE DispatchClosed(j) \/ DispatchFails(j)
    <3>1. jobState' = [jobState EXCEPT ![j] = "rejected"] /\ queue' = queue
      BY <2>2 DEF DispatchClosed, DispatchFails
    <3>2. \A x \in Jobs : jobState'[x] \in {"queued", "running"} => jobState'[x] = jobState[x]
      BY <3>1, <1>t
    <3>3. \A x \in Jobs : jobState'[x] = "queued" => InQueue(x)'
      BY <3>1, <3>2, <1>h DEF Holds
    <3> QED
      BY <2>1, <3>2, <3>3, <1>m
  <2>3. CASE Accept(j)
    <3>1. jobState' = [jobState EXCEPT ![j] = "queued"] /\ queue' = Append(queue, j)
      BY <2>3 DEF Accept
    <3>2. /\ DOMAIN queue' = 1..(Len(queue) + 1) /\ Len(queue) + 1 \in 1..(Len(queue) + 1)
          /\ queue'[Len(queue) + 1] = j
          /\ \A k \in DOMAIN queue : k \in DOMAIN queue' /\ queue'[k] = queue[k]
      BY <3>1, <1>t
    <3>3. \A x \in Jobs : jobState'[x] = "queued" => InQueue(x)'
      BY <3>1, <3>2, <1>t, <1>h DEF Holds
    <3>4. \A x \in Jobs : jobState'[x] = "running" => jobState[x] = "running"
      BY <3>1, <1>t
    <3> QED
      BY <2>1, <3>3, <3>4, <1>m
  <2> QED
    BY <1>1, <2>2, <2>3 DEF Dispatch, DispatchToIdle, DispatchSpawn, DispatchWait
<1>2. ASSUME NEW w \in Workers, Worker(w) PROVE JobsHeld'
  <2>1. ASSUME NEW i \in DOMAIN queue, NEW f \in {"running", "discarded"}, PopTo(i, f),
               wpc[w] # "running", UNCHANGED <<cpc, cjob>>,
               \A v \in Workers \ {w} : wpc'[v] = wpc[v] /\ wjob'[v] = wjob[v],
               f = "running" => wpc'[w] = "running" /\ wjob'[w] = queue[i]
        PROVE  JobsHeld'
    <3>1. ASSUME NEW j \in Jobs, jobState'[j] = "queued" PROVE InQueue(j)'
      <4>1. jobState[j] = "queued" /\ ~AmongFirst(queue, i, j)
        BY <2>1, <3>1, <1>t DEF PopTo, AmongFirst
      <4>2. InQueue(j)
        BY <4>1, <1>h
      <4>3. queue' = SubSeq(queue, i + 1, Len(queue))
        BY <2>1 DEF PopTo
      <4>4. queue \in Seq(Jobs)
        BY <1>t
      <4> QED
        BY <4>1, <4>2, <4>3, <4>4, PoppedJobs, Zenon
    <3>2. ASSUME NEW j \in Jobs, jobState'[j] = "running" PROVE Runs(j)'
      <4>1. (j = queue[i] /\ f = "running") \/ jobState[j] = "running"
        BY <2>1, <3>2, <1>t DEF PopTo
      <4>2. CASE j = queue[i] /\ f = "running"
        BY <4>2, <2>1
      <4>3. CASE jobState[j] = "running"
        <5>1. Runs(j)
          BY <4>3, <1>h
        <5>2. \A v \in Workers : wpc[v] = "running" => wpc'[v] = "running" /\ wjob'[v] = wjob[v]
          BY <2>1
        <5> QED
          BY <5>1, <5>2, <2>1
      <4> QED
        BY <4>1, <4>2, <4>3
    <3> QED
      BY <3>1, <3>2, <1>g
  <2>2. ASSUME NEW ni, NEW nn, Exit(w, ni, nn), wpc[w] # "running",
               PopAll \/ UNCHANGED <<queue, jobState>>
        PROVE  JobsHeld'
    <3>1. /\ \A v \in Workers : wpc[v] = "running" => wpc'[v] = "running" /\ wjob'[v] = wjob[v]
          /\ \A c \in Callers : cpc[c] = "draining" => cpc'[c] = "draining" /\ cjob'[c] = cjob[c]
      BY <2>2, <1>t, <1>c, <1>w DEF Exit, WakeWorkers
    <3>2. \A j \in Jobs : /\ jobState'[j] = "queued" => jobState[j] = "queued" /\ InQueue(j)'
                          /\ jobState'[j] = "running" => jobState[j] = "running"
      BY <2>2, <1>t, <1>h DEF PopAll, Holds
    <3> QED
      BY <3>1, <3>2, <1>h, <1>k, <1>g
  <2>3. ASSUME NEW ni, NEW nn, Drain(w, ni, nn), wpc[w] # "running" PROVE JobsHeld'
    <3>1. CASE RunNext(w, ni, nn)
      <4>1. PICK i \in DOMAIN queue : PopTo(i, "running") /\ wjob' = [wjob EXCEPT ![w] = queue[i]]
        BY <3>1 DEF RunNext, StopsAt
      <4> QED
        BY <3>1, <4>1, <2>1, <2>3, <1>t DEF RunNext
    <3>2. CASE DropUnwinds(w, ni, nn)
      <4>1. PICK i \in DOMAIN queue : PopTo(i, "discarded")
        BY <3>2 DEF DropUnwinds, StopsAt
      <4> QED
        BY <3>2, <4>1, <2>1, <2>3, <1>t DEF DropUnwinds
    <3>3. CASE GoIdle(w, ni, nn)
      BY <3>3, <2>3, <1>t, <1>h, <1>k, <1>g DEF GoIdle
    <3>4. CASE ExitDrained(w, ni, nn)
      BY <3>4, <2>2, <2>3 DEF ExitDrained
    <3> QED
      BY <2>3, <3>1, <3>2, <3>3, <3>4 DEF Drain
  <2>4. CASE Start(w) \/ WakeNotified(w)
    BY <2>3, <2>4 DEF Start, WakeNotified
  <2>5. CASE WakeSpurious(w)
    BY <2>2, <2>3, <2>5 DEF WakeSpurious
  <2>6. CASE FinishJob(w)
    <3>1. /\ \A j \in Jobs : jobState'[j] \in {"queued", "running"} => jobState'[j] = jobState[j] /\ j # wjob[w]
          /\ UNCHANGED <<queue, cpc, cjob>>
          /\ \A v \in Workers \ {w} : wpc'[v] = wpc[v] /\ wjob'[v] = wjob[v]
      BY <2>6, <1>t DEF FinishJob
    <3>2. ASSUME NEW j \in Jobs, jobState'[j] = "running" PROVE Runs(j)'
      <4>1. Runs(j) /\ j # wjob[w]
        BY <3>1, <3>2, <1>h
      <4> QED
        BY <3>1, <4>1
    <3>3. \A j \in Jobs : jobState'[j] = "queued" => InQueue(j)'
      BY <3>1, <1>h DEF Holds
    <3> QED
      BY <3>2, <3>3, <1>g
  <2>7. CASE LeaveWait(w, "timed_out") \/ LeaveWait(w, "notified")
    BY <2>7, <1>t, <1>h, <1>k, <1>g DEF LeaveWait
  <2> QED
    BY <1>2, <2>4, <2>5, <2>6, <2>7 DEF Worker
<1>3. ASSUME NEW c \in Callers, Shutdown(c) PROVE JobsHeld'
  <2>1. ASSUME NEW pcs, NEW ws, NEW js, CallerDrain(c, pcs, ws, js), UNCHANGED wjob,
               pcs \in [Callers -> {"outside", "draining", "join_wait", "join_woken",
                                    "follow_wait", "follow_woken", "panicked", "returned"}],
               \A w \in Workers : wpc[w] = "running" => ws[w] = "running",
               \A d \in Callers \ {c} : cpc[d] = "draining" => pcs[d] = "draining",
               \A j \in Jobs : js[j] \in {"queued", "running"} =>
                   js[j] = jobState[j] /\ ~(cpc[c] = "draining" /\ cjob[c] = j)
        PROVE  JobsHeld'
    <3>1. CASE StopsAt(TRUE) = {}
      <4>1. /\ queue' = <<>> /\ JoinOrWait(c, pcs, ws)
            /\ jobState' = [j \in Jobs |->
                 IF \E k \in DOMAIN queue : j = queue[k] THEN "discarded" ELSE js[j]]
        BY <2>1, <3>1 DEF CallerDrain
      <4>2. /\ \A w \in Workers : wpc[w] = "running" => wpc'[w] = "running" /\ wjob'[w] = wjob[w]
            /\ \A d \in Callers \ {c} : cpc[d] = "draining" => cpc'[d] = "draining" /\ cjob'[d] = cjob[d]
        <5>1. wpc' \in {ws, WakeWorkers(ws)} /\ wjob' = wjob
          BY <2>1, <4>1 DEF JoinOrWait
        <5>2. /\ cpc' \in {[pcs EXCEPT ![c] = "join_wait"], [WakeCallers(pcs) EXCEPT ![c] = "returned"]}
              /\ cjob' = [cjob EXCEPT ![c] = NoJob]
          BY <4>1 DEF JoinOrWait
        <5>3. \A w \in Workers : ws[w] = "running" => WakeWorkers(ws)[w] = "running"
          BY DEF WakeWorkers
        <5>4. /\ \A d \in Callers : pcs[d] = "draining" => WakeCallers(pcs)[d] = "draining"
              /\ DOMAIN WakeCallers(pcs) = Callers
          BY DEF WakeCallers
        <5>5. \A w \in Workers : wpc[w] = "running" => wpc'[w] = "running" /\ wjob'[w] = wjob[w]
          BY <2>1, <5>1, <5>3
        <5>6. \A d \in Callers \ {c} : cpc[d] = "draining" => cpc'[d] = "draining" /\ cjob'[d] = cjob[d]
          BY <2>1, <5>2, <5>4, <1>t
        <5> QED
          BY <5>5, <5>6
      <4>3. ASSUME NEW j \in Jobs, jobState'[j] = "queued" PROVE FALSE
        <5>1. js[j] = "queued" /\ ~InQueue(j)
          BY <4>1, <4>3 DEF Holds
        <5> QED
          BY <5>1, <2>1, <1>h
      <4>4. ASSUME NEW j \in Jobs, jobState'[j] = "running" PROVE Runs(j)'
        <5>1. js[j] = "running"
          BY <4>1, <4>4
        <5>2. Runs(j) /\ ~(cpc[c] = "draining" /\ cjob[c] = j)
          BY <5>1, <2>1, <1>h
        <5> QED
          BY <5>2, <4>2
      <4> QED
        BY <4>3, <4>4, <1>g
    <3>2. CASE StopsAt(TRUE) # {}
      <4>1. PICK i \in StopsAt(TRUE) :
              /\ queue' = SubSeq(queue, i + 1, Len(queue))
              /\ jobState' = [j \in Jobs |->
                    IF j = queue[i]
                    THEN IF j \in Mandatory THEN "running" ELSE "discarded"
                    ELSE IF \E k \in 1..(i - 1) : j = queue[k] THEN "discarded" ELSE js[j]]
              /\ cpc' = [pcs EXCEPT ![c] = IF queue[i] \in Mandatory THEN "draining" ELSE "panicked"]
              /\ cjob' = [cjob EXCEPT ![c] = IF queue[i] \in Mandatory THEN queue[i] ELSE NoJob]
              /\ wpc' = ws
        BY <2>1, <3>2 DEF CallerDrain
      <4>2. i \in DOMAIN queue /\ i \in Nat
        BY <1>t DEF StopsAt
      <4>3. ASSUME NEW j \in Jobs, jobState'[j] = "queued" PROVE InQueue(j)'
        <5>1. js[j] = "queued" /\ ~AmongFirst(queue, i, j)
          <6>1. j # queue[i]
            BY <4>1, <4>3
          <6>2. ~(\E k \in 1..(i - 1) : j = queue[k]) /\ js[j] = "queued"
            BY <4>1, <4>3, <6>1
          <6>3. \A k \in 1..i : k = i \/ k \in 1..(i - 1)
            BY <4>2
          <6> QED
            BY <6>1, <6>2, <6>3 DEF AmongFirst
        <5>2. InQueue(j)
          BY <5>1, <2>1, <1>h
        <5>3. queue' = SubSeq(queue, i + 1, Len(queue))
          BY <4>1
        <5>4. queue \in Seq(Jobs)
          BY <1>t
        <5> QED
          BY <4>2, <5>1, <5>2, <5>3, <5>4, PoppedJobs, Zenon
      <4>4. ASSUME NEW j \in Jobs, jobState'[j] = "running" PROVE Runs(j)'
        <5>1. CASE j = queue[i]
          <6>1. j \in Mandatory
            BY <4>1, <4>4, <5>1
          <6> QED
            BY <4>1, <5>1, <6>1, <2>1, <1>t
        <5>2. CASE j # queue[i]
          <6>1. js[j] = "running"
            BY <4>1, <4>4, <5>2
          <6>2. Runs(j) /\ ~(cpc[c] = "draining" /\ cjob[c] = j)
            BY <6>1, <2>1, <1>h
          <6> QED
            BY <4>1, <6>2, <2>1, <1>t
        <5> QED
          BY <5>1, <5>2
      <4> QED
        BY <4>3, <4>4, <1>g
    <3> QED
      BY <3>1, <3>2
  <2>2. CASE ShutdownFirst(c)
    <3>1. /\ CallerDrain(c, WakeCallers(cpc), WakeWorkers(wpc), jobState)
          /\ UNCHANGED wjob /\ cpc[c] = "outside"
      BY <2>2 DEF ShutdownFirst
    <3>2. WakeCallers(cpc) \in [Callers -> {"outside", "draining", "join_wait", "join_woken",
                                    "follow_wait", "follow_woken", "panicked", "returned"}]
      BY <1>t DEF WakeCallers
    <3>3. \A w \in Workers : wpc[w] = "running" => WakeWorkers(wpc)[w] = "running"
      BY <1>w
    <3>4. \A d \in Callers \ {c} : cpc[d] = "draining" => WakeCallers(cpc)[d] = "draining"
      BY <1>c
    <3>5. \A j \in Jobs : jobState[j] \in {"queued", "running"} =>
             jobState[j] = jobState[j] /\ ~(cpc[c] = "draining" /\ cjob[c] = j)
      BY <3>1
    <3> QED
      BY <3>1, <3>2, <3>3, <3>4, <3>5, <2>1
  <2>3. CASE ShutdownContinue(c)
    <3> DEFINE js == [jobState EXCEPT ![cjob[c]] = "done"]
    <3>1. CallerDrain(c, cpc, wpc, js) /\ UNCHANGED wjob
      BY <2>3 DEF ShutdownContinue
    <3>2. \A j \in Jobs : js[j] \in {"queued", "running"} => js[j] = jobState[j] /\ cjob[c] # j
      BY <1>t
    <3> HIDE DEF js
    <3> QED
      BY <3>1, <3>2, <1>t, <2>1
  <2>4. CASE ShutdownJoin(c)
    <3>1. /\ cpc[c] = "join_woken" /\ UNCHANGED <<queue, jobState, wjob>>
          /\ wpc' \in {wpc, WakeWorkers(wpc)}
          /\ cpc' \in {[cpc EXCEPT ![c] = "join_wait"], [WakeCallers(cpc) EXCEPT ![c] = "returned"]}
          /\ cjob' = [cjob EXCEPT ![c] = NoJob]
      BY <2>4 DEF ShutdownJoin, JoinOrWait
    <3>2. DOMAIN WakeCallers(cpc) = Callers
      BY DEF WakeCallers
    <3>3. \A d \in Callers : cpc[d] = "draining" => cpc'[d] = "draining" /\ cjob'[d] = cjob[d]
      BY <3>1, <3>2, <1>t, <1>c
    <3>4. \A v \in Workers : wpc[v] = "running" => wpc'[v] = "running" /\ wjob'[v] = wjob[v]
      BY <3>1, <1>w
    <3> QED
      BY <3>1, <3>3, <3>4, <1>h, <1>k, <1>g
  <2>5. CASE ShutdownFollow(c) \/ Expire(c) \/ SpuriousCaller(c)
    <3>1. UNCHANGED <<queue, jobState, wpc, wjob, cjob>>
      BY <2>5 DEF ShutdownFollow, Expire, SpuriousCaller
    <3>2. \A d \in Callers : cpc[d] = "draining" => WakeCallers(cpc)[d] = "draining"
      BY DEF WakeCallers
    <3>3. PICK p : cpc' = [cpc EXCEPT ![c] = p] /\ (cpc[c] = "draining" => p = "draining")
      <4>1. CASE ShutdownFollow(c)
        BY <4>1 DEF ShutdownFollow
      <4>2. CASE Expire(c)
        BY <4>2, <3>2 DEF Expire
      <4>3. CASE SpuriousCaller(c)
        BY <4>3, <3>2 DEF SpuriousCaller
      <4> QED
        BY <2>5, <4>1, <4>2, <4>3
    <3>4. \A d \in Callers : cpc[d] = "draining" => cpc'[d] = "draining"
      BY <3>3, <1>t
    <3> QED
      BY <3>1, <3>4, <1>h, <1>k, <1>g
  <2> QED
    BY <1>3, <2>2, <2>3, <2>4, <2>5 DEF Shutdown
<1>4. CASE UNCHANGED vars
  BY <1>4, <1>h, <1>k, <1>g DEF vars
<1> QED
  BY <1>1, <1>2, <1>3, <1>4 DEF Next

\* Only the call that sets the flag joins, and it stops when it completes.
LEMMA JoinsStep ==
    ASSUME PoolInv, OneJoins, [Next]_vars
    PROVE  OneJoins'
<1>t. /\ cpc \in [Callers -> {"outside", "draining", "join_wait", "join_woken",
                              "follow_wait", "follow_woken", "panicked", "returned"}]
      /\ shutdown \in BOOLEAN /\ shutdown_complete \in BOOLEAN
  BY DEF PoolInv, TypeOK
<1>0. /\ shutdown => shutdown'
      /\ \A c \in Callers : cpc[c] \in Joining => shutdown
  BY DeadStep DEF PoolInv, CallersSetShutdown, Joining
<1>i. /\ \A c, d \in Callers : cpc[c] \in Joining /\ cpc[d] \in Joining => c = d
      /\ shutdown_complete => shutdown /\ \A c \in Callers : cpc[c] \notin Joining
  BY DEF OneJoins
<1>w. \A pcs : \A c \in Callers : WakeCallers(pcs)[c] \in Joining <=> pcs[c] \in Joining
  BY DEF WakeCallers, Joining
<1>s. ASSUME \A c \in Callers : cpc'[c] \in Joining => cpc[c] \in Joining,
             shutdown_complete' = shutdown_complete
      PROVE  OneJoins'
  BY <1>s, <1>i, <1>0 DEF OneJoins
<1>c. ASSUME NEW c \in Callers, NEW pcs, NEW ws, JoinOrWait(c, pcs, ws),
             pcs \in [Callers -> {"outside", "draining", "join_wait", "join_woken",
                                  "follow_wait", "follow_woken", "panicked", "returned"}],
             \A d \in Callers \ {c} : pcs[d] \notin Joining, ~shutdown_complete, shutdown'
      PROVE  OneJoins'
  <2>1. CASE num_threads > 0 /\ c \notin expired
    <3>1. cpc' = [pcs EXCEPT ![c] = "join_wait"] /\ shutdown_complete' = shutdown_complete
      BY <1>c, <2>1 DEF JoinOrWait
    <3>2. \A d \in Callers \ {c} : cpc'[d] \notin Joining
      BY <1>c, <3>1
    <3> QED
      BY <1>c, <3>1, <3>2 DEF OneJoins
  <2>2. CASE ~(num_threads > 0 /\ c \notin expired)
    <3>1. cpc' = [WakeCallers(pcs) EXCEPT ![c] = "returned"]
      BY <1>c, <2>2 DEF JoinOrWait
    <3>2. \A d \in Callers : cpc'[d] \notin Joining
      BY <1>c, <3>1, <1>w DEF Joining, WakeCallers
    <3> QED
      BY <1>c, <3>2 DEF OneJoins
  <2> QED
    BY <2>1, <2>2
<1>d. ASSUME NEW c \in Callers, NEW pcs, NEW ws, NEW js, CallerDrain(c, pcs, ws, js),
             pcs \in [Callers -> {"outside", "draining", "join_wait", "join_woken",
                                  "follow_wait", "follow_woken", "panicked", "returned"}],
             \A d \in Callers \ {c} : pcs[d] \notin Joining, ~shutdown_complete, shutdown'
      PROVE  OneJoins'
  <2>1. CASE StopsAt(TRUE) = {}
    BY <1>c, <1>d, <2>1 DEF CallerDrain
  <2>2. CASE StopsAt(TRUE) # {}
    <3>1. PICK x : cpc' = [pcs EXCEPT ![c] = x] /\ shutdown_complete' = shutdown_complete
      BY <1>d, <2>2 DEF CallerDrain
    <3>2. \A d \in Callers \ {c} : cpc'[d] \notin Joining
      BY <1>d, <3>1
    <3> QED
      BY <1>d, <3>1, <3>2 DEF OneJoins
  <2> QED
    BY <2>1, <2>2
<1>1. ASSUME NEW j \in Jobs, Dispatch(j) PROVE OneJoins'
  BY <1>1, <1>s DEF Dispatch, DispatchClosed, DispatchToIdle, DispatchSpawn, DispatchWait,
     DispatchFails, Accept, flags
<1>2. ASSUME NEW w \in Workers, Worker(w) PROVE OneJoins'
  <2>1. (cpc' = cpc \/ cpc' = WakeCallers(cpc)) /\ shutdown_complete' = shutdown_complete
    BY <1>2 DEF Worker, Start, WakeNotified, WakeSpurious, FinishJob, LeaveWait, Drain,
       RunNext, DropUnwinds, GoIdle, ExitDrained, Exit, flags
  <2> QED
    BY <2>1, <1>s, <1>w
<1>3. ASSUME NEW c \in Callers, Shutdown(c) PROVE OneJoins'
  <2>1. CASE ShutdownFirst(c)
    <3>1. /\ CallerDrain(c, WakeCallers(cpc), WakeWorkers(wpc), jobState)
          /\ ~shutdown /\ shutdown'
      BY <2>1 DEF ShutdownFirst
    <3>2. WakeCallers(cpc) \in [Callers -> {"outside", "draining", "join_wait", "join_woken",
                                    "follow_wait", "follow_woken", "panicked", "returned"}]
      BY <1>t DEF WakeCallers
    <3>3. (\A d \in Callers : WakeCallers(cpc)[d] \notin Joining) /\ ~shutdown_complete
      BY <3>1, <1>0, <1>i, <1>w
    <3> QED
      BY <3>1, <3>2, <3>3, <1>d
  <2>2. ASSUME cpc[c] \in Joining
        PROVE  (\A d \in Callers \ {c} : cpc[d] \notin Joining) /\ ~shutdown_complete /\ shutdown'
    BY <2>2, <1>i, <1>0
  <2>3. CASE ShutdownContinue(c)
    BY <2>3, <2>2, <1>d, <1>t DEF ShutdownContinue, Joining
  <2>4. CASE ShutdownJoin(c)
    BY <2>4, <2>2, <1>c, <1>t DEF ShutdownJoin, Joining
  <2>5. CASE ShutdownFollow(c)
    BY <2>5, <1>s, <1>t DEF ShutdownFollow, Joining, flags
  <2>6. CASE Expire(c) \/ SpuriousCaller(c)
    BY <2>6, <1>s, <1>t, <1>w DEF Expire, SpuriousCaller, flags
  <2> QED
    BY <1>3, <2>1, <2>3, <2>4, <2>5, <2>6 DEF Shutdown
<1>4. CASE UNCHANGED vars
  BY <1>4, <1>s DEF vars, flags
<1> QED
  BY <1>1, <1>2, <1>3, <1>4 DEF Next

\* Nothing enters the queue after the flag is set, so it stays empty once drained.
LEMMA DrainedStep ==
    ASSUME PoolInv, OneJoins, DrainedFirst, [Next]_vars
    PROVE  DrainedFirst'
<1>t. /\ cpc \in [Callers -> {"outside", "draining", "join_wait", "join_woken",
                              "follow_wait", "follow_woken", "panicked", "returned"}]
      /\ queue \in Seq(Jobs)
  BY DEF PoolInv, TypeOK
<1> DEFINE Drained == shutdown_complete \/ \E c \in Callers : cpc[c] \in {"join_wait", "join_woken"}
<1>i. Drained => queue = <<>> /\ shutdown
  BY DEF DrainedFirst, OneJoins, PoolInv, CallersSetShutdown
<1>w. \A c \in Callers : WakeCallers(cpc)[c] \in {"join_wait", "join_woken"} <=> cpc[c] \in {"join_wait", "join_woken"}
  BY DEF WakeCallers
<1>s. ASSUME queue' = queue \/ queue' = <<>> \/ ~Drained, Drained' => Drained PROVE DrainedFirst'
  BY <1>s, <1>i DEF DrainedFirst
<1>1. ASSUME NEW j \in Jobs, Dispatch(j) PROVE DrainedFirst'
  <2>1. Drained' => Drained
    BY <1>1 DEF Dispatch, DispatchClosed, DispatchToIdle, DispatchSpawn, DispatchWait,
       DispatchFails, Accept, flags
  <2>2. queue' = queue \/ ~shutdown
    BY <1>1 DEF Dispatch, DispatchClosed, DispatchToIdle, DispatchSpawn, DispatchWait,
       DispatchFails, Accept
  <2> QED
    BY <2>1, <2>2, <1>i, <1>s
<1>2. ASSUME NEW w \in Workers, Worker(w) PROVE DrainedFirst'
  <2>1. (cpc' = cpc \/ cpc' = WakeCallers(cpc)) /\ shutdown_complete' = shutdown_complete
    BY <1>2 DEF Worker, Start, WakeNotified, WakeSpurious, FinishJob, LeaveWait, Drain,
       RunNext, DropUnwinds, GoIdle, ExitDrained, Exit, flags
  <2>2. Drained' => Drained
    BY <2>1, <1>w
  <2>3. queue = <<>> => queue' = <<>>
    <3>1. SUFFICES ASSUME queue = <<>> PROVE queue' = <<>>
      OBVIOUS
    <3>2. \A d : StopsAt(d) = {}
      BY <3>1 DEF StopsAt
    <3>3. ASSUME NEW ni, NEW nn, Drain(w, ni, nn) PROVE queue' = <<>>
      BY <3>1, <3>2, <3>3 DEF Drain, RunNext, DropUnwinds, GoIdle, ExitDrained, PopAll
    <3> QED
      BY <1>2, <3>1, <3>3 DEF Worker, Start, WakeNotified, WakeSpurious, FinishJob, LeaveWait
  <2> QED
    BY <2>2, <2>3, <1>i DEF DrainedFirst
<1>3. ASSUME NEW c \in Callers, Shutdown(c) PROVE DrainedFirst'
  <2>1. CASE ShutdownFirst(c) \/ ShutdownContinue(c)
    <3>0. PICK pcs, ws, js :
             /\ CallerDrain(c, pcs, ws, js)
             /\ pcs \in [Callers -> {"outside", "draining", "join_wait", "join_woken",
                                  "follow_wait", "follow_woken", "panicked", "returned"}]
             /\ \A d \in Callers : pcs[d] \in {"join_wait", "join_woken"} <=> cpc[d] \in {"join_wait", "join_woken"}
      <4>1. WakeCallers(cpc) \in [Callers -> {"outside", "draining", "join_wait", "join_woken",
                                  "follow_wait", "follow_woken", "panicked", "returned"}]
        BY <1>t DEF WakeCallers
      <4> QED
        BY <2>1, <4>1, <1>t, <1>w DEF ShutdownFirst, ShutdownContinue
    <3>1. CASE StopsAt(TRUE) = {}
      BY <3>0, <3>1 DEF CallerDrain, DrainedFirst
    <3>2. CASE StopsAt(TRUE) # {}
      <4>1. PICK x \in {"draining", "panicked"} :
               cpc' = [pcs EXCEPT ![c] = x] /\ shutdown_complete' = shutdown_complete
        BY <3>0, <3>2 DEF CallerDrain
      <4>2. queue # <<>>
        BY <3>2 DEF StopsAt
      <4>3. \A d \in Callers : cpc'[d] \notin {"join_wait", "join_woken"}
        BY <3>0, <4>1, <4>2, <1>i
      <4> QED
        BY <4>1, <4>2, <4>3, <1>i DEF DrainedFirst
    <3> QED
      BY <3>1, <3>2
  <2>2. CASE ShutdownJoin(c)
    <3>1. queue' = queue /\ Drained
      BY <2>2 DEF ShutdownJoin
    <3> QED
      BY <3>1, <1>i DEF DrainedFirst
  <2>3. CASE ShutdownFollow(c)
    BY <2>3, <1>s, <1>t DEF ShutdownFollow, flags
  <2>4. CASE Expire(c) \/ SpuriousCaller(c)
    <3>1. /\ queue' = queue /\ shutdown_complete' = shutdown_complete
          /\ cpc' = [cpc EXCEPT ![c] = WakeCallers(cpc)[c]]
      BY <2>4 DEF Expire, SpuriousCaller, flags
    <3>2. \A d \in Callers : cpc'[d] \in {"join_wait", "join_woken"} => cpc[d] \in {"join_wait", "join_woken"}
      BY <3>1, <1>t, <1>w
    <3> QED
      BY <3>1, <3>2, <1>s
  <2> QED
    BY <1>3, <2>1, <2>2, <2>3, <2>4 DEF Shutdown
<1>4. CASE UNCHANGED vars
  BY <1>4, <1>s DEF vars, flags
<1> QED
  BY <1>1, <1>2, <1>3, <1>4 DEF Next

\* The joining call completes only when num_threads is zero, unless its deadline
\* has passed, and no thread is spawned after the flag is set.
LEMMA JoinedStep ==
    ASSUME PoolInv, OneJoins, JoinedAll, [Next]_vars
    PROVE  JoinedAll'
<1>t. /\ cpc \in [Callers -> {"outside", "draining", "join_wait", "join_woken",
                              "follow_wait", "follow_woken", "panicked", "returned"}]
      /\ num_threads \in Nat /\ num_threads' \in Nat
  BY ThreadsStep DEF PoolInv, TypeOK
<1> SUFFICES ASSUME expired' = {}
             PROVE  /\ shutdown_complete' => num_threads' = 0
                    /\ \A c \in Callers : cpc'[c] = "returned" => shutdown_complete'
  BY DEF JoinedAll
<1>e. expired = {}
  BY DEF Next, Dispatch, DispatchClosed, DispatchToIdle, DispatchSpawn, DispatchWait, DispatchFails,
     Accept, Worker, Start, WakeNotified, WakeSpurious, FinishJob, LeaveWait, Drain, RunNext,
     DropUnwinds, GoIdle, ExitDrained, Exit, Shutdown, ShutdownFirst, ShutdownContinue,
     ShutdownJoin, ShutdownFollow, Expire, SpuriousCaller, vars
<1>i. /\ shutdown_complete => num_threads = 0 /\ shutdown
      /\ \A c \in Callers : cpc[c] = "returned" => shutdown_complete
  BY <1>e DEF JoinedAll, OneJoins
<1>w. \A pcs : \A c \in Callers : WakeCallers(pcs)[c] = "returned" <=> pcs[c] = "returned"
  BY DEF WakeCallers
<1> DEFINE Goal == /\ shutdown_complete' => num_threads' = 0
                   /\ \A c \in Callers : cpc'[c] = "returned" => shutdown_complete'
<1>1. ASSUME NEW j \in Jobs, Dispatch(j) PROVE Goal
  <2>1. UNCHANGED <<cpc, shutdown_complete>> /\ (num_threads' = num_threads \/ ~shutdown)
    BY <1>1 DEF Dispatch, DispatchClosed, DispatchToIdle, DispatchSpawn, DispatchWait,
       DispatchFails, Accept, flags
  <2> QED
    BY <2>1, <1>i
<1>2. ASSUME NEW w \in Workers, Worker(w) PROVE Goal
  <2>1. (cpc' = cpc \/ cpc' = WakeCallers(cpc)) /\ shutdown_complete' = shutdown_complete
    BY <1>2 DEF Worker, Start, WakeNotified, WakeSpurious, FinishJob, LeaveWait, Drain,
       RunNext, DropUnwinds, GoIdle, ExitDrained, Exit, flags
  <2>2. num_threads' = num_threads \/ num_threads' = num_threads - 1
    BY <1>2 DEF Worker, Start, WakeNotified, WakeSpurious, FinishJob, LeaveWait, Drain,
       RunNext, DropUnwinds, GoIdle, ExitDrained, Exit
  <2>3. num_threads = 0 => num_threads' = 0
    BY <2>2, <1>t
  <2> QED
    BY <2>1, <2>3, <1>i, <1>w
<1>3. ASSUME NEW c \in Callers, Shutdown(c) PROVE Goal
  <2>0. num_threads' = num_threads
    BY <1>3 DEF Shutdown, ShutdownFirst, ShutdownContinue, ShutdownJoin, ShutdownFollow,
       Expire, SpuriousCaller
  <2>1. ASSUME NEW pcs, NEW ws, JoinOrWait(c, pcs, ws),
               pcs \in [Callers -> {"outside", "draining", "join_wait", "join_woken",
                                  "follow_wait", "follow_woken", "panicked", "returned"}],
               \A d \in Callers : pcs[d] = "returned" => cpc[d] = "returned"
        PROVE  Goal
    <3>1. CASE num_threads > 0 /\ c \notin expired
      <4>1. cpc' = [pcs EXCEPT ![c] = "join_wait"] /\ shutdown_complete' = shutdown_complete
        BY <2>1, <3>1 DEF JoinOrWait
      <4> QED
        BY <4>1, <2>0, <2>1, <1>i
    <3>2. CASE ~(num_threads > 0 /\ c \notin expired)
      <4>1. num_threads = 0 /\ shutdown_complete'
        BY <2>1, <3>2, <1>e, <1>t DEF JoinOrWait
      <4> QED
        BY <4>1, <2>0
    <3> QED
      BY <3>1, <3>2
  <2>2. ASSUME NEW pcs, NEW ws, NEW js, CallerDrain(c, pcs, ws, js),
               pcs \in [Callers -> {"outside", "draining", "join_wait", "join_woken",
                                  "follow_wait", "follow_woken", "panicked", "returned"}],
               \A d \in Callers : pcs[d] = "returned" => cpc[d] = "returned"
        PROVE  Goal
    <3>1. CASE StopsAt(TRUE) = {}
      BY <2>1, <2>2, <3>1 DEF CallerDrain
    <3>2. CASE StopsAt(TRUE) # {}
      <4>1. PICK x \in {"draining", "panicked"} :
               cpc' = [pcs EXCEPT ![c] = x] /\ shutdown_complete' = shutdown_complete
        BY <2>2, <3>2 DEF CallerDrain
      <4> QED
        BY <4>1, <2>0, <2>2, <1>i
    <3> QED
      BY <3>1, <3>2
  <2>3. CASE ShutdownFirst(c)
    <3>1. WakeCallers(cpc) \in [Callers -> {"outside", "draining", "join_wait", "join_woken",
                                  "follow_wait", "follow_woken", "panicked", "returned"}]
      BY <1>t DEF WakeCallers
    <3> QED
      BY <2>2, <2>3, <3>1, <1>w DEF ShutdownFirst
  <2>4. CASE ShutdownContinue(c)
    BY <2>2, <2>4, <1>t DEF ShutdownContinue
  <2>5. CASE ShutdownJoin(c)
    BY <2>1, <2>5, <1>t DEF ShutdownJoin
  <2>6. CASE ShutdownFollow(c)
    BY <2>6, <2>0, <1>e, <1>i, <1>t DEF ShutdownFollow, flags
  <2>7. CASE Expire(c) \/ SpuriousCaller(c)
    BY <2>7, <2>0, <1>i, <1>t, <1>w DEF Expire, SpuriousCaller, flags
  <2> QED
    BY <1>3, <2>3, <2>4, <2>5, <2>6, <2>7 DEF Shutdown
<1>4. CASE UNCHANGED vars
  BY <1>4, <1>i DEF vars, flags
<1> QED
  BY <1>1, <1>2, <1>3, <1>4 DEF Next

\* When a call of shutdown() returns and no deadline has expired, every worker is
\* gone and no accepted job is left queued or running (blocking.rs:150-153).
THEOREM ShutdownLeavesQuiet == Spec => []JoinedMeansQuiet
<1>1. Init => QuietInv
  BY DEF Init, QuietInv, JobsHeld, OneJoins, DrainedFirst, JoinedAll, Joining
<1>2. PoolInv /\ QuietInv /\ [Next]_vars => QuietInv'
  BY HeldStep, JoinsStep, DrainedStep, JoinedStep DEF QuietInv
<1>3. PoolInv /\ QuietInv => JoinedMeansQuiet
  <2> SUFFICES ASSUME PoolInv, QuietInv, expired = {}, NEW c \in Callers, cpc[c] = "returned"
               PROVE  /\ \A w \in Workers : wpc[w] = "none"
                      /\ \A j \in Jobs : jobState[j] \notin {"queued", "running"}
    BY DEF JoinedMeansQuiet
  <2>1. shutdown_complete /\ num_threads = 0 /\ queue = <<>>
    BY DEF QuietInv, JoinedAll, DrainedFirst
  <2>2. Counted(wpc) = {}
    BY <2>1, WorkersFinite DEF PoolInv, ThreadAccounting, Counted
  <2>3. \A w \in Workers : wpc[w] = "none"
    BY <2>2 DEF Counted
  <2>4. \A d \in Callers : cpc[d] # "draining"
    BY <2>1 DEF QuietInv, OneJoins, Joining
  <2> QED
    BY <2>1, <2>3, <2>4 DEF QuietInv, JobsHeld, Holds
<1> QED
  BY <1>1, <1>2, <1>3, PoolInvariance, PTL DEF Spec

=============================================================================
