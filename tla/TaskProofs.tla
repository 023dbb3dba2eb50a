----------------------------- MODULE TaskProofs -----------------------------
(***************************************************************************)
(* The reference count, the single notification and the access rules of a  *)
(* task's cells, for any number of wakers, with and without a scheduler.   *)
(***************************************************************************)
EXTENDS Task, FiniteSetTheorems, TLAPS

\* RUNNING is held by exactly one thread, the one inside Task::run; the future
\* lives until that thread drops it.
RunnerInv ==
    /\ state.running <=> opc \in {"polling", "cancel", "finish"}
    /\ state.running => ~state.complete
    /\ opc \in {"drop_output", "wake_join", "unset_waker", "drop_waker"} => state.complete
    /\ opc \in {"polling", "cancel"} => stage = "running"
    /\ IsIdle(state) /\ ~freed => stage = "running"

\* Who may touch the join-waker cell, and who drops the output.
JoinInv ==
    /\ state.join_interest <=> jpc \in JoinPoll \cup {"held", "done", "push"}
    /\ state.join_waker => jwaker # None
    /\ state.join_waker /\ ~state.complete => jpc \in {"held", "push", "compare", "unset"}
    /\ state.join_waker /\ state.complete => opc \in {"wake_join", "unset_waker"}
    /\ opc \in {"wake_join", "unset_waker"} => state.join_waker
    /\ jpc \in {"compare", "unset"} => state.complete \/ state.join_waker
    /\ jpc = "compare" => jwaker # None
    /\ jpc \in JoinPoll => jarg # None
    /\ jpc = "set" => jwaker = jarg
    /\ jpc \in {"write", "set", "clear"} => ~state.join_waker
    /\ jpc \in {"clear", "take", "done", "drop_output"} => state.complete
    /\ opc = "drop_output" => jpc \in {"drop_waker", "drop_ref", "gone"}
    /\ opc = "drop_waker" => ~state.join_interest /\ ~state.join_waker
    /\ opc \in {"wake_join", "unset_waker", "drop_waker"} /\ ~state.join_interest
       => (jpc = "drop_output" /\ ~jdrop) \/ jpc \in {"drop_ref", "gone"}

\* The scheduler owns the task until it is complete.
HomeInv ==
    /\ ~Blocking /\ ~state.complete => owned
    /\ owned /\ state.complete => opc # "loop"
    /\ phase = "closed" => state.complete
    /\ ~Blocking /\ state.complete /\ stage # "consumed"
       => state.join_interest \/ opc = "drop_output" \/ jpc = "drop_output"

\* A pool task has no waker, no scheduler, and stays NOTIFIED until it runs.
PoolTaskInv ==
    Blocking => /\ ~owned
                /\ \A w \in Wakers : wpc[w] = "none"
                /\ IsIdle(state) => state.notified
                /\ opc # "yield" /\ jpc # "push"

\* The waker of the last Pending poll is in the cell, being woken, or woken.
JoinWakeInv ==
    /\ jpc \in {"held", "push"} /\ jpending
       => \/ ~state.complete /\ state.join_waker /\ jwaker = jarg
          \/ state.complete /\ opc = "wake_join" /\ jwaker = jarg
          \/ jwoken
    /\ jpc = "compare" => ~state.complete \/ opc = "wake_join" \/ (jwaker = jarg => jwoken)

\* The output stays until the handle takes it, if the destructor did not panic.
OutputInv ==
    ~PanickyDrop =>
        /\ opc = "finish" => stage = "finished"
        /\ state.complete /\ state.join_interest /\ jpc # "done" => stage = "finished"

CountInv == RefCounted /\ OneNotification

TaskInv ==
    /\ TypeOK /\ CountInv
    /\ RunnerInv /\ JoinInv /\ HomeInv /\ PoolTaskInv /\ JoinWakeInv /\ OutputInv
-----------------------------------------------------------------------------
(* Counting wakers. *)

\* The wakers can be counted.
LEMMA WakersFinite ==
    /\ Cardinality(Holding) \in Nat /\ Cardinality(Pushing) \in Nat
    /\ (\A w \in Wakers : wpc[w] = "none") => Cardinality(Holding) = 0 /\ Cardinality(Pushing) = 0
<1>1. Holding \subseteq Wakers /\ Pushing \subseteq Wakers
  BY DEF Holding, Pushing
<1>2. IsFiniteSet(Holding) /\ IsFiniteSet(Pushing)
  BY <1>1, TaskAssumption, FS_Subset
<1>3. ASSUME \A w \in Wakers : wpc[w] = "none" PROVE Holding = {} /\ Pushing = {}
  BY <1>3 DEF Holding, Pushing
<1> QED
  BY <1>2, <1>3, FS_CardinalityType, FS_EmptySet

\* The same after a step.
LEMMA WakersFinitePrimed == Cardinality(Holding)' \in Nat /\ Cardinality(Pushing)' \in Nat
<1>1. Holding' \subseteq Wakers /\ Pushing' \subseteq Wakers
  BY DEF Holding, Pushing
<1>2. IsFiniteSet(Holding') /\ IsFiniteSet(Pushing')
  BY <1>1, TaskAssumption, FS_Subset
<1> QED
  BY <1>2, FS_CardinalityType

\* A step that moves no waker changes no count.
LEMMA WakersSame ==
    ASSUME wpc' = wpc
    PROVE  /\ Cardinality(Holding)' = Cardinality(Holding)
           /\ Cardinality(Pushing)' = Cardinality(Pushing)
BY DEF Holding, Pushing

\* One waker moves from one program counter to another.
LEMMA WakerMoves ==
    ASSUME TypeOK, NEW w \in Wakers, NEW pc, wpc' = [wpc EXCEPT ![w] = pc]
    PROVE  /\ Cardinality(Holding)' + One(wpc[w] # "none") = Cardinality(Holding) + One(pc # "none")
           /\ Cardinality(Pushing)' + One(wpc[w] \in {"push_ref", "push_val"})
                = Cardinality(Pushing) + One(pc \in {"push_ref", "push_val"})
           /\ Cardinality(Holding)' \in Nat /\ Cardinality(Pushing)' \in Nat
<1>1. Holding \subseteq Wakers /\ Pushing \subseteq Wakers
  BY DEF Holding, Pushing
<1>2. IsFiniteSet(Holding) /\ IsFiniteSet(Pushing)
  BY <1>1, TaskAssumption, FS_Subset
<1>3. Cardinality(Holding) \in Nat /\ Cardinality(Pushing) \in Nat
  BY <1>2, FS_CardinalityType
<1>4. Holding' = IF pc # "none" THEN Holding \cup {w} ELSE Holding \ {w}
  BY DEF Holding, TypeOK
<1>5. Pushing' = IF pc \in {"push_ref", "push_val"} THEN Pushing \cup {w} ELSE Pushing \ {w}
  BY DEF Pushing, TypeOK
<1>6. w \in Holding <=> wpc[w] # "none"
  BY DEF Holding
<1>7. w \in Pushing <=> wpc[w] \in {"push_ref", "push_val"}
  BY DEF Pushing
<1>8. Cardinality(Holding \cup {w}) = IF w \in Holding THEN Cardinality(Holding) ELSE Cardinality(Holding) + 1
  BY <1>2, FS_AddElement, ZenonT(60)
<1>9. Cardinality(Pushing \cup {w}) = IF w \in Pushing THEN Cardinality(Pushing) ELSE Cardinality(Pushing) + 1
  BY <1>2, FS_AddElement, ZenonT(60)
<1>10. Cardinality(Holding \ {w}) = IF w \in Holding THEN Cardinality(Holding) - 1 ELSE Cardinality(Holding)
  BY <1>2, FS_RemoveElement, ZenonT(60)
<1>11. Cardinality(Pushing \ {w}) = IF w \in Pushing THEN Cardinality(Pushing) - 1 ELSE Cardinality(Pushing)
  BY <1>2, FS_RemoveElement, ZenonT(60)
<1>12. Cardinality(Holding)' \in Nat /\ Cardinality(Pushing)' \in Nat
  <2>1. IsFiniteSet(Holding') /\ IsFiniteSet(Pushing')
    BY <1>2, <1>4, <1>5, FS_AddElement, FS_RemoveElement
  <2> QED BY <2>1, FS_CardinalityType
<1>13. Cardinality(Holding)' + One(wpc[w] # "none") = Cardinality(Holding) + One(pc # "none")
  BY <1>3, <1>4, <1>6, <1>8, <1>10 DEF One
<1> QED
  BY <1>3, <1>5, <1>7, <1>9, <1>11, <1>12, <1>13 DEF One

\* Every transition of the state word yields a state word.
LEMMA TransitionsTyped ==
    ASSUME NEW s \in Snapshot, s.refs > 0
    PROVE  /\ RefInc(s) \in Snapshot /\ RefDec(s) \in Snapshot
           /\ ToRunning(s).state \in Snapshot /\ ToIdle(s).state \in Snapshot
           /\ ToComplete(s) \in Snapshot /\ ToCancelled(s).state \in Snapshot
           /\ NotifyByVal(s).state \in Snapshot /\ NotifyByRef(s).state \in Snapshot
           /\ JoinHandleDropped(s).state \in Snapshot /\ JoinHandleDroppedFast(s) \in Snapshot
           /\ SetJoinWaker(s) \in Snapshot /\ UnsetWaker(s) \in Snapshot
           /\ JoinHandleDropped(s).drop_waker \in BOOLEAN
<1>1. \A t \in Snapshot : RefInc(t) \in Snapshot /\ (t.refs > 0 => RefDec(t) \in Snapshot)
  BY DEF Snapshot, RefInc, RefDec
<1>2. \A a, t : Result(a, t).state = t /\ Releasing(t, a).state = t
  BY DEF Result, Releasing
<1>3. ToRunning(s).state \in Snapshot
  <2>1. [s EXCEPT !.running = TRUE, !.notified = FALSE] \in Snapshot
    BY ZenonT(60) DEF Snapshot
  <2> QED BY <1>1, <1>2, <2>1 DEF ToRunning
<1>4. ToIdle(s).state \in Snapshot
  <2>1. [s EXCEPT !.running = FALSE] \in Snapshot /\ [s EXCEPT !.running = FALSE].refs = s.refs
    BY ZenonT(60) DEF Snapshot
  <2>2. RefInc([s EXCEPT !.running = FALSE]) \in Snapshot /\ RefDec([s EXCEPT !.running = FALSE]) \in Snapshot
    BY <1>1, <2>1, ZenonT(60)
  <2>3. CASE s.cancelled
    BY <1>2, <2>3 DEF ToIdle
  <2>4. CASE ~s.cancelled /\ s.notified
    BY <1>2, <2>2, <2>4 DEF ToIdle
  <2>5. CASE ~s.cancelled /\ ~s.notified
    BY <1>2, <2>2, <2>5 DEF ToIdle
  <2> QED BY <2>3, <2>4, <2>5
<1>5. ToComplete(s) \in Snapshot
  BY ZenonT(60) DEF ToComplete, Snapshot
<1>6. ToCancelled(s).state \in Snapshot
  <2>1. [s EXCEPT !.cancelled = TRUE] \in Snapshot
    BY ZenonT(60) DEF Snapshot
  <2>2. [[s EXCEPT !.cancelled = TRUE] EXCEPT !.notified = TRUE] \in Snapshot
    BY <2>1, ZenonT(60) DEF Snapshot
  <2> QED BY <1>1, <1>2, <2>1, <2>2 DEF ToCancelled
<1>7. NotifyByVal(s).state \in Snapshot /\ NotifyByRef(s).state \in Snapshot
  <2>1. [s EXCEPT !.notified = TRUE] \in Snapshot /\ [s EXCEPT !.notified = TRUE].refs = s.refs
    BY ZenonT(60) DEF Snapshot
  <2>2. RefInc([s EXCEPT !.notified = TRUE]) \in Snapshot /\ RefDec([s EXCEPT !.notified = TRUE]) \in Snapshot
    BY <1>1, <2>1, ZenonT(60)
  <2>3. NotifyByRef(s).state \in Snapshot
    BY <1>2, <2>1, <2>2 DEF NotifyByRef
  <2>4. NotifyByVal(s).state \in Snapshot
    BY <1>1, <1>2, <2>2 DEF NotifyByVal
  <2> QED BY <2>3, <2>4
<1>8. JoinHandleDropped(s).state \in Snapshot /\ JoinHandleDropped(s).drop_waker \in BOOLEAN
  BY ZenonT(60) DEF JoinHandleDropped, Snapshot
<1>9. JoinHandleDroppedFast(s) \in Snapshot
  <2>1. [s EXCEPT !.join_interest = FALSE] \in Snapshot /\ [s EXCEPT !.join_interest = FALSE].refs = s.refs
    BY ZenonT(60) DEF Snapshot
  <2> QED BY <1>1, <2>1, ZenonT(60) DEF JoinHandleDroppedFast
<1>10. SetJoinWaker(s) \in Snapshot /\ UnsetWaker(s) \in Snapshot
  BY ZenonT(60) DEF SetJoinWaker, UnsetWaker, Snapshot
<1> QED
  BY <1>1, <1>3, <1>4, <1>5, <1>6, <1>7, <1>8, <1>9, <1>10

-----------------------------------------------------------------------------
(* Types. *)

\* Whoever acts on the task holds a reference, and the allocation is there.
LEMMA HolderKeepsAlive ==
    ASSUME TaskInv
    PROVE  local + remote > 0 \/ owned \/ opc \in Polling \/ jpc # "gone" \/ Holding # {}
           => state.refs > 0 /\ ~freed
<1>1. Cardinality(Holding) \in Nat /\ Cardinality(Pushing) \in Nat /\ local \in Nat /\ remote \in Nat
  BY WakersFinite DEF TaskInv, TypeOK
<1>2. Holding # {} => Cardinality(Holding) > 0
  <2>1. IsFiniteSet(Holding)
    BY TaskAssumption, FS_Subset DEF Holding
  <2> QED BY <1>1, <2>1, FS_EmptySet
<1> QED
  BY <1>1, <1>2 DEF TaskInv, CountInv, RefCounted, HeldRefs, Tasks, One

\* A new state word is one.
LEMMA InstallTyped ==
    ASSUME TypeOK, NEW s \in Snapshot, Install(s)
    PROVE  /\ state' \in Snapshot /\ freed' \in BOOLEAN
           /\ stage' \in {"running", "finished", "consumed"} /\ jwaker' \in JoinWakers \cup {None}
<1>1. state' \in Snapshot
  BY DEF Install
<1>2. freed' \in BOOLEAN
  BY Zenon DEF Install, TypeOK
<1>3. stage' \in {"running", "finished", "consumed"} /\ jwaker' \in JoinWakers \cup {None}
  BY DEF Install, TypeOK, cells
<1> QED BY <1>1, <1>2, <1>3

\* Every step keeps the types.
LEMMA TypeStep == ASSUME TaskInv, Next PROVE TypeOK'
<1>1. TypeOK
  BY SMTT(60) DEF TaskInv
<1>2. local + remote > 0 \/ owned \/ opc \in Polling \/ jpc # "gone" \/ Holding # {} => state.refs > 0
  BY HolderKeepsAlive
<1>3. state \in Snapshot
  BY <1>1 DEF TypeOK
<1>4. CASE Tick
  BY <1>1, <1>2, <1>3, <1>4, TransitionsTyped DEF Tick, TypeOK, Polling, JoinPoll, sched, cells,
     joiner
<1>5. CASE RunNext
  <2>1. PICK s \in Snapshot : Install(s)
    BY <1>1, <1>2, <1>3, <1>5, TransitionsTyped DEF RunNext, EnterPoll, TypeOK, Polling
  <2>2. owned' \in BOOLEAN /\ wake' \in BOOLEAN
    BY <1>1, <1>5, Zenon DEF RunNext, EnterPoll, TypeOK, sched
  <2> QED
    BY <1>1, <1>5, <2>1, <2>2, InstallTyped DEF RunNext, EnterPoll, TypeOK, Polling, JoinPoll,
       sched, cells, joiner
<1>6. CASE BeginShutdown
  BY <1>1, <1>2, <1>3, <1>6, TransitionsTyped DEF BeginShutdown, TypeOK, Polling, JoinPoll, sched,
     cells, joiner
<1>7. CASE ShutdownStep
  <2>1. CASE local + remote > 0 /\ EnterPoll(local + remote)
    <3>1. PICK s \in Snapshot : Install(s)
      BY <1>1, <1>2, <1>3, <2>1, TransitionsTyped DEF EnterPoll, TypeOK
    <3>2. owned' \in BOOLEAN /\ wake' \in BOOLEAN
      BY <1>1, <2>1, Zenon DEF EnterPoll, TypeOK
    <3> QED
      BY <1>1, <1>7, <2>1, <3>1, <3>2, InstallTyped DEF ShutdownStep, EnterPoll, TypeOK, Polling,
         JoinPoll, sched, cells, joiner
  <2>2. CASE phase' = "panicked" /\ UNCHANGED <<state, cells, freed, local, owned, opc, wpc, joiner, wake>>
    BY <1>1, <1>7, <2>2 DEF ShutdownStep, TypeOK, Polling, JoinPoll, cells, joiner
  <2> QED BY <1>7, <2>1, <2>2, ZenonT(60) DEF ShutdownStep
<1>8. CASE CloseQueues
  <2>1. local + remote <= state.refs
    BY <1>1, WakersFinite DEF TaskInv, CountInv, RefCounted, HeldRefs, Tasks, One, TypeOK
  <2>2. [state EXCEPT !.refs = @ - (local + remote)] \in Snapshot
    BY <1>1, <1>3, <2>1 DEF Snapshot, TypeOK
  <2> QED
    BY <1>1, <1>8, <2>2, InstallTyped DEF CloseQueues, TypeOK, Polling, JoinPoll, sched, cells,
       joiner
<1>9. CASE DiscardJob
  <2>1. PICK s \in Snapshot : Install(s)
    BY <1>1, <1>2, <1>3, <1>9, TransitionsTyped DEF DiscardJob, DropReference, TypeOK, Polling
  <2>2. owned' \in BOOLEAN /\ wake' \in BOOLEAN
    BY <1>1, <1>9, Zenon DEF DiscardJob, DropReference, TypeOK, sched
  <2> QED
    BY <1>1, <1>9, <2>1, <2>2, InstallTyped DEF DiscardJob, DropReference, TypeOK, Polling,
       JoinPoll, sched, cells, joiner
<1>10. CASE WakeSelf
  BY <1>1, <1>2, <1>3, <1>10, TransitionsTyped DEF WakeSelf, Asked, TypeOK, Polling, JoinPoll,
     sched, cells, joiner
<1>11. CASE PollPending
  <2>1. PICK s \in Snapshot : Install(s)
    BY <1>1, <1>2, <1>3, <1>11, TransitionsTyped DEF PollPending, TypeOK, Polling
  <2>2. owned' \in BOOLEAN /\ wake' \in BOOLEAN
    BY <1>1, <1>11, Zenon DEF PollPending, TypeOK, sched
  <2> QED
    BY <1>1, <1>11, <2>1, <2>2, InstallTyped DEF PollPending, TypeOK, Polling, JoinPoll, sched,
       cells, joiner
<1>12. CASE PollReady
  BY <1>1, <1>2, <1>3, <1>12, TransitionsTyped DEF PollReady, TypeOK, Polling, JoinPoll, sched,
     cells, joiner
<1>13. CASE Yield
  BY <1>1, <1>2, <1>3, <1>13, TransitionsTyped DEF Yield, TypeOK, Polling, JoinPoll, sched, cells,
     joiner
<1>14. CASE CancelTask
  BY <1>1, <1>2, <1>3, <1>14, TransitionsTyped DEF CancelTask, TypeOK, Polling, JoinPoll, sched,
     cells, joiner
<1>15. CASE Complete
  <2>1. wake' \in BOOLEAN
    BY <1>15, Zenon DEF Complete
  <2> QED
    BY <1>1, <1>2, <1>3, <1>15, <2>1, TransitionsTyped DEF Complete, TypeOK, Polling, JoinPoll,
       sched, cells, joiner
<1>16. CASE DropOutput
  BY <1>1, <1>2, <1>3, <1>16, TransitionsTyped DEF DropOutput, TypeOK, Polling, JoinPoll, sched,
     cells, joiner
<1>17. CASE WakeJoin
  BY <1>1, <1>2, <1>3, <1>17, TransitionsTyped DEF WakeJoin, TypeOK, Polling, JoinPoll, sched,
     cells, joiner
<1>18. CASE UnsetJoinWaker
  BY <1>1, <1>2, <1>3, <1>18, TransitionsTyped DEF UnsetJoinWaker, TypeOK, Polling, JoinPoll,
     sched, cells, joiner
<1>19. CASE DropJoinWaker
  BY <1>1, <1>2, <1>3, <1>19, TransitionsTyped DEF DropJoinWaker, TypeOK, Polling, JoinPoll, sched,
     cells, joiner
<1>20. CASE DropPollerRef
  <2>1. PICK s \in Snapshot : Install(s)
    BY <1>1, <1>2, <1>3, <1>20, TransitionsTyped DEF DropPollerRef, DropReference, TypeOK, Polling
  <2>2. owned' \in BOOLEAN /\ wake' \in BOOLEAN
    BY <1>1, <1>20, Zenon DEF DropPollerRef, DropReference, TypeOK, sched
  <2> QED
    BY <1>1, <1>20, <2>1, <2>2, InstallTyped DEF DropPollerRef, DropReference, TypeOK, Polling,
       JoinPoll, sched, cells, joiner
<1>21. CASE AfterRun
  <2>1. CASE owned /\ state.complete
    <3>1. RefDec(state) \in Snapshot
      BY <1>2, <1>3, <2>1, TransitionsTyped
    <3>2. owned' \in BOOLEAN
      BY <1>21, <2>1, Zenon DEF AfterRun
    <3> QED
      BY <1>1, <1>21, <2>1, <3>1, <3>2, InstallTyped DEF AfterRun, DropReference, TypeOK, Polling,
         JoinPoll, sched, cells, joiner
  <2>2. CASE ~(owned /\ state.complete)
    BY <1>1, <1>21, <2>2 DEF AfterRun, TypeOK, Polling, JoinPoll, sched, cells, joiner
  <2> QED BY <2>1, <2>2
<1>22. CASE JoinCompare
  <2>1. jpending' \in BOOLEAN
    BY <1>1, <1>22, Zenon DEF JoinCompare, JoinPending, TypeOK
  <2> QED
    BY <1>1, <1>2, <1>3, <1>22, <2>1, TransitionsTyped DEF JoinCompare, JoinPending, TypeOK,
       Polling, JoinPoll, sched, cells, joiner
<1>23. CASE JoinUnset
  BY <1>1, <1>2, <1>3, <1>23, TransitionsTyped DEF JoinUnset, TypeOK, Polling, JoinPoll, sched,
     cells, joiner
<1>24. CASE JoinWrite
  BY <1>1, <1>2, <1>3, <1>24, TransitionsTyped DEF JoinWrite, TypeOK, Polling, JoinPoll, sched,
     cells, joiner
<1>25. CASE JoinSet
  <2>1. jpending' \in BOOLEAN
    BY <1>1, <1>25, Zenon DEF JoinSet, JoinPending, TypeOK
  <2> QED
    BY <1>1, <1>2, <1>3, <1>25, <2>1, TransitionsTyped DEF JoinSet, JoinPending, TypeOK, Polling,
       JoinPoll, sched, cells, joiner
<1>26. CASE JoinClear
  BY <1>1, <1>2, <1>3, <1>26, TransitionsTyped DEF JoinClear, TypeOK, Polling, JoinPoll, sched,
     cells, joiner
<1>27. CASE JoinTake
  BY <1>1, <1>2, <1>3, <1>27, TransitionsTyped DEF JoinTake, TypeOK, Polling, JoinPoll, sched,
     cells, joiner
<1>28. CASE JoinPush
  <2>1. CASE phase = "closed"
    <3>1. RefDec(state) \in Snapshot
      BY <1>1, <1>2, <1>3, <1>28, TransitionsTyped DEF JoinPush
    <3> QED
      BY <1>1, <1>28, <2>1, <3>1, InstallTyped DEF JoinPush, PushRemote, DropReference, TypeOK,
         Polling, JoinPoll, sched, cells, joiner
  <2>2. CASE phase # "closed"
    BY <1>1, <1>28, <2>2 DEF JoinPush, PushRemote, TypeOK, Polling, JoinPoll, sched, cells, joiner
  <2> QED BY <2>1, <2>2
<1>29. CASE JoinAbort
  BY <1>1, <1>2, <1>3, <1>29, TransitionsTyped DEF JoinAbort, TypeOK, Polling, JoinPoll, sched,
     cells, joiner
<1>30. CASE JoinDropFast
  BY <1>1, <1>2, <1>3, <1>30, TransitionsTyped DEF JoinDropFast, TypeOK, Polling, JoinPoll, sched,
     cells, joiner
<1>31. CASE JoinDropSlow
  BY <1>1, <1>2, <1>3, <1>31, TransitionsTyped DEF JoinDropSlow, TypeOK, Polling, JoinPoll, sched,
     cells, joiner
<1>32. CASE JoinDropOutput
  BY <1>1, <1>2, <1>3, <1>32, TransitionsTyped DEF JoinDropOutput, TypeOK, Polling, JoinPoll,
     sched, cells, joiner
<1>33. CASE JoinDropWaker
  BY <1>1, <1>2, <1>3, <1>33, TransitionsTyped DEF JoinDropWaker, TypeOK, Polling, JoinPoll, sched,
     cells, joiner
<1>34. CASE JoinDropRef
  <2>1. PICK s \in Snapshot : Install(s)
    BY <1>1, <1>2, <1>3, <1>34, TransitionsTyped DEF JoinDropRef, DropReference, TypeOK, Polling
  <2>2. owned' \in BOOLEAN /\ wake' \in BOOLEAN
    BY <1>1, <1>34, Zenon DEF JoinDropRef, DropReference, TypeOK, sched
  <2> QED
    BY <1>1, <1>34, <2>1, <2>2, InstallTyped DEF JoinDropRef, DropReference, TypeOK, Polling,
       JoinPoll, sched, cells, joiner
<1>35. ASSUME NEW w \in Wakers, CloneWaker(w) PROVE TypeOK'
  BY <1>1, <1>2, <1>3, <1>35, TransitionsTyped DEF CloneWaker, TypeOK, Polling, JoinPoll, sched,
     cells, joiner, Holding
<1>36. ASSUME NEW w \in Wakers, WakeByRef(w) PROVE TypeOK'
  BY <1>1, <1>2, <1>3, <1>36, TransitionsTyped DEF WakeByRef, Asked, TypeOK, Polling, JoinPoll,
     sched, cells, joiner, Holding
<1>37. ASSUME NEW w \in Wakers, WakeByVal(w) PROVE TypeOK'
  <2>1. PICK s \in Snapshot : Install(s)
    BY <1>1, <1>2, <1>3, <1>37, TransitionsTyped DEF WakeByVal, Asked, TypeOK, Polling, Holding
  <2>2. owned' \in BOOLEAN /\ wake' \in BOOLEAN
    BY <1>1, <1>37, Zenon DEF WakeByVal, Asked, TypeOK, sched
  <2> QED
    BY <1>1, <1>37, <2>1, <2>2, InstallTyped DEF WakeByVal, Asked, TypeOK, Polling, JoinPoll,
       sched, cells, joiner
<1>38. ASSUME NEW w \in Wakers, Push(w) PROVE TypeOK'
  <2>1. CASE phase = "closed"
    <3>1. RefDec(state) \in Snapshot
      BY <1>1, <1>2, <1>3, <1>38, TransitionsTyped DEF Push, Holding
    <3> QED
      BY <1>1, <1>38, <2>1, <3>1, InstallTyped DEF Push, PushRemote, DropReference, TypeOK,
         Polling, JoinPoll, sched, cells, joiner
  <2>2. CASE phase # "closed"
    BY <1>1, <1>38, <2>2 DEF Push, PushRemote, TypeOK, Polling, JoinPoll, sched, cells, joiner
  <2> QED BY <2>1, <2>2
<1>39. ASSUME NEW w \in Wakers, DropWaker(w) PROVE TypeOK'
  <2>1. PICK s \in Snapshot : Install(s)
    BY <1>1, <1>2, <1>3, <1>39, TransitionsTyped DEF DropWaker, DropReference, TypeOK, Polling,
       Holding
  <2>2. owned' \in BOOLEAN /\ wake' \in BOOLEAN
    BY <1>1, <1>39, Zenon DEF DropWaker, DropReference, TypeOK, sched
  <2> QED
    BY <1>1, <1>39, <2>1, <2>2, InstallTyped DEF DropWaker, DropReference, TypeOK, Polling,
       JoinPoll, sched, cells, joiner
<1>40. ASSUME NEW w \in Wakers, WakeLocally(w) PROVE TypeOK'
  BY <1>1, <1>2, <1>3, <1>40, TransitionsTyped DEF WakeLocally, Asked, TypeOK, Polling, JoinPoll,
     sched, cells, joiner, Holding
<1>41. ASSUME NEW jw \in JoinWakers, JoinPollStart(jw) PROVE TypeOK'
  <2>1. /\ jpending' \in BOOLEAN /\ jwoken' \in BOOLEAN /\ jdrop' \in BOOLEAN
        /\ owned' \in BOOLEAN /\ freed' \in BOOLEAN /\ wake' \in BOOLEAN
    BY <1>1, <1>41, Zenon DEF JoinPollStart, TypeOK, sched
  <2>2. jpc' \in {"take", "compare", "write"} /\ jarg' \in JoinWakers
    BY <1>41, Zenon DEF JoinPollStart
  <2> QED
    BY <1>1, <1>41, <2>1, <2>2 DEF JoinPollStart, TypeOK, JoinPoll, sched, cells
<1> QED
  BY <1>4, <1>5, <1>6, <1>7, <1>8, <1>9, <1>10, <1>11, <1>12, <1>13, <1>14, <1>15, <1>16, <1>17,
     <1>18, <1>19, <1>20, <1>21, <1>22, <1>23, <1>24, <1>25, <1>26, <1>27, <1>28, <1>29, <1>30,
     <1>31, <1>32, <1>33, <1>34, <1>35, <1>36, <1>37, <1>38, <1>39, <1>40, <1>41 DEF Next,
     Scheduler, Poller, Finishing, Join, JoinSteps, Waker
-----------------------------------------------------------------------------
(* Counting. *)

\* A queue entry means an idle, notified task, and there is only the one.
LEMMA EntryIsIdle ==
    ASSUME TaskInv, local + remote > 0
    PROVE  /\ IsIdle(state) /\ state.notified /\ local + remote = 1
           /\ opc # "yield" /\ jpc # "push" /\ Cardinality(Pushing) = 0
BY WakersFinite DEF TaskInv, CountInv, OneNotification, Tasks, One, TypeOK

\* Task::run of that entry takes RUNNING and keeps the reference.
LEMMA EnterPollIs ==
    ASSUME TaskInv, local + remote > 0, NEW l, EnterPoll(l)
    PROVE  /\ state' = [state EXCEPT !.running = TRUE, !.notified = FALSE]
           /\ UNCHANGED <<freed, stage, jwaker>>
           /\ opc' = IF state.cancelled THEN "cancel" ELSE "polling"
<1>1. ToRunning(state) = Result(IF state.cancelled THEN "Cancelled" ELSE "Success",
                                [state EXCEPT !.running = TRUE, !.notified = FALSE])
  BY EntryIsIdle DEF ToRunning
<1>2. state.refs > 0
  BY HolderKeepsAlive
<1>3. [state EXCEPT !.running = TRUE, !.notified = FALSE].refs = state.refs
  BY DEF TaskInv, TypeOK, Snapshot
<1>4. state' = [state EXCEPT !.running = TRUE, !.notified = FALSE]
  BY <1>1 DEF EnterPoll, Install, Result
<1>5. UNCHANGED <<freed, stage, jwaker>>
  <2>1. Install([state EXCEPT !.running = TRUE, !.notified = FALSE])
    BY <1>1 DEF EnterPoll, Result
  <2> QED BY <1>2, <1>3, <2>1 DEF Install, cells
<1> QED
  BY <1>1, <1>4, <1>5 DEF EnterPoll, Result

\* A task does not change between the pool and a scheduler.
LEMMA PoolKept == ASSUME Next PROVE Blocking' <=> Blocking
<1> USE DEF Blocking, sched
<1>1. CASE Scheduler
  BY <1>1 DEF Scheduler, Tick, RunNext, BeginShutdown, ShutdownStep, CloseQueues, DiscardJob
<1>2. CASE Poller
  BY <1>2 DEF Poller, Finishing, WakeSelf, PollPending, PollReady, Yield, CancelTask, Complete,
     DropOutput, WakeJoin, UnsetJoinWaker, DropJoinWaker, DropPollerRef, AfterRun
<1>3. CASE Join
  BY <1>3, ZenonT(60) DEF Join, JoinSteps, JoinCompare, JoinUnset, JoinWrite, JoinSet, JoinClear, JoinTake,
     JoinPush, JoinDropOutput, JoinDropWaker, JoinDropRef, JoinAbort, JoinDropFast, JoinDropSlow,
     JoinPollStart
<1>4. ASSUME NEW w \in Wakers, Waker(w) PROVE Blocking' <=> Blocking
  BY <1>4 DEF Waker, CloneWaker, WakeByRef, WakeByVal, Push, DropWaker, WakeLocally
<1> QED
  BY <1>1, <1>2, <1>3, <1>4 DEF Next

\* Every step keeps the reference count exact and the notification single.
LEMMA CountStep == ASSUME TaskInv, Next PROVE RefCounted' /\ OneNotification'
<1> USE DEF RefCounted, OneNotification, Tasks, HeldRefs, One, Polling, JoinPoll, TypeOK,
            Snapshot, IsIdle, RefInc, RefDec, Result, Releasing, joiner, sched, cells
<1>1. /\ TypeOK /\ CountInv /\ RunnerInv /\ JoinInv /\ HomeInv /\ PoolTaskInv
      /\ Blocking' <=> Blocking
  BY SMTT(60), PoolKept DEF TaskInv
<1>2. Cardinality(Holding) \in Nat /\ Cardinality(Pushing) \in Nat
  BY WakersFinite
<1>3. TypeOK'
  BY TypeStep
<1>4. CASE Tick
  BY <1>1, <1>2, <1>4, WakersSame DEF Tick, CountInv, RunnerInv, JoinInv, HomeInv, PoolTaskInv
<1>5. CASE RunNext
  <2>1. CASE local + remote > 0
    <3>1. EnterPoll(local)
      BY <1>1, <1>5, <2>1 DEF RunNext
    <3>2. /\ state' = [state EXCEPT !.running = TRUE, !.notified = FALSE]
          /\ UNCHANGED freed
          /\ opc' = IF state.cancelled THEN "cancel" ELSE "polling"
      BY <2>1, <3>1, EnterPollIs
    <3>3. local' = 0 /\ remote' = 0 /\ UNCHANGED <<owned, wpc, jpc>>
      BY <1>1, <1>5, <2>1, <3>1, EntryIsIdle DEF RunNext, EnterPoll
    <3>4. opc = "loop" /\ IsIdle(state) /\ local + remote = 1 /\ jpc # "push" /\ Cardinality(Pushing) = 0
      BY <1>5, <2>1, EntryIsIdle DEF RunNext
    <3> HIDE DEF joiner, sched, cells
    <3> QED
      BY <1>1, <1>2, <3>2, <3>3, <3>4, WakersSame DEF CountInv
  <2> QED BY <1>1, <1>5, <2>1 DEF RunNext, EnterPoll
<1>6. CASE BeginShutdown
  <2>1. CASE IsIdle(state) /\ ~state.notified /\ ~state.cancelled
    BY <1>1, <1>2, <1>6, <2>1, WakersSame DEF BeginShutdown, ToCancelled, CountInv
  <2>2. CASE ~(IsIdle(state) /\ ~state.notified /\ ~state.cancelled)
    <3>1. /\ state'.refs = state.refs /\ state'.running = state.running
          /\ state'.complete = state.complete /\ state'.notified = state.notified
          /\ UNCHANGED <<remote, local, freed, owned, opc, wpc, jpc>>
      BY <1>1, <1>6, <2>2, ZenonT(60) DEF BeginShutdown, ToCancelled, CountInv, RunnerInv
    <3> QED BY <1>1, <3>1, WakersSame DEF CountInv
  <2> QED BY <2>1, <2>2
<1>7. CASE ShutdownStep
  <2>1. CASE local + remote > 0
    <3>1. EnterPoll(local + remote)
      <4>1. local + remote # 0
        BY <1>1, <2>1
      <4> QED BY <1>7, <4>1, Zenon DEF ShutdownStep
    <3>2. /\ state' = [state EXCEPT !.running = TRUE, !.notified = FALSE]
          /\ UNCHANGED freed
          /\ opc' = IF state.cancelled THEN "cancel" ELSE "polling"
      BY <2>1, <3>1, EnterPollIs
    <3>3. local' = 0 /\ remote' = 0 /\ UNCHANGED <<owned, wpc, jpc>>
      BY <1>1, <1>7, <2>1, <3>1, EntryIsIdle DEF ShutdownStep, EnterPoll
    <3>4. opc = "loop" /\ IsIdle(state) /\ local + remote = 1 /\ jpc # "push" /\ Cardinality(Pushing) = 0
      BY <1>7, <2>1, EntryIsIdle DEF ShutdownStep
    <3> HIDE DEF joiner, sched, cells
    <3> QED
      BY <1>1, <1>2, <3>2, <3>3, <3>4, WakersSame DEF CountInv
  <2>3. CASE local + remote = 0
    <3>1. UNCHANGED <<state, freed, local, remote, owned, opc, wpc, jpc>>
      <4>1. ~(local + remote > 0) /\ remote = 0
        BY <1>1, <2>3
      <4>2. remote' = 0 /\ UNCHANGED <<state, cells, freed, local, owned, opc, wpc, joiner, wake>>
        BY <1>7, <4>1, Zenon DEF ShutdownStep
      <4> QED BY <4>1, <4>2
    <3> QED BY <1>1, <3>1, WakersSame DEF CountInv
  <2> QED BY <1>1, <1>7, <2>1, <2>3 DEF ShutdownStep, EnterPoll
<1>8. CASE CloseQueues
  <2>1. state.complete
    BY <1>1, <1>8 DEF CloseQueues, HomeInv, Blocking
  <2>2. local = 0 /\ remote = 0
    BY <1>1, <2>1, EntryIsIdle
  <2>3. state' = state /\ (freed' <=> state.refs = 0)
    BY <1>1, <1>8, <2>2 DEF CloseQueues, Install, CountInv
  <2> QED
    BY <1>1, <1>2, <1>8, <2>2, <2>3, WakersSame DEF CloseQueues, CountInv
<1>9. CASE DiscardJob
  BY <1>1, <1>2, <1>9, WakersSame DEF DiscardJob, DropReference, Install, CountInv, RunnerInv,
     JoinInv, HomeInv, PoolTaskInv
<1>10. CASE WakeSelf
  BY <1>1, <1>2, <1>10, WakersSame DEF WakeSelf, NotifyByRef, Asked, CountInv, RunnerInv, JoinInv,
     HomeInv, PoolTaskInv
<1>11. CASE PollPending
  <2>1. CASE state.cancelled
    BY <1>1, <1>2, <1>11, <2>1, WakersSame DEF PollPending, Install, ToIdle, CountInv, RunnerInv
  <2>2. CASE ~state.cancelled /\ state.notified
    <3>1. ToIdle(state) = Result("OkNotified", RefInc([state EXCEPT !.running = FALSE]))
      BY <2>2, Zenon DEF ToIdle
    <3>2. /\ state'.refs = state.refs + 1 /\ IsIdle(state') /\ state'.notified
          /\ opc = "polling" /\ opc' = "yield" /\ UNCHANGED <<local, remote, owned, wpc, jpc>>
      <4>1. state' = RefInc([state EXCEPT !.running = FALSE]) /\ opc = "polling" /\ opc' = "yield"
        BY <1>11, <3>1 DEF PollPending, Install
      <4>2. state \in Snapshot /\ state.notified /\ ~state.complete
        BY <1>1, <2>2, <4>1 DEF RunnerInv
      <4>3. state'.refs = state.refs + 1 /\ IsIdle(state') /\ state'.notified
        BY <4>1, <4>2
      <4> QED BY <1>11, <4>1, <4>3 DEF PollPending
    <3>3. ~freed /\ state.running
      BY <1>1, <3>2, HolderKeepsAlive DEF RunnerInv
    <3>4. freed' <=> state'.refs = 0
      BY <1>11, <3>3 DEF PollPending, Install
    <3> QED BY <1>1, <1>2, <3>2, <3>3, <3>4, WakersSame DEF CountInv
  <2>3. CASE ~state.cancelled /\ ~state.notified
    <3>1. ToIdle(state).state = RefDec([state EXCEPT !.running = FALSE]) /\ ToIdle(state).act \in {"Ok", "Dealloc"}
      BY <2>3 DEF ToIdle
    <3>2. /\ state'.refs = state.refs - 1 /\ IsIdle(state') /\ ~state'.notified
          /\ opc = "polling" /\ opc' = "ran" /\ UNCHANGED <<local, remote, owned, wpc, jpc>>
      BY <1>1, <1>11, <2>3, <3>1 DEF PollPending, Install, RunnerInv
    <3>3. ~freed /\ state.running
      BY <1>1, <3>2, HolderKeepsAlive DEF RunnerInv
    <3>4. freed' <=> state'.refs = 0
      BY <1>11, <3>3 DEF PollPending, Install
    <3> QED BY <1>1, <1>2, <3>2, <3>3, <3>4, WakersSame DEF CountInv
  <2> QED BY <2>1, <2>2, <2>3
<1>12. CASE PollReady
  BY <1>1, <1>2, <1>12, WakersSame DEF PollReady, CountInv, RunnerInv, JoinInv, HomeInv, PoolTaskInv
<1>13. CASE Yield
  BY <1>1, <1>2, <1>13, WakersSame DEF Yield, CountInv, RunnerInv, JoinInv, HomeInv, PoolTaskInv
<1>14. CASE CancelTask
  BY <1>1, <1>2, <1>14, WakersSame DEF CancelTask, CountInv, RunnerInv, JoinInv, HomeInv,
     PoolTaskInv
<1>15. CASE Complete
  BY <1>1, <1>2, <1>15, WakersSame DEF Complete, ToComplete, CountInv, RunnerInv, JoinInv, HomeInv,
     PoolTaskInv
<1>16. CASE DropOutput
  BY SMTT(60), <1>1, <1>2, <1>16, WakersSame DEF DropOutput, CountInv, RunnerInv, JoinInv, HomeInv,
     PoolTaskInv
<1>17. CASE WakeJoin
  BY SMTT(60), <1>1, <1>2, <1>17, WakersSame DEF WakeJoin, CountInv, RunnerInv, JoinInv, HomeInv, PoolTaskInv
<1>18. CASE UnsetJoinWaker
  BY <1>1, <1>2, <1>18, WakersSame DEF UnsetJoinWaker, UnsetWaker, CountInv, RunnerInv, JoinInv,
     HomeInv, PoolTaskInv
<1>19. CASE DropJoinWaker
  BY SMTT(60), <1>1, <1>2, <1>19, WakersSame DEF DropJoinWaker, CountInv, RunnerInv, JoinInv, HomeInv,
     PoolTaskInv
<1>20. CASE DropPollerRef
  BY <1>1, <1>2, <1>20, WakersSame DEF DropPollerRef, DropReference, Install, CountInv, RunnerInv,
     JoinInv, HomeInv, PoolTaskInv
<1>21. CASE AfterRun
  BY <1>1, <1>2, <1>21, WakersSame DEF AfterRun, DropReference, Install, CountInv, RunnerInv,
     JoinInv, HomeInv, PoolTaskInv
<1>22. CASE JoinCompare
  BY SMTT(60), <1>1, <1>2, <1>22, WakersSame DEF JoinCompare, JoinPending, CountInv, RunnerInv, JoinInv,
     HomeInv, PoolTaskInv
<1>23. CASE JoinUnset
  BY <1>1, <1>2, <1>23, WakersSame DEF JoinUnset, UnsetWaker, CountInv, RunnerInv, JoinInv,
     HomeInv, PoolTaskInv
<1>24. CASE JoinWrite
  BY SMTT(60), <1>1, <1>2, <1>24, WakersSame DEF JoinWrite, CountInv, RunnerInv, JoinInv, HomeInv, PoolTaskInv
<1>25. CASE JoinSet
  BY <1>1, <1>2, <1>25, WakersSame DEF JoinSet, JoinPending, SetJoinWaker, CountInv, RunnerInv,
     JoinInv, HomeInv, PoolTaskInv
<1>26. CASE JoinClear
  BY SMTT(60), <1>1, <1>2, <1>26, WakersSame DEF JoinClear, CountInv, RunnerInv, JoinInv, HomeInv, PoolTaskInv
<1>27. CASE JoinTake
  BY SMTT(60), <1>1, <1>2, <1>27, WakersSame DEF JoinTake, CountInv, RunnerInv, JoinInv, HomeInv, PoolTaskInv
<1>28. CASE JoinPush
  BY <1>1, <1>2, <1>28, WakersSame DEF JoinPush, PushRemote, DropReference, Install, CountInv,
     RunnerInv, JoinInv, HomeInv, PoolTaskInv
<1>29. CASE JoinAbort
  BY <1>1, <1>2, <1>29, WakersSame DEF JoinAbort, ToCancelled, CountInv, RunnerInv, JoinInv,
     HomeInv, PoolTaskInv
<1>30. CASE JoinDropFast
  <2>1. /\ state.refs = 2 /\ state'.refs = 1 /\ IsIdle(state) /\ IsIdle(state')
        /\ state.notified /\ state'.notified
    BY <1>30 DEF JoinDropFast, JoinHandleDroppedFast, InitialState
  <2> QED
    BY SMTT(60), <1>1, <1>2, <1>30, <2>1, WakersSame DEF JoinDropFast, CountInv
<1>31. CASE JoinDropSlow
  BY <1>1, <1>2, <1>31, WakersSame, ZenonT(60) DEF JoinDropSlow, JoinHandleDropped, CountInv, RunnerInv,
     JoinInv, HomeInv, PoolTaskInv
<1>32. CASE JoinDropOutput
  BY SMTT(60), <1>1, <1>2, <1>32, WakersSame DEF JoinDropOutput, CountInv, RunnerInv, JoinInv, HomeInv,
     PoolTaskInv
<1>33. CASE JoinDropWaker
  BY SMTT(60), <1>1, <1>2, <1>33, WakersSame DEF JoinDropWaker, CountInv, RunnerInv, JoinInv, HomeInv,
     PoolTaskInv
<1>34. CASE JoinDropRef
  BY <1>1, <1>2, <1>34, WakersSame DEF JoinDropRef, DropReference, Install, CountInv, RunnerInv,
     JoinInv, HomeInv, PoolTaskInv
<1>35. ASSUME NEW w \in Wakers, CloneWaker(w) PROVE RefCounted' /\ OneNotification'
  <2>1. /\ Cardinality(Holding)' + One(wpc[w] # "none") = Cardinality(Holding) + One(wpc'[w] # "none")
        /\ Cardinality(Pushing)' + One(wpc[w] \in {"push_ref", "push_val"})
             = Cardinality(Pushing) + One(wpc'[w] \in {"push_ref", "push_val"})
        /\ Cardinality(Holding)' \in Nat /\ Cardinality(Pushing)' \in Nat
    BY <1>1, <1>35, WakerMoves, ZenonT(60) DEF CloneWaker
  <2>2. /\ state'.refs = state.refs + 1 /\ state'.running = state.running
        /\ state'.complete = state.complete /\ state'.notified = state.notified
        /\ UNCHANGED <<freed, local, remote, owned, opc, jpc>>
    BY <1>1, <1>35 DEF CloneWaker
  <2>3. ~freed
    BY <1>35, HolderKeepsAlive DEF CloneWaker, Holding
  <2>4. wpc[w] = "none" /\ wpc'[w] = "held"
    BY <1>1, <1>35 DEF CloneWaker
  <2> QED
    BY SMTT(60), <1>1, <1>2, <2>1, <2>2, <2>3, <2>4 DEF CountInv
<1>36. ASSUME NEW w \in Wakers, WakeByRef(w) PROVE RefCounted' /\ OneNotification'
  <2>1. /\ Cardinality(Holding)' + One(wpc[w] # "none") = Cardinality(Holding) + One(wpc'[w] # "none")
        /\ Cardinality(Pushing)' + One(wpc[w] \in {"push_ref", "push_val"})
             = Cardinality(Pushing) + One(wpc'[w] \in {"push_ref", "push_val"})
        /\ Cardinality(Holding)' \in Nat /\ Cardinality(Pushing)' \in Nat
    BY <1>1, <1>36, WakerMoves, ZenonT(60) DEF WakeByRef
  <2> QED
    <3>1. CASE IsIdle(state) /\ ~state.notified
      <4>1. /\ state'.refs = state.refs + 1 /\ IsIdle(state') /\ state'.notified
            /\ wpc'[w] = "push_ref" /\ wpc[w] = "held"
        BY <1>1, <1>36, <3>1 DEF WakeByRef, NotifyByRef
      <4>2. ~freed /\ UNCHANGED <<freed, local, remote, owned, opc, jpc>>
        BY <1>36, HolderKeepsAlive DEF WakeByRef, Holding
      <4>3. Cardinality(Holding)' = Cardinality(Holding) /\ Cardinality(Pushing)' = Cardinality(Pushing) + 1
        BY <1>2, <2>1, <4>1
      <4>4. Tasks = 0 /\ Tasks' = 1
        BY <1>1, <1>2, <3>1, <4>2, <4>3 DEF CountInv
      <4>5. HeldRefs' = HeldRefs + 1
        BY SMTT(60), <1>1, <1>2, <4>2, <4>3
      <4>6. state.refs = HeldRefs /\ (freed <=> state.refs = 0) /\ state.refs \in Nat
        BY SMTT(60), <1>1 DEF CountInv
      <4> HIDE DEF Tasks, HeldRefs
      <4> QED BY <4>1, <4>2, <4>4, <4>5, <4>6
    <3>2. CASE ~(IsIdle(state) /\ ~state.notified)
      <4>1. /\ state'.refs = state.refs /\ (IsIdle(state') <=> IsIdle(state))
            /\ IsIdle(state) => state.notified /\ state'.notified
            /\ wpc'[w] = "held" /\ wpc[w] = "held"
        BY SMTT(60), <1>1, <1>36, <3>2 DEF WakeByRef, NotifyByRef, RunnerInv
      <4>2. UNCHANGED <<freed, local, remote, owned, opc, jpc>>
        BY <1>36 DEF WakeByRef
      <4> QED BY <1>1, <1>2, <2>1, <3>2, <4>1, <4>2 DEF CountInv
    <3> QED BY <3>1, <3>2
<1>37. ASSUME NEW w \in Wakers, WakeByVal(w) PROVE RefCounted' /\ OneNotification'
  <2>1. /\ Cardinality(Holding)' + One(wpc[w] # "none") = Cardinality(Holding) + One(wpc'[w] # "none")
        /\ Cardinality(Pushing)' + One(wpc[w] \in {"push_ref", "push_val"})
             = Cardinality(Pushing) + One(wpc'[w] \in {"push_ref", "push_val"})
        /\ Cardinality(Holding)' \in Nat /\ Cardinality(Pushing)' \in Nat
    BY <1>1, <1>37, WakerMoves, ZenonT(60) DEF WakeByVal
  <2>2. ~freed /\ state.refs > 0 /\ UNCHANGED <<local, remote, owned, opc, jpc>>
    BY SMTT(60), <1>37, HolderKeepsAlive DEF WakeByVal, Holding
  <2>3. CASE IsIdle(state) /\ ~state.notified
    <3>1. /\ state'.refs = state.refs + 1 /\ IsIdle(state') /\ state'.notified
          /\ wpc'[w] = "push_val" /\ wpc[w] = "held" /\ ~freed'
      BY <1>1, <1>37, <2>2, <2>3 DEF WakeByVal, NotifyByVal, Install
    <3>2. Cardinality(Holding)' = Cardinality(Holding) /\ Cardinality(Pushing)' = Cardinality(Pushing) + 1
      BY <1>2, <2>1, <3>1
    <3>3. Tasks = 0 /\ Tasks' = 1
      BY <1>1, <1>2, <2>2, <2>3, <3>2 DEF CountInv
    <3>4. HeldRefs' = HeldRefs + 1
      BY SMTT(60), <1>1, <1>2, <2>2, <3>2
    <3>5. state.refs = HeldRefs /\ state.refs \in Nat
      BY SMTT(60), <1>1 DEF CountInv
    <3> HIDE DEF Tasks, HeldRefs
    <3> QED BY <2>2, <3>1, <3>3, <3>4, <3>5
  <2>4. CASE ~(IsIdle(state) /\ ~state.notified)
    <3>1. /\ state'.refs = state.refs - 1 /\ (IsIdle(state') <=> IsIdle(state))
          /\ IsIdle(state) => state.notified /\ state'.notified
          /\ wpc'[w] = "none" /\ wpc[w] = "held"
      BY SMTT(60), <1>1, <1>37, <2>4 DEF WakeByVal, NotifyByVal, Install, RunnerInv
    <3>2. freed' <=> state'.refs = 0
      BY <1>1, <1>37, <2>2 DEF WakeByVal, Install
    <3>3. /\ Cardinality(Holding)' + 1 = Cardinality(Holding)
          /\ Cardinality(Pushing)' = Cardinality(Pushing)
      BY <1>2, <2>1, <3>1
    <3>4. Tasks' = Tasks
      BY <1>1, <1>2, <2>2, <3>3
    <3>5. HeldRefs' + 1 = HeldRefs
      BY <1>1, <1>2, <2>1, <2>2, <3>3, <3>4
    <3>6. state.refs = HeldRefs /\ state.refs \in Nat /\ HeldRefs' \in Int
      BY <1>1, <1>2, <2>1, <2>2, <3>5 DEF CountInv
    <3> HIDE DEF Tasks, HeldRefs
    <3>7. OneNotification /\ (Blocking' <=> Blocking)
      BY <1>1 DEF CountInv
    <3>8. OneNotification'
      BY <3>1, <3>4, <3>7 DEF OneNotification
    <3>9. RefCounted'
      BY <3>1, <3>2, <3>5, <3>6 DEF RefCounted
    <3> QED BY <3>8, <3>9
  <2> QED BY <2>3, <2>4
<1>38. ASSUME NEW w \in Wakers, Push(w) PROVE RefCounted' /\ OneNotification'
  <2>1. /\ Cardinality(Holding)' + One(wpc[w] # "none") = Cardinality(Holding) + One(wpc'[w] # "none")
        /\ Cardinality(Pushing)' + One(wpc[w] \in {"push_ref", "push_val"})
             = Cardinality(Pushing) + One(wpc'[w] \in {"push_ref", "push_val"})
        /\ Cardinality(Holding)' \in Nat /\ Cardinality(Pushing)' \in Nat
    BY <1>1, <1>38, WakerMoves, ZenonT(60) DEF Push
  <2> QED
    BY <1>1, <1>2, <1>3, <1>38, <2>1 DEF Push, PushRemote, DropReference, Install, CountInv,
       RunnerInv, JoinInv, HomeInv, PoolTaskInv
<1>39. ASSUME NEW w \in Wakers, DropWaker(w) PROVE RefCounted' /\ OneNotification'
  <2>1. /\ Cardinality(Holding)' + One(wpc[w] # "none") = Cardinality(Holding) + One(wpc'[w] # "none")
        /\ Cardinality(Pushing)' + One(wpc[w] \in {"push_ref", "push_val"})
             = Cardinality(Pushing) + One(wpc'[w] \in {"push_ref", "push_val"})
        /\ Cardinality(Holding)' \in Nat /\ Cardinality(Pushing)' \in Nat
    BY <1>1, <1>39, WakerMoves, ZenonT(60) DEF DropWaker
  <2> QED
    <3>1. /\ state'.refs = state.refs - 1 /\ state'.running = state.running
          /\ state'.complete = state.complete /\ state'.notified = state.notified
          /\ wpc[w] \in {"held", "drop"} /\ wpc'[w] = "none"
      BY SMTT(60), <1>1, <1>39 DEF DropWaker, DropReference, Install
    <3>2. ~freed /\ UNCHANGED <<local, remote, owned, opc, jpc>>
      BY <1>39, HolderKeepsAlive DEF DropWaker, Holding
    <3>3. freed' <=> state'.refs = 0
      BY <1>39, <3>2 DEF DropWaker, DropReference, Install
    <3> QED BY SMTT(60), <1>1, <1>2, <2>1, <3>1, <3>2, <3>3 DEF CountInv
<1>40. ASSUME NEW w \in Wakers, WakeLocally(w) PROVE RefCounted' /\ OneNotification'
  BY SMTT(60), <1>1, <1>2, <1>40, WakersSame DEF WakeLocally, NotifyByRef, Asked, CountInv, RunnerInv,
     JoinInv, HomeInv, PoolTaskInv
<1>41. ASSUME NEW jw \in JoinWakers, JoinPollStart(jw) PROVE RefCounted' /\ OneNotification'
  BY SMTT(60), <1>1, <1>2, <1>41, WakersSame DEF JoinPollStart, CountInv, RunnerInv, JoinInv, HomeInv,
     PoolTaskInv
<1> QED
  BY ZenonT(60), <1>4, <1>5, <1>6, <1>7, <1>8, <1>9, <1>10, <1>11, <1>12, <1>13, <1>14, <1>15, <1>16, <1>17,
     <1>18, <1>19, <1>20, <1>21, <1>22, <1>23, <1>24, <1>25, <1>26, <1>27, <1>28, <1>29, <1>30,
     <1>31, <1>32, <1>33, <1>34, <1>35, <1>36, <1>37, <1>38, <1>39, <1>40, <1>41 DEF Next,
     Scheduler, Poller, Finishing, Join, JoinSteps, Waker
-----------------------------------------------------------------------------
(* Flags and cells. *)

\* The step that releases the allocation leaves nobody behind.
LEMMA FreedMeansGone ==
    ASSUME TaskInv, Next
    PROVE  freed' => opc' \notin Polling /\ jpc' = "gone" /\ ~owned'
<1>1. TypeOK' /\ RefCounted'
  BY TypeStep, CountStep
<1>2. Cardinality(Holding)' \in Nat /\ Cardinality(Pushing)' \in Nat
  BY WakersFinitePrimed
<1> QED
  BY <1>1, <1>2 DEF RefCounted, HeldRefs, Tasks, One, TypeOK

CellsInv == RunnerInv /\ JoinInv /\ HomeInv /\ PoolTaskInv /\ JoinWakeInv /\ OutputInv

\* Every step keeps the parts about flags, cells, home and output.
LEMMA CellsStep == ASSUME TaskInv, Next PROVE CellsInv'
<1>1. TypeOK /\ OneNotification /\ CellsInv /\ (Blocking' <=> Blocking)
  BY PoolKept DEF TaskInv, CountInv, CellsInv
<1> USE DEF CellsInv, RunnerInv, JoinInv, HomeInv, PoolTaskInv, JoinWakeInv, OutputInv, TypeOK,
            Polling, JoinPoll, Snapshot, IsIdle, RefInc, RefDec, Result, Releasing, joiner, sched,
            cells
<1>2. freed' => opc' \notin Polling /\ jpc' = "gone" /\ ~owned'
  BY FreedMeansGone
<1>3. TypeOK'
  BY TypeStep
<1>4. CASE Tick
  <2>1. RunnerInv' /\ HomeInv' /\ PoolTaskInv'
    BY <1>1, <1>2, <1>3, <1>4 DEF Tick
  <2>2. JoinInv'
    BY <1>1, <1>2, <1>3, <1>4 DEF Tick
  <2>3. JoinWakeInv' /\ OutputInv'
    BY <1>1, <1>2, <1>3, <1>4 DEF Tick
  <2> HIDE DEF RunnerInv, JoinInv, HomeInv, PoolTaskInv, JoinWakeInv, OutputInv
  <2> QED BY <2>1, <2>2, <2>3
<1>5. CASE RunNext
  <2>1. CASE local + remote > 0
    <3>1. EnterPoll(local)
      BY <1>1, <1>5, <2>1 DEF RunNext
    <3>2. /\ state' = [state EXCEPT !.running = TRUE, !.notified = FALSE]
          /\ UNCHANGED <<freed, stage, jwaker>>
          /\ opc' = IF state.cancelled THEN "cancel" ELSE "polling"
      BY <2>1, <3>1, EnterPollIs
    <3>3. UNCHANGED <<owned, wpc, joiner, phase>> /\ opc = "loop"
      BY <1>1, <1>5, <2>1, <3>1 DEF RunNext, EnterPoll
    <3>4. IsIdle(state) /\ ~freed
      BY <1>5, <2>1, EntryIsIdle, HolderKeepsAlive
    <3> QED
      BY <1>1, <1>3, <3>2, <3>3, <3>4
  <2>2. local > 0 /\ local \in Nat /\ remote \in Nat
    BY <1>1, <1>5 DEF RunNext, EnterPoll
  <2>3. local + remote > 0
    BY <2>2
  <2> QED BY Zenon, <2>1, <2>3
<1>6. CASE BeginShutdown
  BY <1>1, <1>2, <1>3, <1>6 DEF BeginShutdown, ToCancelled
<1>7. CASE ShutdownStep
  <2>1. CASE local + remote > 0
    <3>1. EnterPoll(local + remote)
      <4>1. local + remote # 0
        BY <1>1, <2>1
      <4> QED BY <1>7, <4>1, Zenon DEF ShutdownStep
    <3>2. /\ state' = [state EXCEPT !.running = TRUE, !.notified = FALSE]
          /\ UNCHANGED <<freed, stage, jwaker>>
          /\ opc' = IF state.cancelled THEN "cancel" ELSE "polling"
      BY <2>1, <3>1, EnterPollIs
    <3>3. UNCHANGED <<owned, wpc, joiner, phase>> /\ opc = "loop"
      BY <1>1, <1>7, <2>1, <3>1 DEF ShutdownStep, EnterPoll
    <3>4. IsIdle(state) /\ ~freed
      BY <1>7, <2>1, EntryIsIdle, HolderKeepsAlive
    <3> QED
      BY <1>1, <1>3, <3>2, <3>3, <3>4
  <2>2. CASE ~(local + remote > 0)
    <3>1. phase' = "panicked" /\ UNCHANGED <<state, cells, freed, local, owned, opc, wpc, joiner, wake>>
      BY <1>7, <2>2, Zenon DEF ShutdownStep
    <3>2. RunnerInv' /\ HomeInv' /\ PoolTaskInv'
      BY SMTT(30), <1>1, <1>7, <3>1 DEF ShutdownStep
    <3>3. JoinInv' = JoinInv /\ JoinWakeInv' = JoinWakeInv /\ OutputInv' = OutputInv
      BY Zenon, <3>1
    <3>4. JoinInv' /\ JoinWakeInv' /\ OutputInv'
      <4> HIDE DEF RunnerInv, JoinInv, HomeInv, PoolTaskInv, JoinWakeInv, OutputInv
      <4> QED BY Zenon, <1>1, <3>3
    <3> HIDE DEF RunnerInv, JoinInv, HomeInv, PoolTaskInv, JoinWakeInv, OutputInv
    <3> QED BY <3>2, <3>4
  <2> QED BY <1>1, <1>7, <2>1, <2>2, ZenonT(60) DEF ShutdownStep, EnterPoll
<1>8. CASE CloseQueues
  <2>1. RunnerInv'
    BY <1>1, <1>2, <1>3, <1>8 DEF CloseQueues, Install
  <2>2. JoinInv'
    BY <1>1, <1>2, <1>3, <1>8 DEF CloseQueues, Install
  <2>3. HomeInv'
    BY <1>1, <1>2, <1>3, <1>8 DEF CloseQueues, Install, Blocking
  <2>4. PoolTaskInv'
    BY <1>1, <1>2, <1>3, <1>8 DEF CloseQueues, Install
  <2>5. JoinWakeInv'
    BY <1>1, <1>2, <1>3, <1>8 DEF CloseQueues, Install
  <2>6. OutputInv'
    BY <1>1, <1>2, <1>3, <1>8 DEF CloseQueues, Install
  <2> HIDE DEF RunnerInv, JoinInv, HomeInv, PoolTaskInv, JoinWakeInv, OutputInv
  <2> QED BY <2>1, <2>2, <2>3, <2>4, <2>5, <2>6
<1>9. CASE DiscardJob
  <2>1. RunnerInv'
    BY <1>1, <1>2, <1>3, <1>9 DEF DiscardJob, DropReference, Install
  <2>2. JoinInv'
    BY <1>1, <1>2, <1>3, <1>9 DEF DiscardJob, DropReference, Install
  <2>3. HomeInv'
    BY <1>1, <1>2, <1>3, <1>9 DEF DiscardJob, DropReference, Install
  <2>4. PoolTaskInv'
    BY <1>1, <1>2, <1>3, <1>9 DEF DiscardJob, DropReference, Install
  <2>5. JoinWakeInv'
    BY <1>1, <1>2, <1>3, <1>9 DEF DiscardJob, DropReference, Install
  <2>6. OutputInv'
    BY <1>1, <1>2, <1>3, <1>9 DEF DiscardJob, DropReference, Install
  <2> HIDE DEF RunnerInv, JoinInv, HomeInv, PoolTaskInv, JoinWakeInv, OutputInv
  <2> QED BY <2>1, <2>2, <2>3, <2>4, <2>5, <2>6
<1>10. CASE WakeSelf
  BY <1>1, <1>2, <1>3, <1>10 DEF WakeSelf, NotifyByRef, Asked
<1>11. CASE PollPending
  <2>1. RunnerInv'
    BY <1>1, <1>2, <1>3, <1>11 DEF PollPending, Install, ToIdle
  <2>2. JoinInv'
    BY <1>1, <1>2, <1>3, <1>11 DEF PollPending, Install, ToIdle
  <2>3. HomeInv'
    BY <1>1, <1>2, <1>3, <1>11 DEF PollPending, Install, ToIdle
  <2>4. PoolTaskInv'
    BY <1>1, <1>2, <1>3, <1>11 DEF PollPending, Install, ToIdle
  <2>5. JoinWakeInv'
    BY <1>1, <1>2, <1>3, <1>11 DEF PollPending, Install, ToIdle
  <2>6. OutputInv'
    BY <1>1, <1>2, <1>3, <1>11 DEF PollPending, Install, ToIdle
  <2> HIDE DEF RunnerInv, JoinInv, HomeInv, PoolTaskInv, JoinWakeInv, OutputInv
  <2> QED BY <2>1, <2>2, <2>3, <2>4, <2>5, <2>6
<1>12. CASE PollReady
  <2>1. RunnerInv' /\ HomeInv' /\ PoolTaskInv'
    BY <1>1, <1>2, <1>3, <1>12 DEF PollReady
  <2>2. JoinInv'
    BY <1>1, <1>2, <1>3, <1>12 DEF PollReady
  <2>3. JoinWakeInv' /\ OutputInv'
    BY <1>1, <1>2, <1>3, <1>12 DEF PollReady
  <2> HIDE DEF RunnerInv, JoinInv, HomeInv, PoolTaskInv, JoinWakeInv, OutputInv
  <2> QED BY <2>1, <2>2, <2>3
<1>13. CASE Yield
  <2>1. RunnerInv' /\ HomeInv' /\ PoolTaskInv'
    BY <1>1, <1>2, <1>3, <1>13 DEF Yield
  <2>2. JoinInv'
    BY <1>1, <1>2, <1>3, <1>13 DEF Yield
  <2>3. JoinWakeInv' /\ OutputInv'
    BY <1>1, <1>2, <1>3, <1>13 DEF Yield
  <2> HIDE DEF RunnerInv, JoinInv, HomeInv, PoolTaskInv, JoinWakeInv, OutputInv
  <2> QED BY <2>1, <2>2, <2>3
<1>14. CASE CancelTask
  <2>1. RunnerInv' /\ HomeInv' /\ PoolTaskInv'
    BY <1>1, <1>2, <1>3, <1>14 DEF CancelTask
  <2>2. JoinInv'
    BY <1>1, <1>2, <1>3, <1>14 DEF CancelTask
  <2>3. JoinWakeInv' /\ OutputInv'
    BY <1>1, <1>2, <1>3, <1>14 DEF CancelTask
  <2> HIDE DEF RunnerInv, JoinInv, HomeInv, PoolTaskInv, JoinWakeInv, OutputInv
  <2> QED BY <2>1, <2>2, <2>3
<1>15. CASE Complete
  BY <1>1, <1>2, <1>3, <1>15 DEF Complete, ToComplete
<1>16. CASE DropOutput
  <2>1. RunnerInv' /\ HomeInv' /\ PoolTaskInv'
    BY <1>1, <1>2, <1>3, <1>16 DEF DropOutput
  <2>2. JoinInv'
    BY <1>1, <1>2, <1>3, <1>16 DEF DropOutput
  <2>3. JoinWakeInv' /\ OutputInv'
    BY <1>1, <1>2, <1>3, <1>16 DEF DropOutput
  <2> HIDE DEF RunnerInv, JoinInv, HomeInv, PoolTaskInv, JoinWakeInv, OutputInv
  <2> QED BY <2>1, <2>2, <2>3
<1>17. CASE WakeJoin
  <2>1. RunnerInv' /\ HomeInv' /\ PoolTaskInv'
    BY <1>1, <1>2, <1>3, <1>17 DEF WakeJoin
  <2>2. JoinInv'
    BY <1>1, <1>2, <1>3, <1>17 DEF WakeJoin
  <2>3. JoinWakeInv' /\ OutputInv'
    BY <1>1, <1>2, <1>3, <1>17 DEF WakeJoin
  <2> HIDE DEF RunnerInv, JoinInv, HomeInv, PoolTaskInv, JoinWakeInv, OutputInv
  <2> QED BY <2>1, <2>2, <2>3
<1>18. CASE UnsetJoinWaker
  BY <1>1, <1>2, <1>3, <1>18 DEF UnsetJoinWaker, UnsetWaker
<1>19. CASE DropJoinWaker
  <2>1. RunnerInv' /\ HomeInv' /\ PoolTaskInv'
    BY <1>1, <1>2, <1>3, <1>19 DEF DropJoinWaker
  <2>2. JoinInv'
    BY <1>1, <1>2, <1>3, <1>19 DEF DropJoinWaker
  <2>3. JoinWakeInv' /\ OutputInv'
    BY <1>1, <1>2, <1>3, <1>19 DEF DropJoinWaker
  <2> HIDE DEF RunnerInv, JoinInv, HomeInv, PoolTaskInv, JoinWakeInv, OutputInv
  <2> QED BY <2>1, <2>2, <2>3
<1>20. CASE DropPollerRef
  <2>1. RunnerInv'
    BY <1>1, <1>2, <1>3, <1>20 DEF DropPollerRef, DropReference, Install
  <2>2. JoinInv'
    BY <1>1, <1>2, <1>3, <1>20 DEF DropPollerRef, DropReference, Install
  <2>3. HomeInv'
    BY <1>1, <1>2, <1>3, <1>20 DEF DropPollerRef, DropReference, Install
  <2>4. PoolTaskInv'
    BY <1>1, <1>2, <1>3, <1>20 DEF DropPollerRef, DropReference, Install
  <2>5. JoinWakeInv'
    BY <1>1, <1>2, <1>3, <1>20 DEF DropPollerRef, DropReference, Install
  <2>6. OutputInv'
    BY <1>1, <1>2, <1>3, <1>20 DEF DropPollerRef, DropReference, Install
  <2> HIDE DEF RunnerInv, JoinInv, HomeInv, PoolTaskInv, JoinWakeInv, OutputInv
  <2> QED BY <2>1, <2>2, <2>3, <2>4, <2>5, <2>6
<1>21. CASE AfterRun
  <2>1. RunnerInv'
    BY <1>1, <1>2, <1>3, <1>21 DEF AfterRun, DropReference, Install
  <2>2. JoinInv'
    BY <1>1, <1>2, <1>3, <1>21 DEF AfterRun, DropReference, Install
  <2>3. HomeInv'
    BY <1>1, <1>2, <1>3, <1>21 DEF AfterRun, DropReference, Install
  <2>4. PoolTaskInv'
    BY <1>1, <1>2, <1>3, <1>21 DEF AfterRun, DropReference, Install
  <2>5. JoinWakeInv'
    BY <1>1, <1>2, <1>3, <1>21 DEF AfterRun, DropReference, Install
  <2>6. OutputInv'
    BY <1>1, <1>2, <1>3, <1>21 DEF AfterRun, DropReference, Install
  <2> HIDE DEF RunnerInv, JoinInv, HomeInv, PoolTaskInv, JoinWakeInv, OutputInv
  <2> QED BY <2>1, <2>2, <2>3, <2>4, <2>5, <2>6
<1>22. CASE JoinCompare
  <2>1. RunnerInv' /\ HomeInv' /\ PoolTaskInv'
    BY <1>1, <1>2, <1>3, <1>22 DEF JoinCompare, JoinPending
  <2>2. JoinInv'
    BY <1>1, <1>2, <1>3, <1>22 DEF JoinCompare, JoinPending
  <2>3. JoinWakeInv' /\ OutputInv'
    BY <1>1, <1>2, <1>3, <1>22 DEF JoinCompare, JoinPending
  <2> HIDE DEF RunnerInv, JoinInv, HomeInv, PoolTaskInv, JoinWakeInv, OutputInv
  <2> QED BY <2>1, <2>2, <2>3
<1>23. CASE JoinUnset
  BY <1>1, <1>2, <1>3, <1>23 DEF JoinUnset, UnsetWaker
<1>24. CASE JoinWrite
  <2>1. RunnerInv' /\ HomeInv' /\ PoolTaskInv'
    BY <1>1, <1>2, <1>3, <1>24 DEF JoinWrite
  <2>2. JoinInv'
    BY <1>1, <1>2, <1>3, <1>24 DEF JoinWrite
  <2>3. JoinWakeInv' /\ OutputInv'
    BY <1>1, <1>2, <1>3, <1>24 DEF JoinWrite
  <2> HIDE DEF RunnerInv, JoinInv, HomeInv, PoolTaskInv, JoinWakeInv, OutputInv
  <2> QED BY <2>1, <2>2, <2>3
<1>25. CASE JoinSet
  <2>1. RunnerInv'
    BY <1>1, <1>2, <1>3, <1>25 DEF JoinSet, JoinPending, SetJoinWaker
  <2>2. JoinInv'
    BY <1>1, <1>2, <1>3, <1>25 DEF JoinSet, JoinPending, SetJoinWaker
  <2>3. HomeInv'
    BY <1>1, <1>2, <1>3, <1>25 DEF JoinSet, JoinPending, SetJoinWaker
  <2>4. PoolTaskInv'
    BY <1>1, <1>2, <1>3, <1>25 DEF JoinSet, JoinPending, SetJoinWaker
  <2>5. JoinWakeInv'
    BY <1>1, <1>2, <1>3, <1>25 DEF JoinSet, JoinPending, SetJoinWaker
  <2>6. OutputInv'
    BY <1>1, <1>2, <1>3, <1>25 DEF JoinSet, JoinPending, SetJoinWaker
  <2> HIDE DEF RunnerInv, JoinInv, HomeInv, PoolTaskInv, JoinWakeInv, OutputInv
  <2> QED BY <2>1, <2>2, <2>3, <2>4, <2>5, <2>6
<1>26. CASE JoinClear
  <2>1. RunnerInv' /\ HomeInv' /\ PoolTaskInv'
    BY <1>1, <1>2, <1>3, <1>26 DEF JoinClear
  <2>2. JoinInv'
    BY <1>1, <1>2, <1>3, <1>26 DEF JoinClear
  <2>3. JoinWakeInv' /\ OutputInv'
    BY <1>1, <1>2, <1>3, <1>26 DEF JoinClear
  <2> HIDE DEF RunnerInv, JoinInv, HomeInv, PoolTaskInv, JoinWakeInv, OutputInv
  <2> QED BY <2>1, <2>2, <2>3
<1>27. CASE JoinTake
  <2>1. RunnerInv' /\ HomeInv' /\ PoolTaskInv'
    BY <1>1, <1>2, <1>3, <1>27 DEF JoinTake
  <2>2. JoinInv'
    BY <1>1, <1>2, <1>3, <1>27 DEF JoinTake
  <2>3. JoinWakeInv' /\ OutputInv'
    BY <1>1, <1>2, <1>3, <1>27 DEF JoinTake
  <2> HIDE DEF RunnerInv, JoinInv, HomeInv, PoolTaskInv, JoinWakeInv, OutputInv
  <2> QED BY <2>1, <2>2, <2>3
<1>28. CASE JoinPush
  <2>1. RunnerInv'
    BY <1>1, <1>2, <1>3, <1>28 DEF JoinPush, PushRemote, DropReference, Install
  <2>2. JoinInv'
    BY <1>1, <1>2, <1>3, <1>28 DEF JoinPush, PushRemote, DropReference, Install
  <2>3. HomeInv'
    BY <1>1, <1>2, <1>3, <1>28 DEF JoinPush, PushRemote, DropReference, Install
  <2>4. PoolTaskInv'
    BY <1>1, <1>2, <1>3, <1>28 DEF JoinPush, PushRemote, DropReference, Install
  <2>5. JoinWakeInv'
    BY <1>1, <1>2, <1>3, <1>28 DEF JoinPush, PushRemote, DropReference, Install
  <2>6. OutputInv'
    BY <1>1, <1>2, <1>3, <1>28 DEF JoinPush, PushRemote, DropReference, Install
  <2> HIDE DEF RunnerInv, JoinInv, HomeInv, PoolTaskInv, JoinWakeInv, OutputInv
  <2> QED BY <2>1, <2>2, <2>3, <2>4, <2>5, <2>6
<1>29. CASE JoinAbort
  BY <1>1, <1>2, <1>3, <1>29 DEF JoinAbort, ToCancelled
<1>30. CASE JoinDropFast
  BY <1>1, <1>2, <1>3, <1>30 DEF JoinDropFast, JoinHandleDroppedFast, InitialState
<1>31. CASE JoinDropSlow
  <2>1. RunnerInv'
    BY <1>1, <1>2, <1>3, <1>31, ZenonT(60) DEF JoinDropSlow, JoinHandleDropped
  <2>2. JoinInv'
    BY <1>1, <1>2, <1>3, <1>31, ZenonT(60) DEF JoinDropSlow, JoinHandleDropped
  <2>3. HomeInv'
    BY <1>1, <1>2, <1>3, <1>31, ZenonT(60) DEF JoinDropSlow, JoinHandleDropped
  <2>4. PoolTaskInv'
    BY <1>1, <1>2, <1>3, <1>31, ZenonT(60) DEF JoinDropSlow, JoinHandleDropped
  <2>5. JoinWakeInv'
    BY <1>1, <1>2, <1>3, <1>31 DEF JoinDropSlow, JoinHandleDropped
  <2>6. OutputInv'
    BY <1>1, <1>2, <1>3, <1>31, ZenonT(60) DEF JoinDropSlow, JoinHandleDropped
  <2> HIDE DEF RunnerInv, JoinInv, HomeInv, PoolTaskInv, JoinWakeInv, OutputInv
  <2> QED BY <2>1, <2>2, <2>3, <2>4, <2>5, <2>6
<1>32. CASE JoinDropOutput
  <2>1. RunnerInv' /\ HomeInv' /\ PoolTaskInv'
    BY <1>1, <1>2, <1>3, <1>32 DEF JoinDropOutput
  <2>2. JoinInv'
    BY <1>1, <1>2, <1>3, <1>32 DEF JoinDropOutput
  <2>3. JoinWakeInv' /\ OutputInv'
    BY <1>1, <1>2, <1>3, <1>32 DEF JoinDropOutput
  <2> HIDE DEF RunnerInv, JoinInv, HomeInv, PoolTaskInv, JoinWakeInv, OutputInv
  <2> QED BY <2>1, <2>2, <2>3
<1>33. CASE JoinDropWaker
  <2>1. RunnerInv' /\ HomeInv' /\ PoolTaskInv'
    BY <1>1, <1>2, <1>3, <1>33 DEF JoinDropWaker
  <2>2. JoinInv'
    BY <1>1, <1>2, <1>3, <1>33 DEF JoinDropWaker
  <2>3. JoinWakeInv' /\ OutputInv'
    BY <1>1, <1>2, <1>3, <1>33 DEF JoinDropWaker
  <2> HIDE DEF RunnerInv, JoinInv, HomeInv, PoolTaskInv, JoinWakeInv, OutputInv
  <2> QED BY <2>1, <2>2, <2>3
<1>34. CASE JoinDropRef
  <2>1. RunnerInv'
    BY <1>1, <1>2, <1>3, <1>34 DEF JoinDropRef, DropReference, Install
  <2>2. JoinInv'
    BY <1>1, <1>2, <1>3, <1>34 DEF JoinDropRef, DropReference, Install
  <2>3. HomeInv'
    BY <1>1, <1>2, <1>3, <1>34 DEF JoinDropRef, DropReference, Install
  <2>4. PoolTaskInv'
    BY <1>1, <1>2, <1>3, <1>34 DEF JoinDropRef, DropReference, Install
  <2>5. JoinWakeInv'
    BY <1>1, <1>2, <1>3, <1>34 DEF JoinDropRef, DropReference, Install
  <2>6. OutputInv'
    BY <1>1, <1>2, <1>3, <1>34 DEF JoinDropRef, DropReference, Install
  <2> HIDE DEF RunnerInv, JoinInv, HomeInv, PoolTaskInv, JoinWakeInv, OutputInv
  <2> QED BY <2>1, <2>2, <2>3, <2>4, <2>5, <2>6
<1>35. ASSUME NEW w \in Wakers, CloneWaker(w) PROVE CellsInv'
  BY <1>1, <1>2, <1>3, <1>35 DEF CloneWaker
<1>36. ASSUME NEW w \in Wakers, WakeByRef(w) PROVE CellsInv'
  BY <1>1, <1>2, <1>3, <1>36 DEF WakeByRef, NotifyByRef, Asked
<1>37. ASSUME NEW w \in Wakers, WakeByVal(w) PROVE CellsInv'
  <2>1. RunnerInv'
    BY SMTT(60), <1>1, <1>2, <1>3, <1>37 DEF WakeByVal, Install, NotifyByVal, Asked
  <2>2. JoinInv'
    BY SMTT(60), <1>1, <1>2, <1>3, <1>37 DEF WakeByVal, Install, NotifyByVal, Asked
  <2>3. HomeInv'
    BY SMTT(60), <1>1, <1>2, <1>3, <1>37 DEF WakeByVal, Install, NotifyByVal, Asked
  <2>4. PoolTaskInv'
    BY SMTT(60), <1>1, <1>2, <1>3, <1>37 DEF WakeByVal, Install, NotifyByVal, Asked
  <2>5. JoinWakeInv'
    BY <1>1, <1>2, <1>3, <1>37 DEF WakeByVal, Install, NotifyByVal, Asked
  <2>6. OutputInv'
    BY <1>1, <1>2, <1>3, <1>37 DEF WakeByVal, Install, NotifyByVal, Asked
  <2> HIDE DEF RunnerInv, JoinInv, HomeInv, PoolTaskInv, JoinWakeInv, OutputInv
  <2> QED BY <2>1, <2>2, <2>3, <2>4, <2>5, <2>6
<1>38. ASSUME NEW w \in Wakers, Push(w) PROVE CellsInv'
  <2>1. RunnerInv'
    BY <1>1, <1>2, <1>3, <1>38 DEF Push, PushRemote, DropReference, Install
  <2>2. JoinInv'
    BY <1>1, <1>2, <1>3, <1>38 DEF Push, PushRemote, DropReference, Install
  <2>3. HomeInv'
    BY <1>1, <1>2, <1>3, <1>38 DEF Push, PushRemote, DropReference, Install
  <2>4. PoolTaskInv'
    BY <1>1, <1>2, <1>3, <1>38 DEF Push, PushRemote, DropReference, Install
  <2>5. JoinWakeInv'
    BY <1>1, <1>2, <1>3, <1>38 DEF Push, PushRemote, DropReference, Install
  <2>6. OutputInv'
    BY <1>1, <1>2, <1>3, <1>38 DEF Push, PushRemote, DropReference, Install
  <2> HIDE DEF RunnerInv, JoinInv, HomeInv, PoolTaskInv, JoinWakeInv, OutputInv
  <2> QED BY <2>1, <2>2, <2>3, <2>4, <2>5, <2>6
<1>39. ASSUME NEW w \in Wakers, DropWaker(w) PROVE CellsInv'
  <2>1. RunnerInv'
    BY <1>1, <1>2, <1>3, <1>39 DEF DropWaker, DropReference, Install
  <2>2. JoinInv'
    BY <1>1, <1>2, <1>3, <1>39 DEF DropWaker, DropReference, Install
  <2>3. HomeInv'
    BY <1>1, <1>2, <1>3, <1>39 DEF DropWaker, DropReference, Install
  <2>4. PoolTaskInv'
    BY <1>1, <1>2, <1>3, <1>39 DEF DropWaker, DropReference, Install
  <2>5. JoinWakeInv'
    BY <1>1, <1>2, <1>3, <1>39 DEF DropWaker, DropReference, Install
  <2>6. OutputInv'
    BY <1>1, <1>2, <1>3, <1>39 DEF DropWaker, DropReference, Install
  <2> HIDE DEF RunnerInv, JoinInv, HomeInv, PoolTaskInv, JoinWakeInv, OutputInv
  <2> QED BY <2>1, <2>2, <2>3, <2>4, <2>5, <2>6
<1>40. ASSUME NEW w \in Wakers, WakeLocally(w) PROVE CellsInv'
  BY <1>1, <1>2, <1>3, <1>40 DEF WakeLocally, NotifyByRef, Asked
<1>41. ASSUME NEW jw \in JoinWakers, JoinPollStart(jw) PROVE CellsInv'
  <2>1. RunnerInv' /\ HomeInv' /\ PoolTaskInv'
    BY TaskAssumption, <1>1, <1>41 DEF JoinPollStart
  <2>2. JoinInv'
    BY TaskAssumption, <1>1, <1>41 DEF JoinPollStart
  <2>3. JoinWakeInv' /\ OutputInv'
    BY TaskAssumption, <1>1, <1>41 DEF JoinPollStart
  <2> HIDE DEF RunnerInv, JoinInv, HomeInv, PoolTaskInv, JoinWakeInv, OutputInv
  <2> QED BY <2>1, <2>2, <2>3
<1> QED
  BY ZenonT(60), <1>4, <1>5, <1>6, <1>7, <1>8, <1>9, <1>10, <1>11, <1>12, <1>13, <1>14, <1>15, <1>16, <1>17,
     <1>18, <1>19, <1>20, <1>21, <1>22, <1>23, <1>24, <1>25, <1>26, <1>27, <1>28, <1>29, <1>30,
     <1>31, <1>32, <1>33, <1>34, <1>35, <1>36, <1>37, <1>38, <1>39, <1>40, <1>41 DEF Next,
     Scheduler, Poller, Finishing, Join, JoinSteps, Waker

-----------------------------------------------------------------------------
(* The theorems. *)

\* The invariant holds of a new task.
LEMMA InitTaskInv == Init => TaskInv
<1> SUFFICES ASSUME Init PROVE TaskInv
  OBVIOUS
<1>1. TypeOK
  <2>1. InitialState \in Snapshot /\ RefInc(InitialState) \in Snapshot
    <3>1. InitialState \in Snapshot
      BY DEF InitialState, Snapshot
    <3>2. \A t \in Snapshot : RefInc(t) \in Snapshot
      BY DEF Snapshot, RefInc
    <3> QED BY <3>1, <3>2
  <2>2. owned \in BOOLEAN /\ freed \in BOOLEAN /\ wake \in BOOLEAN /\ jpending \in BOOLEAN
        /\ jwoken \in BOOLEAN /\ jdrop \in BOOLEAN
    BY TaskAssumption, Zenon DEF Init
  <2> QED BY <2>1, <2>2 DEF Init, TypeOK
<1>2. Cardinality(Holding) = 0 /\ Cardinality(Pushing) = 0
  BY WakersFinite DEF Init
<1>3. /\ state.refs = IF Blocking THEN 2 ELSE 3
      /\ state.notified /\ state.join_interest /\ ~state.join_waker /\ IsIdle(state)
  BY DEF Init, InitialState, RefInc, IsIdle
<1>4. CountInv
  <2>1. (owned <=> ~Blocking) /\ ~freed
    BY Zenon, TaskAssumption DEF Init
  <2>2. Tasks = 1
    BY <1>2 DEF Init, Tasks, One
  <2>3. HeldRefs = IF Blocking THEN 2 ELSE 3
    BY <1>2, <2>1, <2>2 DEF Init, HeldRefs, One, Polling
  <2> QED
    BY <1>3, <2>1, <2>2, <2>3 DEF CountInv, RefCounted, OneNotification
<1> QED
  BY <1>1, <1>3, <1>4, ZenonT(60) DEF Init, TaskInv, RunnerInv, JoinInv, HomeInv, PoolTaskInv, JoinWakeInv,
     OutputInv, IsIdle, JoinPoll

\* The inductive invariant of a task, for any number of wakers.
THEOREM TaskInvariance == Spec => []TaskInv
<1>1. TaskInv /\ [Next]_vars => TaskInv'
  <2> SUFFICES ASSUME TaskInv, [Next]_vars PROVE TaskInv'
    OBVIOUS
  <2>1. CASE Next
    BY <2>1, TypeStep, CountStep, CellsStep DEF TaskInv, CountInv, CellsInv
  <2>2. CASE UNCHANGED vars
    <3>1. Holding' = Holding /\ Pushing' = Pushing
      BY <2>2 DEF vars, Holding, Pushing
    <3>2. TypeOK'
      BY <2>2 DEF vars, cells, sched, joiner, TaskInv, TypeOK
    <3>3. CountInv'
      BY <2>2, <3>1 DEF vars, cells, sched, joiner, TaskInv, CountInv, RefCounted, OneNotification,
         HeldRefs, Tasks, Blocking, IsIdle
    <3>4. RunnerInv' /\ JoinInv'
      BY SMTT(60), <2>2 DEF vars, cells, sched, joiner, TaskInv, RunnerInv, JoinInv, IsIdle
    <3>5. HomeInv' /\ PoolTaskInv'
      BY <2>2 DEF vars, cells, sched, joiner, TaskInv, HomeInv, PoolTaskInv, Blocking, IsIdle
    <3>6. JoinWakeInv' /\ OutputInv'
      BY <2>2 DEF vars, cells, sched, joiner, TaskInv, JoinWakeInv, OutputInv
    <3> QED
      BY <3>2, <3>3, <3>4, <3>5, <3>6 DEF TaskInv
  <2> QED BY <2>1, <2>2
<1> QED
  BY <1>1, InitTaskInv, PTL DEF Spec

\* The reference count always equals the references held, and the allocation is
\* released exactly with the last one (State::ref_inc, ref_dec, vtable::dealloc).
THEOREM ReferencesExact == Spec => []RefCounted
<1>1. TaskInv => RefCounted
  BY DEF TaskInv, CountInv
<1> QED BY <1>1, TaskInvariance, PTL

\* A task is queued, or about to be, exactly while it is idle and NOTIFIED, and only
\* once (the notification transitions of state.rs).
THEOREM NotifiedOnce == Spec => []OneNotification
<1>1. TaskInv => OneNotification
  BY DEF TaskInv, CountInv
<1> QED BY <1>1, TaskInvariance, PTL

\* The polling thread and the JoinHandle never access the stage cell or the
\* join-waker cell at once (the UnsafeCell accesses of vtable.rs).
THEOREM CellsExclusive == Spec => []NoCellRace
<1>1. TaskInv => NoCellRace
  BY DEF TaskInv, RunnerInv, JoinInv, NoCellRace, JoinPoll
<1> QED BY <1>1, TaskInvariance, PTL

\* No assertion of the state machine fails (state.rs, vtable.rs, trailer.rs).
THEOREM NoAssertionFails == Spec => []AssertionsHold
<1>1. TaskInv => AssertionsHold
  <2> SUFFICES ASSUME TaskInv PROVE AssertionsHold
    OBVIOUS
  <2>1. local + remote > 0 => state.notified
    BY EntryIsIdle
  <2> QED
    BY <2>1 DEF TaskInv, RunnerInv, JoinInv, AssertionsHold, JoinPoll
<1> QED BY <1>1, TaskInvariance, PTL

\* The completion of a task wakes the waker a pending JoinHandle waits for
\* (can_read_output against complete).
THEOREM JoinWakeKept == Spec => []NoLostJoinWake
<1>1. TaskInv => NoLostJoinWake
  BY DEF TaskInv, JoinWakeInv, NoLostJoinWake
<1> QED BY <1>1, TaskInvariance, PTL

\* A task that its scheduler and its JoinHandle have let go holds neither future nor
\* output, and a closed scheduler has no task under way (OwnedTask, shutdown).
THEOREM DiesAtHome == Spec => [](FutureStaysHome /\ NothingRejected)
<1>1. TaskInv => FutureStaysHome /\ NothingRejected
  <2> SUFFICES ASSUME TaskInv PROVE FutureStaysHome /\ NothingRejected
    OBVIOUS
  <2>1. FutureStaysHome
    BY DEF TaskInv, HomeInv, JoinInv, JoinPoll, FutureStaysHome
  <2>2. Tasks \in Nat
    BY WakersFinite DEF TaskInv, TypeOK, Tasks, One
  <2>3. NothingRejected
    BY <2>2 DEF TaskInv, CountInv, OneNotification, IsIdle, HomeInv, NothingRejected
  <2> QED BY <2>1, <2>3
<1> QED BY <1>1, TaskInvariance, PTL

\* A JoinHandle that sees the task complete finds its output, provided that no
\* destructor of a future panics (cancel_task, take_output).
THEOREM OutputKept == ~PanickyDrop => (Spec => []OutputThere)
<1> SUFFICES ASSUME ~PanickyDrop PROVE Spec => []OutputThere
  OBVIOUS
<1>1. TaskInv => OutputThere
  BY DEF TaskInv, OutputInv, JoinInv, JoinPoll, OutputThere
<1> QED BY <1>1, TaskInvariance, PTL

\* A pool task is never handed to BlockingSchedule::schedule.
THEOREM PoolTaskRunsOnce == Spec => []NeverRescheduled
<1>1. TaskInv => NeverRescheduled
  BY DEF TaskInv, PoolTaskInv, NeverRescheduled, Pushing
<1> QED BY <1>1, TaskInvariance, PTL
=============================================================================
