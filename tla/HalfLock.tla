------------------------------ MODULE HalfLock ------------------------------
(***************************************************************************)
(* signal/half_lock.rs: the registry of signal listeners is read from      *)
(* signal handlers without locking and replaced by writers that hold a     *)
(* mutex.  A reader increments the counter of the slot that the generation *)
(* selects and then loads the pointer; a writer swaps the pointer, waits   *)
(* until it has seen each slot's counter at zero at least once, and frees  *)
(* the old allocation.                                                     *)
(*                                                                         *)
(* Every load, fetch_add and swap is one step: all are SeqCst.  The usize  *)
(* generation is only used modulo 2, and 2^w is even, so its parity is the *)
(* state.  The MAX_GUARDS abort needs 2^63 simultaneous readers and is     *)
(* left out.                                                               *)
(***************************************************************************)
EXTENDS Naturals, FiniteSets

CONSTANTS Readers,      \* signal handlers that may run at the same time
          Writers,      \* threads in register() and unregister()
          None,         \* nobody holds write_mutex
          MaxStores     \* bound: allocations stored after the initial one

ASSUME HalfLockAssumption ==
    /\ IsFiniteSet(Readers)
    /\ None \notin Writers
    /\ MaxStores \in Nat

VARIABLES data,         \* HalfLock::data: the published allocation
          generation,   \* HalfLock::generation, modulo 2
          lock,         \* HalfLock::lock: readers counted per slot
          mutex,        \* holder of HalfLock::write_mutex
          allocated,    \* number of Box::into_raw so far; names the next one
          freed,        \* allocations given back by Box::from_raw
          rpc, rslot, rdata,    \* each reader: step, lock slot, loaded pointer
          wpc, old, seen        \* the mutex holder: step, old pointer, seen_zero

readerVars == <<rpc, rslot, rdata>>
writerVars == <<wpc, old, seen, mutex>>
vars == <<data, generation, lock, allocated, freed, readerVars, writerVars>>

Slots == {0, 1}
Ptrs == 0..MaxStores

\* The steps of the mutex holder at which the old pointer is unpublished but
\* not yet freed.
Barrier == {"check0", "check1", "bump", "spin0", "spin1", "free"}

\* Every variable stays in its domain; the guard counts of the two slots, which
\* Drop for ReadGuard decrements unchecked, stay natural numbers.
TypeOK ==
    /\ data \in Ptrs
    /\ generation \in Slots
    /\ lock \in [Slots -> Nat]
    /\ mutex \in Writers \cup {None}
    /\ allocated \in 1..MaxStores + 1
    /\ freed \in SUBSET Ptrs
    /\ rpc \in [Readers -> {"idle", "selected", "locked", "reading"}]
    /\ rslot \in [Readers -> Slots]
    /\ rdata \in [Readers -> Ptrs]
    /\ wpc \in {"idle", "owned"} \cup Barrier
    /\ old \in Ptrs
    /\ seen \in [Slots -> BOOLEAN]

\* HalfLock::new
Init ==
    /\ data = 0
    /\ generation = 0
    /\ lock = [s \in Slots |-> 0]
    /\ mutex = None
    /\ allocated = 1
    /\ freed = {}
    /\ rpc = [r \in Readers |-> "idle"]
    /\ rslot = [r \in Readers |-> 0]
    /\ rdata = [r \in Readers |-> 0]
    /\ wpc = "idle"
    /\ old = 0
    /\ seen = [s \in Slots |-> FALSE]

-----------------------------------------------------------------------------
\* read(): the generation load that selects the slot.
SelectSlot(r) ==
    /\ rpc[r] = "idle"
    /\ rpc' = [rpc EXCEPT ![r] = "selected"]
    /\ rslot' = [rslot EXCEPT ![r] = generation]
    /\ UNCHANGED <<data, generation, lock, allocated, freed, rdata, writerVars>>

\* read(): lock.fetch_add(1)
LockSlot(r) ==
    /\ rpc[r] = "selected"
    /\ rpc' = [rpc EXCEPT ![r] = "locked"]
    /\ lock' = [lock EXCEPT ![rslot[r]] = @ + 1]
    /\ UNCHANGED <<data, generation, allocated, freed, rslot, rdata, writerVars>>

\* read(): data.load, and the reference made from it.
LoadData(r) ==
    /\ rpc[r] = "locked"
    /\ rpc' = [rpc EXCEPT ![r] = "reading"]
    /\ rdata' = [rdata EXCEPT ![r] = data]
    /\ UNCHANGED <<data, generation, lock, allocated, freed, rslot, writerVars>>

\* Fault: the guard releases the slot the generation selects now.
DropReadGuardOfGeneration(r) ==
    /\ rpc[r] = "reading"
    /\ rpc' = [rpc EXCEPT ![r] = "idle"]
    /\ lock' = [lock EXCEPT ![generation] = @ - 1]
    /\ UNCHANGED <<data, generation, allocated, freed, rslot, rdata, writerVars>>

\* Drop for ReadGuard
DropReadGuard(r) ==
    /\ rpc[r] = "reading"
    /\ rpc' = [rpc EXCEPT ![r] = "idle"]
    /\ lock' = [lock EXCEPT ![rslot[r]] = @ - 1]
    /\ UNCHANGED <<data, generation, allocated, freed, rslot, rdata, writerVars>>

-----------------------------------------------------------------------------
\* write(): the guard serialises the writers.
Write(w) ==
    /\ mutex = None
    /\ mutex' = w
    /\ wpc' = "owned"
    /\ UNCHANGED <<data, generation, lock, allocated, freed, readerVars, old, seen>>

\* store(): Box::into_raw and the swap that publishes it.
Swap(w) ==
    /\ mutex = w /\ wpc = "owned"
    /\ allocated <= MaxStores
    /\ data' = allocated
    /\ old' = data
    /\ allocated' = allocated + 1
    /\ seen' = [s \in Slots |-> FALSE]
    /\ wpc' = "check0"
    /\ UNCHANGED <<generation, lock, freed, readerVars, mutex>>

\* register() returns early when install_handler fails: the guard is dropped
\* without a store.
DropWriteGuard(w) ==
    /\ mutex = w /\ wpc = "owned"
    /\ mutex' = None
    /\ wpc' = "idle"
    /\ UNCHANGED <<data, generation, lock, allocated, freed, readerVars, old, seen>>

\* update_seen(): one slot's load, *seen = *seen || load == 0.
Observe(s) == seen' = [seen EXCEPT ![s] = @ \/ lock[s] = 0]

\* write_barrier(): the update_seen before the generation is switched.
CheckSlot(w, s) ==
    /\ mutex = w /\ wpc = (IF s = 0 THEN "check0" ELSE "check1")
    /\ Observe(s)
    /\ wpc' = (IF s = 0 THEN "check1" ELSE "bump")
    /\ UNCHANGED <<data, generation, lock, allocated, freed, readerVars, old, mutex>>

\* Fault: one empty slot is taken for both.
AfterSpinAny(sn) == IF sn[0] \/ sn[1] THEN "free" ELSE "spin0"

\* What the spinning loop does next: all seen, leave it; otherwise look again.
AfterSpin(sn) == IF sn[0] /\ sn[1] THEN "free" ELSE "spin0"

\* write_barrier(): generation.fetch_add(1), then the loop condition.
BumpGeneration(w) ==
    /\ mutex = w /\ wpc = "bump"
    /\ generation' = 1 - generation
    /\ wpc' = AfterSpin(seen)
    /\ UNCHANGED <<data, lock, allocated, freed, readerVars, old, seen, mutex>>

\* write_barrier(): the update_seen of the spinning loop.
SpinSlot(w, s) ==
    /\ mutex = w /\ wpc = (IF s = 0 THEN "spin0" ELSE "spin1")
    /\ Observe(s)
    /\ wpc' = (IF s = 0 THEN "spin1" ELSE AfterSpin(seen'))
    /\ UNCHANGED <<data, generation, lock, allocated, freed, readerVars, old, mutex>>

\* store(): drop(Box::from_raw(old)); then the guard is dropped.
FreeOld(w) ==
    /\ mutex = w /\ wpc = "free"
    /\ freed' = freed \cup {old}
    /\ mutex' = None
    /\ wpc' = "idle"
    /\ UNCHANGED <<data, generation, lock, allocated, readerVars, old, seen>>

-----------------------------------------------------------------------------
Reader(r) == SelectSlot(r) \/ LockSlot(r) \/ LoadData(r) \/ DropReadGuard(r)

Writer(w) ==
    \/ Write(w) \/ Swap(w) \/ DropWriteGuard(w) \/ BumpGeneration(w) \/ FreeOld(w)
    \/ \E s \in Slots : CheckSlot(w, s) \/ SpinSlot(w, s)

Next == (\E r \in Readers : Reader(r)) \/ (\E w \in Writers : Writer(w))

Spec == Init /\ [][Next]_vars

\* A running signal handler returns, and a thread inside the write barrier
\* keeps being scheduled; nothing obliges anyone to start a read or a write.
Fairness ==
    /\ \A r \in Readers : WF_vars(LockSlot(r) \/ LoadData(r) \/ DropReadGuard(r))
    /\ \A w \in Writers :
         WF_vars(\/ BumpGeneration(w) \/ FreeOld(w)
                 \/ \E s \in Slots : CheckSlot(w, s) \/ SpinSlot(w, s))

FairSpec == Spec /\ Fairness

-----------------------------------------------------------------------------
\* A signal handler never dereferences a registry that a writer has freed: the
\* pointer a ReadGuard holds, and the published one that a reader about to load
\* will get, are allocated.  (half_lock.rs:147-150, "it is still valid".)
NoUseAfterFree ==
    /\ data \notin freed
    /\ \A r \in Readers : rpc[r] = "reading" => rdata[r] \notin freed

\* Each slot's counter is exactly the number of readers between fetch_add and
\* fetch_sub on it, whatever generation they read (half_lock.rs:56-60, 137).
GuardCounts ==
    \A s \in Slots :
        lock[s] = Cardinality({r \in Readers : rpc[r] \in {"locked", "reading"} /\ rslot[r] = s})

\* A reader still on an unpublished registry holds the very one the writer is
\* about to free, in a slot the writer has not yet seen empty.  This is what
\* makes NoUseAfterFree inductive: the generation plays no part in it.
StaleReadersSeen ==
    \A r \in Readers :
        rpc[r] = "reading" /\ rdata[r] # data
            => wpc \in Barrier /\ rdata[r] = old /\ ~seen[rslot[r]]

\* Every allocation made by store() is in exactly one place: published, being
\* retired by the writer in the barrier, or freed once (half_lock.rs:73-87).
\* Nothing leaks and nothing published is freed.
AllocationsAccounted ==
    LET retiring == IF wpc \in Barrier THEN {old} ELSE {}
    IN  /\ 0..(allocated - 1) = freed \cup retiring \cup {data}
        /\ freed \cap (retiring \cup {data}) = {}
        /\ data \notin retiring

\* Once signal handlers stop arriving, a writer in the barrier gets out of it
\* and frees the old registry (half_lock.rs:171-184): it is never stuck on a
\* count that nobody will decrement.
BarrierEnds ==
    <>[](\A r \in Readers : rpc[r] = "idle") => []<>(wpc \notin Barrier)
=============================================================================
