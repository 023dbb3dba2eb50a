--------------------------- MODULE LifetimeProofs ---------------------------
(***************************************************************************)
(* What is shared lives as long as its users, however many they are: the   *)
(* registry allocations that signal handlers read through HalfLock, and the *)
(* OS resource behind a SharedIoHandle.                                    *)
(***************************************************************************)
EXTENDS HalfLock, IoHandle, FiniteSetTheorems, TLAPS

(* HalfLock *)

\* The readers between fetch_add and fetch_sub on slot s.
Holding(s) == {r \in Readers : rpc[r] \in {"locked", "reading"} /\ rslot[r] = s}

\* A step belongs to the mutex holder, and it leaves the barrier only with
\* both slots seen empty.
WriterSteps ==
    /\ mutex = None <=> wpc = "idle"
    /\ wpc = "free" => seen[0] /\ seen[1]

HalfLockInv ==
    /\ TypeOK
    /\ WriterSteps
    /\ GuardCounts
    /\ StaleReadersSeen
    /\ AllocationsAccounted

-----------------------------------------------------------------------------
\* Holding(s) is a finite set, so its cardinality is a number and is zero
\* only when no reader holds the slot.
LEMMA HoldingFinite ==
    ASSUME NEW s \in Slots
    PROVE  /\ IsFiniteSet(Holding(s))
           /\ Cardinality(Holding(s)) \in Nat
           /\ Cardinality(Holding(s)) = 0 => Holding(s) = {}
<1>1. Holding(s) \subseteq Readers
  BY DEF Holding
<1>2. IsFiniteSet(Holding(s))
  BY <1>1, HalfLockAssumption, FS_Subset
<1> QED
  BY <1>2, FS_CardinalityType, FS_EmptySet

\* The invariant holds of a new HalfLock.
LEMMA InitInv == Init => HalfLockInv
<1> SUFFICES ASSUME Init PROVE HalfLockInv
  OBVIOUS
<1>1. TypeOK
  BY HalfLockAssumption DEF Init, TypeOK, Slots, Ptrs, Barrier
<1>2. \A s \in Slots : {r \in Readers : rpc[r] \in {"locked", "reading"} /\ rslot[r] = s} = {}
  BY DEF Init
<1>3. GuardCounts
  BY <1>2, FS_EmptySet DEF GuardCounts, Init
<1>4. WriterSteps /\ StaleReadersSeen
  BY HalfLockAssumption DEF Init, WriterSteps, StaleReadersSeen, Barrier
<1>5. AllocationsAccounted
  BY DEF Init, AllocationsAccounted, Barrier
<1> QED
  BY <1>1, <1>3, <1>4, <1>5 DEF HalfLockInv

\* The type invariant is preserved by every step; a decrement stays a natural
\* number because the releasing reader is itself counted.
LEMMA TypeStep == HalfLockInv /\ [Next]_vars => TypeOK'
<1> SUFFICES ASSUME HalfLockInv, [Next]_vars PROVE TypeOK'
  OBVIOUS
<1> USE DEF Slots, Ptrs, Barrier, TypeOK, HalfLockInv
<1>1. ASSUME NEW r \in Readers, Reader(r) PROVE TypeOK'
  <2>1. CASE SelectSlot(r)
    BY <2>1 DEF SelectSlot, writerVars
  <2>2. CASE LockSlot(r)
    BY <2>2 DEF LockSlot, writerVars
  <2>3. CASE LoadData(r)
    BY <2>3 DEF LoadData, writerVars
  <2>4. CASE DropReadGuard(r)
    <3>1. r \in Holding(rslot[r])
      BY <2>4 DEF DropReadGuard, Holding
    <3>2. lock[rslot[r]] > 0
      BY <3>1, HoldingFinite DEF GuardCounts, Holding
    <3> QED
      BY <2>4, <3>2 DEF DropReadGuard, writerVars
  <2> QED
    BY <1>1, <2>1, <2>2, <2>3, <2>4 DEF Reader
<1>2. ASSUME NEW w \in Writers, Writer(w) PROVE TypeOK'
  <2>1. CASE Write(w) \/ DropWriteGuard(w)
    BY Zenon, <2>1 DEF Write, DropWriteGuard, readerVars
  <2>2. CASE Swap(w)
    BY <2>2, HalfLockAssumption DEF Swap, readerVars
  <2>3. CASE BumpGeneration(w)
    BY <2>3 DEF BumpGeneration, AfterSpin, readerVars
  <2>4. CASE FreeOld(w)
    BY <2>4 DEF FreeOld, readerVars
  <2>5. ASSUME NEW s \in Slots, CheckSlot(w, s) \/ SpinSlot(w, s) PROVE TypeOK'
    <3>1. (seen[s] \/ lock[s] = 0) \in BOOLEAN
      OBVIOUS
    <3>2. seen' = [seen EXCEPT ![s] = seen[s] \/ lock[s] = 0]
      BY <2>5 DEF CheckSlot, SpinSlot, Observe
    <3>3. seen' \in [Slots -> BOOLEAN]
      BY <3>1, <3>2, Zenon
    <3>4. /\ UNCHANGED <<data, generation, lock, allocated, freed, rpc, rslot, rdata, old, mutex>>
          /\ wpc' \in Barrier
      BY <2>5 DEF CheckSlot, SpinSlot, AfterSpin, readerVars
    <3> QED
      BY <3>3, <3>4
  <2> QED
    BY <1>2, <2>1, <2>2, <2>3, <2>4, <2>5 DEF Writer
<1>3. CASE UNCHANGED vars
  BY <1>3 DEF vars, readerVars, writerVars
<1> QED
  BY <1>1, <1>2, <1>3 DEF Next

\* The counters follow the readers: a fetch_add adds the reader to its slot's
\* holders, a fetch_sub removes it, and no other step moves a reader.
LEMMA GuardCountsStep == HalfLockInv /\ [Next]_vars => GuardCounts'
<1> SUFFICES ASSUME HalfLockInv, [Next]_vars PROVE GuardCounts'
  OBVIOUS
<1> USE DEF HalfLockInv
<1>0. TypeOK
  OBVIOUS
<1>s. ASSUME Holding(0)' = Holding(0), Holding(1)' = Holding(1), lock' = lock
      PROVE  GuardCounts'
  BY <1>s DEF GuardCounts, Holding, Slots
<1>1. ASSUME NEW r \in Readers, Reader(r) PROVE GuardCounts'
  <2>1. CASE SelectSlot(r)
    BY <2>1, <1>s, <1>0 DEF SelectSlot, Holding, TypeOK
  <2>2. CASE LockSlot(r)
    <3>1. /\ r \notin Holding(rslot[r])
          /\ Holding(rslot[r])' = Holding(rslot[r]) \cup {r}
          /\ rslot[r] \in Slots
      BY <2>2, <1>0 DEF LockSlot, Holding, TypeOK
    <3>2. Cardinality(Holding(rslot[r])') = Cardinality(Holding(rslot[r])) + 1
      BY <3>1, HoldingFinite, FS_AddElement, ZenonT(60)
    <3>3. \A s \in Slots \ {rslot[r]} : Holding(s)' = Holding(s)
      BY <2>2, <1>0 DEF LockSlot, Holding, TypeOK
    <3>4. /\ rslot' = rslot /\ lock' = [lock EXCEPT ![rslot[r]] = @ + 1]
          /\ lock \in [Slots -> Nat]
      BY <2>2, <1>0 DEF LockSlot, TypeOK
    <3>5. \A s \in Slots : lock'[s] = Cardinality(Holding(s)')
      BY Zenon, <3>1, <3>2, <3>3, <3>4 DEF GuardCounts, Holding
    <3> QED
      BY <3>5 DEF GuardCounts, Holding
  <2>3. CASE LoadData(r)
    BY <2>3, <1>s, <1>0 DEF LoadData, Holding, TypeOK
  <2>4. CASE DropReadGuard(r)
    <3>1. /\ r \in Holding(rslot[r])
          /\ Holding(rslot[r])' = Holding(rslot[r]) \ {r}
          /\ rslot[r] \in Slots
      BY <2>4, <1>0 DEF DropReadGuard, Holding, TypeOK
    <3>2. Cardinality(Holding(rslot[r])') = Cardinality(Holding(rslot[r])) - 1
      BY Zenon, <3>1, HoldingFinite, FS_RemoveElement
    <3>3. \A s \in Slots \ {rslot[r]} : Holding(s)' = Holding(s)
      BY <2>4, <1>0 DEF DropReadGuard, Holding, TypeOK
    <3>4. /\ rslot' = rslot /\ lock' = [lock EXCEPT ![rslot[r]] = @ - 1]
          /\ lock \in [Slots -> Nat]
      BY <2>4, <1>0 DEF DropReadGuard, TypeOK
    <3>5. \A s \in Slots : lock'[s] = Cardinality(Holding(s)')
      BY <3>1, <3>2, <3>3, <3>4 DEF GuardCounts, Holding
    <3> QED
      BY <3>5 DEF GuardCounts, Holding
  <2> QED
    BY <1>1, <2>1, <2>2, <2>3, <2>4 DEF Reader
<1>2. ASSUME NEW w \in Writers, Writer(w) PROVE GuardCounts'
  BY <1>2, <1>s DEF Writer, Write, Swap, DropWriteGuard, BumpGeneration, FreeOld,
     CheckSlot, SpinSlot, readerVars, Holding
<1>3. CASE UNCHANGED vars
  BY <1>3, <1>s DEF vars, readerVars, Holding
<1> QED
  BY <1>1, <1>2, <1>3 DEF Next

\* The writer's bookkeeping and the fate of every allocation.
LEMMA WriterStep == HalfLockInv /\ [Next]_vars => WriterSteps' /\ AllocationsAccounted'
<1> SUFFICES ASSUME HalfLockInv, [Next]_vars PROVE WriterSteps' /\ AllocationsAccounted'
  OBVIOUS
<1> USE DEF HalfLockInv
<1>1. ASSUME NEW r \in Readers, Reader(r) PROVE WriterSteps' /\ AllocationsAccounted'
  BY <1>1 DEF Reader, SelectSlot, LockSlot, LoadData, DropReadGuard, writerVars,
     WriterSteps, AllocationsAccounted
<1>2. ASSUME NEW w \in Writers, Writer(w) PROVE WriterSteps' /\ AllocationsAccounted'
  <2> USE HalfLockAssumption DEF WriterSteps, Barrier, TypeOK
  <2>1. CASE Write(w) \/ DropWriteGuard(w)
    BY <2>1 DEF Write, DropWriteGuard, AllocationsAccounted
  <2>2. CASE Swap(w)
    <3>1. /\ wpc = "owned" /\ wpc' = "check0" /\ mutex' = mutex /\ mutex # None
          /\ data' = allocated /\ old' = data /\ freed' = freed
          /\ allocated' = allocated + 1 /\ allocated \in Nat
      BY <2>2 DEF Swap
    <3>2. 0..(allocated - 1) = freed \cup {data} /\ freed \cap {data} = {}
      BY <3>1 DEF AllocationsAccounted
    <3>3. 0..allocated = 0..(allocated - 1) \cup {allocated} /\ allocated \notin 0..(allocated - 1)
      BY <3>1
    <3>4. AllocationsAccounted'
      BY <3>1, <3>2, <3>3 DEF AllocationsAccounted
    <3> QED
      BY <3>1, <3>4
  <2>3. CASE BumpGeneration(w)
    BY <2>3 DEF BumpGeneration, AfterSpin, AllocationsAccounted
  <2>4. CASE FreeOld(w)
    BY <2>4 DEF FreeOld, AllocationsAccounted
  <2>5. ASSUME NEW s \in Slots, CheckSlot(w, s) \/ SpinSlot(w, s)
        PROVE  WriterSteps' /\ AllocationsAccounted'
    BY <2>5 DEF CheckSlot, SpinSlot, AfterSpin, Observe, AllocationsAccounted
  <2> QED
    BY <1>2, <2>1, <2>2, <2>3, <2>4, <2>5 DEF Writer
<1>3. CASE UNCHANGED vars
  BY <1>3 DEF vars, writerVars, WriterSteps, AllocationsAccounted
<1> QED
  BY <1>1, <1>2, <1>3 DEF Next

\* A reader that loads the pointer gets the published one; a swap leaves only
\* readers of the new old pointer behind, with nothing seen yet; and a slot
\* marked as seen was empty when it was marked.
LEMMA StaleStep == HalfLockInv /\ [Next]_vars => StaleReadersSeen'
<1> SUFFICES ASSUME HalfLockInv, [Next]_vars PROVE StaleReadersSeen'
  OBVIOUS
<1> USE DEF HalfLockInv
<1>1. ASSUME NEW r \in Readers, Reader(r) PROVE StaleReadersSeen'
  BY <1>1 DEF Reader, SelectSlot, LockSlot, LoadData, DropReadGuard, writerVars,
     StaleReadersSeen, TypeOK
<1>2. ASSUME NEW w \in Writers, Writer(w) PROVE StaleReadersSeen'
  <2> USE DEF StaleReadersSeen, readerVars, Barrier, WriterSteps, TypeOK
  <2>1. CASE Write(w) \/ DropWriteGuard(w)
    BY <2>1, HalfLockAssumption DEF Write, DropWriteGuard
  <2>2. CASE Swap(w)
    BY <2>2 DEF Swap
  <2>3. CASE BumpGeneration(w)
    BY <2>3 DEF BumpGeneration, AfterSpin
  <2>4. CASE FreeOld(w)
    BY <2>4 DEF FreeOld, Slots
  <2>5. ASSUME NEW s \in Slots, CheckSlot(w, s) \/ SpinSlot(w, s) PROVE StaleReadersSeen'
    <3>1. lock[s] = 0 => Holding(s) = {}
      BY Zenon, HoldingFinite DEF GuardCounts, Holding
    <3>2. \A r \in Readers : rpc[r] = "reading" /\ rslot[r] = s => lock[s] # 0
      BY <3>1 DEF Holding
    <3>3. /\ UNCHANGED <<rpc, rslot, rdata, data, old>>
          /\ wpc \in Barrier /\ wpc' \in Barrier
          /\ seen' = [seen EXCEPT ![s] = @ \/ lock[s] = 0]
      BY <2>5 DEF CheckSlot, SpinSlot, AfterSpin, Observe
    <3> QED
      BY <3>2, <3>3
  <2> QED
    BY <1>2, <2>1, <2>2, <2>3, <2>4, <2>5 DEF Writer
<1>3. CASE UNCHANGED vars
  BY <1>3 DEF vars, readerVars, writerVars, StaleReadersSeen
<1> QED
  BY <1>1, <1>2, <1>3 DEF Next

-----------------------------------------------------------------------------
\* The inductive invariant holds in every reachable state of read(), write()
\* and store() on half_lock.rs.
THEOREM Invariance == Spec => []HalfLockInv
<1>1. HalfLockInv /\ [Next]_vars => HalfLockInv'
  BY TypeStep, GuardCountsStep, WriterStep, StaleStep DEF HalfLockInv
<1> QED
  BY InitInv, <1>1, PTL DEF Spec

\* The unsafe dereference in HalfLock::read never sees a freed registry: a
\* stale reader keeps its slot's counter above zero, the writer has therefore
\* not seen that slot empty, and it frees only after seeing both empty.
THEOREM SafeReads == Spec => []NoUseAfterFree
<1>1. HalfLockInv => NoUseAfterFree
  BY DEF HalfLockInv, NoUseAfterFree, StaleReadersSeen, AllocationsAccounted
<1> QED
  BY <1>1, Invariance, PTL

\* store() neither leaks the registry it replaces nor frees one twice.
THEOREM NoLeakNoDoubleFree == Spec => []AllocationsAccounted
<1>1. HalfLockInv => AllocationsAccounted
  BY DEF HalfLockInv
<1> QED
  BY <1>1, Invariance, PTL

-----------------------------------------------------------------------------
(* SharedIoHandle *)

HandleSpec == HandleInit /\ [][HandleNext]_handleVars

HandleStates == {"free", "closeop"} \cup Live
Held == Owners # {} \/ flying # {}

HandleTypes ==
    /\ handle \in [Handles -> HandleStates]
    /\ flying \subseteq Flights
    /\ cell \in Handles \cup {"Init", "Closed"}

\* The close operation owns the resource alone.
CloserAlone ==
    \A h \in Handles : handle[h] = "closeop" =>
        /\ os = "open" /\ cell = "Closed" /\ flying = {}
        /\ \A k \in Handles \ {h} : handle[k] = "free"

HandleInv == HandleTypes /\ HandlesUsable /\ CloserAlone

-----------------------------------------------------------------------------
(* The reference count *)

\* Owners and flights can be counted.
LEMMA CountType ==
    ASSUME HandleTypes
    PROVE  /\ IsFiniteSet(Owners) /\ Cardinality(Owners) \in Nat
           /\ IsFiniteSet(flying) /\ Cardinality(flying) \in Nat
<1>1. IsFiniteSet(Owners) /\ IsFiniteSet(flying)
    BY HandlesAssumption, FS_Subset DEF Owners, HandleTypes
<1> QED BY <1>1, FS_CardinalityType

\* Rc::strong_count is one exactly when the handle that asks is alone.
LEMMA AloneHandle ==
    ASSUME HandleTypes, NEW h \in Owners
    PROVE  Strong = 1 <=> Owners = {h} /\ flying = {}
<1>1. /\ IsFiniteSet(Owners \ {h}) /\ Cardinality(Owners \ {h}) = Cardinality(Owners) - 1
      /\ Cardinality(Owners \ {h}) \in Nat
    BY CountType, FS_RemoveElement, FS_CardinalityType
<1>2. Cardinality(Owners \ {h}) = 0 <=> Owners \ {h} = {} BY Zenon, <1>1, FS_EmptySet
<1>3. Cardinality(flying) = 0 <=> flying = {} BY CountType, FS_EmptySet
<1>4. Strong = 1 <=> Cardinality(Owners \ {h}) = 0 /\ Cardinality(flying) = 0
    BY <1>1, CountType DEF Strong
<1> QED BY <1>2, <1>3, <1>4

\* The same for an operation in flight.
LEMMA AloneFlight ==
    ASSUME HandleTypes, NEW o \in flying
    PROVE  Strong = 1 <=> Owners = {} /\ flying = {o}
<1>1. /\ IsFiniteSet(flying \ {o}) /\ Cardinality(flying \ {o}) = Cardinality(flying) - 1
      /\ Cardinality(flying \ {o}) \in Nat
    BY CountType, FS_RemoveElement, FS_CardinalityType
<1>2. Cardinality(flying \ {o}) = 0 <=> flying \ {o} = {} BY Zenon, <1>1, FS_EmptySet
<1>3. Cardinality(Owners) = 0 <=> Owners = {} BY CountType, FS_EmptySet
<1>4. Strong = 1 <=> Cardinality(flying \ {o}) = 0 /\ Cardinality(Owners) = 0
    BY <1>1, CountType DEF Strong
<1> QED BY <1>2, <1>3, <1>4

-----------------------------------------------------------------------------
(* One step *)

\* A clone is dropped: whoever held it, the resource is closed exactly when
\* nobody else does.
LEMMA DropKeeps ==
    ASSUME HandleInv, Held, DropEffect, HandleTypes',
           Strong = 1 <=> ~Held',
           \A k \in Handles : handle'[k] # "closeop"
    PROVE  HandleInv'
<1>1. os = "open" /\ cell # "Closed" BY DEF HandleInv, HandlesUsable, Held
<1>2. cell' # "Closed" BY <1>1, HandlesAssumption DEF DropEffect
<1>3. os' = IF Strong = 1 THEN "closed" ELSE "open" BY <1>1 DEF DropEffect
<1>4. HandlesUsable' BY <1>2, <1>3 DEF HandlesUsable, Held
<1>5. CloserAlone' BY DEF CloserAlone
<1> QED BY <1>4, <1>5 DEF HandleInv

\* Every step keeps the invariant.
LEMMA HandleStep == HandleInv /\ [HandleNext]_handleVars => HandleInv'
<1> SUFFICES ASSUME HandleInv, [HandleNext]_handleVars PROVE HandleInv'
    OBVIOUS
<1> USE DEF HandleStates, Live, Usable, Closing
<1>0. HandleTypes /\ HandlesUsable /\ CloserAlone BY DEF HandleInv
<1>a. ASSUME NEW h \in Handles, handle[h] \in Live
      PROVE  /\ h \in Owners /\ Held /\ os = "open" /\ cell # "Closed"
             /\ \A k \in Handles : handle[k] # "closeop"
    BY <1>0, <1>a DEF Owners, Held, HandlesUsable, CloserAlone
<1>1. ASSUME NEW h \in Handles, NEW k \in Handles, Clone(h, k) PROVE HandleInv'
    <2>1. h \in Owners /\ os = "open" /\ cell # "Closed"
          /\ \A j \in Handles : handle[j] # "closeop"
        BY <1>1, <1>a DEF Clone
    <2>2. HandleTypes' BY <1>0, <1>1 DEF Clone, HandleTypes
    <2>3. h \in Owners' BY <1>0, <1>1 DEF Clone, Owners, HandleTypes
    <2>4. CloserAlone' BY <1>0, <1>1, <2>1 DEF Clone, CloserAlone, HandleTypes
    <2> QED BY <1>1, <2>1, <2>2, <2>3, <2>4 DEF Clone, HandleInv, HandlesUsable
<1>2. ASSUME NEW h \in Handles, NEW k \in Handles, IntoSplit(h, k) PROVE HandleInv'
    <2>1. h \in Owners /\ os = "open" /\ cell # "Closed"
          /\ \A j \in Handles : handle[j] # "closeop"
        BY <1>2, <1>a DEF IntoSplit
    <2>2. HandleTypes' BY <1>0, <1>2 DEF IntoSplit, HandleTypes
    <2>3. h \in Owners' BY <1>0, <1>2 DEF IntoSplit, Owners, HandleTypes
    <2>4. CloserAlone' BY <1>0, <1>2, <2>1 DEF IntoSplit, CloserAlone, HandleTypes
    <2> QED BY <1>2, <2>1, <2>2, <2>3, <2>4 DEF IntoSplit, HandleInv, HandlesUsable
<1>3. ASSUME NEW r \in Handles, NEW w \in Handles, Reunite(r, w) PROVE HandleInv'
    <2>1. /\ r \in Owners /\ Held /\ os = "open" /\ cell # "Closed"
          /\ \A j \in Handles : handle[j] # "closeop"
        BY <1>3, <1>a DEF Reunite
    <2>2. HandleTypes' BY <1>0, <1>3 DEF Reunite, DropEffect, HandleTypes, Waiting
    <2>3. r # w /\ handle'[r] = "whole" BY <1>0, <1>3 DEF Reunite, HandleTypes
    <2>4. Held' BY <2>3 DEF Held, Owners
    <2>5. Strong # 1 BY <1>3 DEF Reunite
    <2>6. \A j \in Handles : handle'[j] # "closeop" BY <1>0, <1>3, <2>1 DEF Reunite, HandleTypes
    <2> QED BY Zenon, <1>3, <2>1, <2>2, <2>4, <2>5, <2>6, DropKeeps DEF Reunite
<1>4. ASSUME NEW h \in Handles, DropHandle(h) PROVE HandleInv'
    <2>1. /\ h \in Owners /\ Held /\ \A j \in Handles : handle[j] # "closeop"
        BY <1>4, <1>a DEF DropHandle
    <2>2. HandleTypes' BY <1>0, <1>4 DEF DropHandle, DropEffect, HandleTypes, Waiting
    <2>3. Owners' = Owners \ {h} /\ flying' = flying
        BY <1>0, <1>4 DEF DropHandle, HandleTypes, Owners
    <2>4. Strong = 1 <=> ~Held' BY <1>0, <2>1, <2>3, AloneHandle DEF Held
    <2>5. \A j \in Handles : handle'[j] # "closeop" BY <1>0, <1>4, <2>1 DEF DropHandle, HandleTypes
    <2> QED BY <1>4, <2>1, <2>2, <2>4, <2>5, DropKeeps DEF DropHandle
<1>5. ASSUME NEW h \in Handles, TryUnwrap(h) PROVE HandleInv'
    <2>1. h \in Owners /\ \A j \in Handles : handle[j] # "closeop" BY <1>5, <1>a DEF TryUnwrap
    <2>2. Owners = {h} /\ flying = {} BY <1>0, <1>5, <2>1, AloneHandle DEF TryUnwrap
    <2>3. HandleTypes' BY <1>0, <1>5 DEF TryUnwrap, HandleTypes
    <2>4. Owners' = {} /\ flying' = {}
        BY <1>0, <1>5, <2>2 DEF TryUnwrap, HandleTypes, Owners
    <2>5. CloserAlone' BY <1>0, <1>5, <2>1 DEF TryUnwrap, CloserAlone, HandleTypes
    <2> QED BY <1>5, <2>3, <2>4, <2>5 DEF TryUnwrap, HandleInv, HandlesUsable
<1>6. ASSUME NEW h \in Handles, Unique(h) PROVE HandleInv'
    <2>1. h \in Owners /\ os = "open" /\ \A j \in Handles : handle[j] # "closeop"
        BY <1>6, <1>a DEF Unique
    <2>2. Owners = {h} /\ flying = {} BY <1>0, <1>6, <2>1, AloneHandle DEF Unique
    <2>3. HandleTypes' BY <1>0, <1>6 DEF Unique, HandleTypes
    <2>4. Owners' = {} /\ flying' = {}
        BY <1>0, <1>6, <2>2 DEF Unique, HandleTypes, Owners
    <2>5. \A k \in Handles \ {h} : handle[k] = "free" /\ handle'[k] = "free"
        BY <1>0, <1>6, <2>1, <2>2 DEF Unique, HandleTypes, Owners
    <2>6. /\ cell' = "Closed"
          /\ \/ handle'[h] = "free" /\ os' # "open"
             \/ handle'[h] = "closeop" /\ os' = "open"
        BY <1>0, <1>6, <2>1 DEF Unique, HandleTypes
    <2>7. CloserAlone' BY <2>4, <2>5, <2>6 DEF CloserAlone
    <2> QED BY <2>3, <2>4, <2>6, <2>7 DEF HandleInv, HandlesUsable
<1>7. ASSUME NEW h \in Handles, AwaitUnique(h) PROVE HandleInv'
    <2>1. h \in Owners /\ os = "open" /\ \A j \in Handles : handle[j] # "closeop"
        BY <1>7, <1>a DEF AwaitUnique
    <2>2. HandleTypes' BY <1>0, <1>7 DEF AwaitUnique, HandleTypes
    <2>3. Owners' = Owners BY <1>7 DEF AwaitUnique, Owners
    <2>4. cell' # "Closed" BY <1>7, HandlesAssumption DEF AwaitUnique
    <2>5. CloserAlone' BY <1>7, <2>1 DEF AwaitUnique, CloserAlone
    <2> QED BY <1>7, <2>1, <2>2, <2>3, <2>4, <2>5 DEF AwaitUnique, HandleInv, HandlesUsable
<1>8. ASSUME NEW h \in Handles, CloseDone(h) PROVE HandleInv'
    <2>1. /\ flying = {} /\ \A k \in Handles \ {h} : handle[k] = "free"
        BY <1>0, <1>8 DEF CloseDone, CloserAlone
    <2>2. HandleTypes' BY <1>0, <1>8 DEF CloseDone, HandleTypes
    <2>3. \A k \in Handles : handle'[k] = "free" BY <1>0, <1>8, <2>1 DEF CloseDone, HandleTypes
    <2>4. Owners' = {} BY <2>3 DEF Owners
    <2>5. CloserAlone' BY <2>3 DEF CloserAlone
    <2> QED BY <1>8, <2>1, <2>2, <2>4, <2>5 DEF CloseDone, HandleInv, HandlesUsable
<1>9. ASSUME NEW h \in Handles, CancelClose(h) PROVE HandleInv'
    <2>1. CASE handle[h] \in Closing /\ DropEffect
        <3>1. /\ h \in Owners /\ Held /\ \A j \in Handles : handle[j] # "closeop"
            BY <2>1, <1>a
        <3>2. HandleTypes' BY <1>0, <1>9, <2>1 DEF CancelClose, DropEffect, HandleTypes, Waiting
        <3>3. Owners' = Owners \ {h} /\ flying' = flying
            BY <1>0, <1>9 DEF CancelClose, HandleTypes, Owners
        <3>4. Strong = 1 <=> ~Held' BY <1>0, <3>1, <3>3, AloneHandle DEF Held
        <3>5. \A j \in Handles : handle'[j] # "closeop"
            BY <1>0, <1>9, <3>1 DEF CancelClose, HandleTypes
        <3> QED BY <2>1, <3>1, <3>2, <3>4, <3>5, DropKeeps
    <2>2. CASE handle[h] = "closeop" /\ os' \in {"closed", "leaked"} /\ UNCHANGED <<cell, woken>>
        <3>1. /\ flying = {} /\ \A k \in Handles \ {h} : handle[k] = "free"
            BY <1>0, <2>2 DEF CloserAlone
        <3>2. HandleTypes' BY <1>0, <1>9, <2>2 DEF CancelClose, HandleTypes
        <3>3. \A k \in Handles : handle'[k] = "free"
            BY <1>0, <1>9, <3>1 DEF CancelClose, HandleTypes
        <3>4. Owners' = {} BY <3>3 DEF Owners
        <3>5. CloserAlone' BY <3>3 DEF CloserAlone
        <3> QED BY <1>9, <2>2, <3>1, <3>2, <3>4, <3>5 DEF CancelClose, HandleInv, HandlesUsable
    <2> QED BY <1>9, <2>1, <2>2 DEF CancelClose
<1>10. ASSUME NEW h \in Handles, NEW want \in Closing, BeginClose(h, want) PROVE HandleInv'
    <2>1. h \in Owners /\ os = "open" /\ cell # "Closed"
          /\ \A j \in Handles : handle[j] # "closeop"
        BY <1>10, <1>a DEF BeginClose
    <2>2. HandleTypes' BY <1>0, <1>10 DEF BeginClose, HandleTypes
    <2>3. h \in Owners' BY <1>0, <1>10 DEF BeginClose, Owners, HandleTypes
    <2>4. CloserAlone' BY <1>0, <1>10, <2>1 DEF BeginClose, CloserAlone, HandleTypes
    <2> QED BY <1>10, <2>1, <2>2, <2>3, <2>4 DEF BeginClose, HandleInv, HandlesUsable
<1>11. ASSUME NEW h \in Handles, NEW o \in Flights, StartOp(h, o) PROVE HandleInv'
    <2>1. h \in Owners /\ os = "open" /\ cell # "Closed"
          /\ \A j \in Handles : handle[j] # "closeop"
        BY <1>11, <1>a DEF StartOp
    <2>2. HandleTypes' BY <1>0, <1>11 DEF StartOp, HandleTypes
    <2>3. CloserAlone' BY <1>11, <2>1 DEF StartOp, CloserAlone
    <2> QED BY <1>11, <2>1, <2>2, <2>3 DEF StartOp, HandleInv, HandlesUsable, Owners
<1>12. ASSUME NEW o \in Flights, OpEnds(o) PROVE HandleInv'
    <2>1. o \in flying /\ Held BY <1>12 DEF OpEnds, Held
    <2>2. \A j \in Handles : handle'[j] # "closeop" BY <1>0, <1>12, <2>1 DEF CloserAlone, OpEnds
    <2>3. HandleTypes' BY <1>0, <1>12 DEF OpEnds, DropEffect, HandleTypes, Waiting
    <2>4. Owners' = Owners /\ flying' = flying \ {o} BY <1>12 DEF OpEnds, Owners
    <2>5. Strong = 1 <=> ~Held' BY <1>0, <2>1, <2>4, AloneFlight DEF Held
    <2> QED BY <1>12, <2>1, <2>2, <2>3, <2>5, DropKeeps DEF OpEnds
<1>13. CASE UNCHANGED handleVars
    BY <1>0, <1>13 DEF handleVars, HandleInv, HandleTypes, HandlesUsable, CloserAlone, Owners
<1> QED
    BY <1>1, <1>2, <1>3, <1>4, <1>5, <1>6, <1>7, <1>8, <1>9, <1>10, <1>11, <1>12, <1>13
    DEF HandleNext

\* A handle or an operation that holds a clone finds the resource open, and once
\* nobody holds it it has been closed, handed out or lost with a cancelled close
\* operation (io_handle.rs:88-119, 241-255).
THEOREM ResourceOutlivesUsers == HandleSpec => []HandlesUsable
<1>1. HandleInit => HandleInv
    BY HandlesAssumption DEF HandleInit, HandleInv, HandleTypes, HandlesUsable, CloserAlone,
        Owners, HandleStates, Live, Usable, Closing
<1>2. HandleInv => HandlesUsable BY DEF HandleInv
<1> QED BY <1>1, <1>2, HandleStep, PTL DEF HandleSpec
=============================================================================
