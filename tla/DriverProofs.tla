---------------------------- MODULE DriverProofs ----------------------------
(***************************************************************************)
(* What the driver keeps of its operations: the cancellation scopes that   *)
(* own them, for any word size, and the contract of a payload, for any set *)
(* of operations.                                                          *)
(*                                                                         *)
(* Keys and scope ids name one thing for ever, and the two maps of the     *)
(* registry agree whatever is called in whatever order; `Clear` is a loop  *)
(* over the slots, and is left to model checking.  The run of the driver   *)
(* shows that the three backends implement the contract, so what is proved *)
(* here of the contract holds of them.                                     *)
(***************************************************************************)
EXTENDS Scopes, OpContract, Integers, TLAPS

(* Scopes *)

-----------------------------------------------------------------------------
(* Keys *)

\* What is left of a multiple of HalfWord, and how many times it goes in.
LEMMA DivMod ==
  ASSUME NEW g \in Nat, NEW r \in 0 .. HalfWord - 1
  PROVE  (g * HalfWord + r) % HalfWord = r /\ (g * HalfWord + r) \div HalfWord = g
<1> DEFINE x == g * HalfWord + r
           q == x \div HalfWord
           m == x % HalfWord
<1>0. x \in Nat BY HalfWordAssumption
<1>1. /\ q \in Int /\ m \in 0 .. HalfWord - 1
      /\ x = HalfWord * q + m
  <2> HIDE DEF x
  <2> QED BY <1>0, HalfWordAssumption
<1>2. x = HalfWord * g + r BY HalfWordAssumption
<1> HIDE DEF x, q, m
<1>3. ASSUME NEW a \in Int, NEW b \in Int, a < b
      PROVE  HalfWord * a + HalfWord <= HalfWord * b
  <2>1. HalfWord * (b - a - 1) >= 0 /\ b - a - 1 \in Nat BY <1>3, HalfWordAssumption
  <2>2. HalfWord * (b - a - 1) = HalfWord * b - HalfWord * a - HalfWord
    BY HalfWordAssumption
  <2>3. HalfWord * b \in Int /\ HalfWord * a \in Int BY HalfWordAssumption
  <2> QED BY <2>1, <2>2, <2>3, HalfWordAssumption
<1>4. HalfWord * q \in Int /\ HalfWord * g \in Int BY <1>1, HalfWordAssumption
<1>5. ~(q < g) BY <1>1, <1>2, <1>3, <1>4, HalfWordAssumption
<1>6. ~(g < q) BY <1>1, <1>2, <1>3, <1>4, HalfWordAssumption
<1>7. q = g BY <1>1, <1>5, <1>6
<1>8. m = r BY <1>1, <1>2, <1>4, <1>7, HalfWordAssumption
<1> QED BY <1>7, <1>8 DEF x, q, m

\* Packing a slot and a generation loses nothing, and never makes one of the
\* words that name a wakeup or a cancellation (op_table.rs: OpKey, CompletionKey).
THEOREM KeysRoundTrip ==
  ASSUME NEW slot \in Slots, NEW generation \in 1 .. GenerationMax
  PROVE  LET raw == FromComponents(slot, generation) IN
           /\ IsOpKey(raw) /\ KeySlot(raw) = slot /\ KeyGeneration(raw) = generation
           /\ Decode(raw) = "Operation"
<1> DEFINE raw == FromComponents(slot, generation)
<1> USE HalfWordAssumption DEF Slots, MaxCapacity, GenerationMax, IndexMask
<1>1. raw = generation * HalfWord + (slot + 1) BY DEF FromComponents
<1>2. slot + 1 \in 0 .. HalfWord - 1 /\ generation \in Nat OBVIOUS
<1>3. raw % HalfWord = slot + 1 /\ raw \div HalfWord = generation BY <1>1, <1>2, DivMod
<1>4. IsOpKey(raw) /\ KeySlot(raw) = slot /\ KeyGeneration(raw) = generation
  BY <1>3 DEF IsOpKey, KeySlot, KeyGeneration
<1>5. raw < HalfWord * HalfWord - 3
  <2>1. generation * HalfWord <= (HalfWord - 2) * HalfWord
    <3>1. (HalfWord - 2 - generation) * HalfWord >= 0 OBVIOUS
    <3> QED BY <3>1
  <2>2. (HalfWord - 2) * HalfWord = HalfWord * HalfWord - 2 * HalfWord OBVIOUS
  <2>3. generation * HalfWord \in Int /\ HalfWord * HalfWord \in Int OBVIOUS
  <2> QED BY <1>1, <2>1, <2>2, <2>3
<1>6. HalfWord * HalfWord \in Int /\ raw \in Int BY <1>1
<1>7. raw # WakeRaw /\ raw # CancelRaw /\ raw # WakeCancelRaw
  BY <1>5, <1>6 DEF WakeRaw, CancelRaw, WakeCancelRaw
<1>8. Decode(raw) = "Operation" BY <1>4, <1>7 DEF Decode
<1> QED BY <1>4, <1>8

-----------------------------------------------------------------------------
(* The free list of the slab *)

Entries(V) == {Vacant(l) : l \in Nat} \cup {Occupied(v) : v \in V}

Free(t) == {s \in Slots : s < t.len /\ ~t.entries[s].occupied}

\* The head and the links of the free slots point at free slots or one past the
\* end, and no two of them at the same place.
FreeList(t) ==
  /\ t.len \in 0 .. MaxCapacity
  /\ t.next \in Free(t) \cup {t.len}
  /\ \A s \in Free(t) : /\ t.entries[s].link \in Free(t) \cup {t.len}
                        /\ t.entries[s].link # t.next
  /\ \A r, s \in Free(t) : t.entries[r].link = t.entries[s].link => r = s

\* Slab::insert_at takes the head, or grows the slab by one slot.
LEMMA InsertKeepsFreeList ==
  ASSUME NEW V, NEW t, t.entries \in [Slots -> Entries(V)], FreeList(t),
         NEW v \in V, NEW u, t.next < MaxCapacity,
         u.entries = [t.entries EXCEPT ![t.next] = Occupied(v)],
         IF t.next = t.len THEN u.len = t.len + 1 /\ u.next = t.len + 1
                           ELSE u.len = t.len /\ u.next = t.entries[t.next].link
  PROVE  t.next \in Slots /\ FreeList(u)
<1> USE HalfWordAssumption DEF Slots, MaxCapacity, IndexMask
<1>1. t.next \in Slots BY DEF FreeList, Free
<1>2. \A s \in Slots : u.entries[s] = IF s = t.next THEN Occupied(v) ELSE t.entries[s]
  BY <1>1
<1>3. u.entries[t.next].occupied BY <1>1, <1>2 DEF Occupied
<1>4. CASE t.next = t.len
  <2>1. Free(u) = Free(t) BY <1>1, <1>2, <1>3, <1>4 DEF Free, FreeList
  <2>2. \A s \in Free(t) : t.entries[s].link \in Free(t) /\ u.entries[s] = t.entries[s]
    BY <1>2, <1>4 DEF FreeList, Free
  <2>3. \A s \in Free(t) : s < t.len BY DEF Free
  <2> QED BY <1>1, <1>4, <2>1, <2>2, <2>3 DEF FreeList
<1>5. CASE t.next # t.len
  <2>1. Free(u) = Free(t) \ {t.next} BY <1>1, <1>2, <1>3, <1>5 DEF Free
  <2>2. \A s \in Free(u) : u.entries[s] = t.entries[s] /\ s \in Free(t)
    BY Zenon, Zenon, <1>2, <2>1 DEF Free
  <2>3. t.next \in Free(t) BY <1>5 DEF FreeList
  <2>4. u.len = t.len /\ u.next = t.entries[t.next].link BY <1>5
  <2>5. u.next \in Free(u) \cup {u.len} BY <2>1, <2>3, <2>4 DEF FreeList
  <2>6. \A s \in Free(u) : u.entries[s].link \in Free(u) \cup {u.len}
    BY <2>1, <2>2, <2>4 DEF FreeList
  <2>7. \A s \in Free(u) : u.entries[s].link # u.next
    BY <2>1, <2>2, <2>3, <2>4 DEF FreeList
  <2>8. \A r, s \in Free(u) : u.entries[r].link = u.entries[s].link => r = s
    BY <2>2 DEF FreeList
  <2>9. u.len \in 0 .. MaxCapacity BY <2>4 DEF FreeList
  <2> QED BY <1>1, <2>5, <2>6, <2>7, <2>8, <2>9 DEF FreeList
<1> QED BY <1>1, <1>4, <1>5

\* Slab::try_remove puts the slot at the head.
LEMMA RemoveKeepsFreeList ==
  ASSUME NEW V, NEW t, t.entries \in [Slots -> Entries(V)], FreeList(t),
         NEW s \in Slots, s < t.len, t.entries[s].occupied,
         NEW u, u.entries = [t.entries EXCEPT ![s] = Vacant(t.next)],
         u.len = t.len, u.next = s
  PROVE  FreeList(u)
<1> USE HalfWordAssumption DEF Slots, MaxCapacity, IndexMask
<1>1. \A r \in Slots : u.entries[r] = IF r = s THEN Vacant(t.next) ELSE t.entries[r]
  OBVIOUS
<1>2. ~u.entries[s].occupied /\ u.entries[s].link = t.next BY <1>1 DEF Vacant
<1>3. s \notin Free(t) BY DEF Free
<1>4. Free(u) = Free(t) \cup {s} BY <1>1, <1>2, <1>3 DEF Free
<1>5. \A r \in Free(t) : u.entries[r] = t.entries[r] BY <1>1, <1>3 DEF Free
<1> QED BY <1>2, <1>3, <1>4, <1>5 DEF FreeList

\* Another value in an occupied slot.
LEMMA PutKeepsFreeList ==
  ASSUME NEW V, NEW t, t.entries \in [Slots -> Entries(V)], FreeList(t),
         NEW s \in Slots, t.entries[s].occupied, NEW v \in V,
         NEW u, u.entries = [t.entries EXCEPT ![s] = Occupied(v)],
         u.len = t.len, u.next = t.next
  PROVE  FreeList(u)
<1>1. \A r \in Slots : u.entries[r] = IF r = s THEN Occupied(v) ELSE t.entries[r]
  OBVIOUS
<1>2. u.entries[s].occupied BY <1>1 DEF Occupied
<1>3. Free(u) = Free(t) /\ s \notin Free(t) BY <1>1, <1>2 DEF Free
<1>4. \A r \in Free(t) : u.entries[r] = t.entries[r] BY <1>1, <1>3 DEF Free
<1> QED BY <1>3, <1>4 DEF FreeList

-----------------------------------------------------------------------------
(* The operation table *)

OpTables(V) ==
  [entries : [Slots -> Entries(V)], len : Nat, next : Nat, gens : [Slots -> 1 .. GenerationMax]]

\* A key of the table that has been removed: its generation has passed, or was
\* the last one of its slot.
Spent(t, key) ==
  LET s == KeySlot(key) IN
  /\ IsOpKey(key) /\ s \in Slots /\ s < t.len
  /\ \/ KeyGeneration(key) < t.gens[s]
     \/ KeyGeneration(key) = t.gens[s] /\ t.entries[s] = Occupied(None)

\* The table before and after its five operations.
TableStep(V, t, u) ==
  \/ CanInsert(t) /\ \E v \in V : u = Insert(t, v)
  \/ \E key \in Nat : u = Remove(t, key)
  \/ \E key \in Nat, v \in V : Get(t, key) # None /\ u = Put(t, key, v)

\* Where a key that names something points.
LEMMA GetSlot ==
  ASSUME NEW V, NEW t \in OpTables(V), FreeList(t), NEW key \in Nat, Get(t, key) # None
  PROVE  LET s == KeySlot(key) IN
           /\ IsOpKey(key) /\ s \in Slots /\ s < t.len /\ t.gens[s] = KeyGeneration(key)
           /\ t.entries[s].occupied /\ t.entries[s].value = Get(t, key)
<1>1. IsOpKey(key) /\ KeySlot(key) < t.len /\ t.gens[KeySlot(key)] = KeyGeneration(key)
      /\ t.entries[KeySlot(key)].occupied /\ t.entries[KeySlot(key)].value = Get(t, key)
  BY DEF Get
<1>2. key % HalfWord \in 1 .. HalfWord - 1 BY <1>1, HalfWordAssumption DEF IsOpKey
<1>3. KeySlot(key) \in Slots
  BY <1>2, HalfWordAssumption DEF KeySlot, Slots, MaxCapacity, IndexMask
<1> QED BY <1>1, <1>3

\* An empty table has a sound free list.
LEMMA NewTableSound ==
  ASSUME NEW V
  PROVE  NewTable \in OpTables(V) /\ FreeList(NewTable)
<1> USE HalfWordAssumption DEF Slots, MaxCapacity, IndexMask, GenerationMax
<1>1. \A s \in Slots : Vacant(s) \in Entries(V) BY DEF Entries
<1>2. NewTable \in OpTables(V) BY <1>1 DEF NewTable, OpTables
<1>3. NewTable.len = 0 /\ NewTable.next = 0 BY DEF NewTable
<1>4. FreeList(NewTable) BY <1>3 DEF FreeList, Free
<1> QED BY <1>2, <1>4

\* Insert and remove keep the free list sound.
LEMMA TableStepKeeps ==
  ASSUME NEW V, None \in V, NEW t \in OpTables(V), FreeList(t), NEW u, TableStep(V, t, u)
  PROVE  u \in OpTables(V) /\ FreeList(u)
<1>0. \A v \in V : Occupied(v) \in Entries(V) BY DEF Entries
<1>00. \A n \in Nat : Vacant(n) \in Entries(V) BY DEF Entries
<1>1. ASSUME CanInsert(t), NEW v \in V, u = Insert(t, v) PROVE u \in OpTables(V) /\ FreeList(u)
  <2>1. /\ t.next \in Nat /\ t.len \in Nat /\ t.next < MaxCapacity
    BY <1>1 DEF OpTables, CanInsert
  <2>2. t.next \in Slots
    BY <2>1, HalfWordAssumption DEF Slots, MaxCapacity, IndexMask
  <2>3. /\ u.entries = [t.entries EXCEPT ![t.next] = Occupied(v)] /\ u.gens = t.gens
        /\ IF t.next = t.len THEN u.len = t.len + 1 /\ u.next = t.len + 1
                             ELSE u.len = t.len /\ u.next = t.entries[t.next].link
    BY <1>1 DEF Insert, SlabInsert, OpTables
  <2>4. FreeList(u) BY <2>1, <2>3, InsertKeepsFreeList DEF OpTables
  <2>5. u.next \in Nat /\ u.len \in Nat
    BY <2>4, HalfWordAssumption DEF FreeList, Free, Slots, MaxCapacity, IndexMask
  <2>6. u = [entries |-> u.entries, len |-> u.len, next |-> u.next, gens |-> u.gens]
    BY Zenon, Zenon, <1>1 DEF Insert, SlabInsert, OpTables
  <2>7. u.entries \in [Slots -> Entries(V)] BY <1>0, <2>2, <2>3 DEF OpTables
  <2> QED BY <2>3, <2>4, <2>5, <2>6, <2>7 DEF OpTables
<1>2. ASSUME NEW key \in Nat, u = Remove(t, key) PROVE u \in OpTables(V) /\ FreeList(u)
  <2>1. CASE Get(t, key) = None BY <1>2, <2>1 DEF Remove
  <2>2. CASE Get(t, key) # None
    <3> DEFINE s == KeySlot(key)
    <3>1. /\ s \in Slots /\ s < t.len /\ t.gens[s] = KeyGeneration(key) /\ t.entries[s].occupied
          /\ KeyGeneration(key) \in 1 .. GenerationMax
      BY <2>2, GetSlot DEF IsOpKey
    <3> HIDE DEF s
    <3>2. CASE KeyGeneration(key) >= GenerationMax
      <4>1. u = [t EXCEPT !.entries[s] = Occupied(None)] BY <1>2, <2>2, <3>2 DEF Remove, s
      <4>2. /\ u \in OpTables(V) /\ u.entries = [t.entries EXCEPT ![s] = Occupied(None)]
            /\ u.len = t.len /\ u.next = t.next
        BY <1>0, <3>1, <4>1 DEF OpTables
      <4> QED BY <3>1, <4>2, PutKeepsFreeList DEF OpTables
    <3>3. CASE ~(KeyGeneration(key) >= GenerationMax)
      <4>1. u = SlabRemove([t EXCEPT !.gens[s] = KeyGeneration(key) + 1], s)
        BY <1>2, <2>2, <3>3 DEF Remove, s
      <4>2. KeyGeneration(key) + 1 \in 1 .. GenerationMax
        BY <3>1, <3>3, HalfWordAssumption DEF GenerationMax, IndexMask
      <4>3. s \in Nat /\ Vacant(t.next) \in Entries(V)
        BY <1>00, <3>1, HalfWordAssumption DEF Slots, MaxCapacity, IndexMask, OpTables
      <4> DEFINE moved == [t EXCEPT !.gens[s] = KeyGeneration(key) + 1]
      <4>4. /\ moved \in OpTables(V) /\ moved.entries = t.entries
            /\ moved.len = t.len /\ moved.next = t.next
        BY <3>1, <4>2 DEF OpTables
      <4>5. u = SlabRemove(moved, s) BY <4>1
      <4> HIDE DEF moved
      <4>6. /\ u \in OpTables(V) /\ u.entries = [t.entries EXCEPT ![s] = Vacant(t.next)]
            /\ u.len = t.len /\ u.next = s
        BY Zenon, Zenon, <3>1, <4>3, <4>4, <4>5 DEF OpTables, SlabRemove
      <4> QED BY <3>1, <4>6, RemoveKeepsFreeList DEF OpTables
    <3> QED BY <3>2, <3>3
  <2> QED BY <2>1, <2>2
<1>3. ASSUME NEW key \in Nat, NEW v \in V, Get(t, key) # None, u = Put(t, key, v)
      PROVE  u \in OpTables(V) /\ FreeList(u)
  <2>1. KeySlot(key) \in Slots /\ t.entries[KeySlot(key)].occupied BY <1>3, GetSlot
  <2>2. /\ u \in OpTables(V) /\ u.entries = [t.entries EXCEPT ![KeySlot(key)] = Occupied(v)]
        /\ u.len = t.len /\ u.next = t.next
    BY <1>0, <1>3, <2>1 DEF OpTables, Put
  <2> QED BY <2>1, <2>2, PutKeepsFreeList DEF OpTables
<1> QED BY <1>1, <1>2, <1>3 DEF TableStep

\* What a step does to one slot: nothing, or a new value, or the next generation,
\* and only to a slot that is free or holds something.
LEMMA SlotStep ==
  ASSUME NEW V, None \in V, NEW t \in OpTables(V), FreeList(t), NEW u, TableStep(V, t, u),
         NEW s \in Slots, s < t.len
  PROVE  /\ s < u.len /\ u.gens[s] >= t.gens[s]
         /\ t.entries[s] = Occupied(None) => u.gens[s] = t.gens[s] /\ u.entries[s] = t.entries[s]
<1>0. t.gens[s] \in Int BY DEF OpTables
<1>1. ASSUME CanInsert(t), NEW v \in V, u = Insert(t, v)
      PROVE  /\ s < u.len /\ u.gens[s] = t.gens[s]
             /\ t.entries[s] = Occupied(None) => u.entries[s] = t.entries[s]
  <2>1. t.entries[s] = Occupied(None) => s # t.next BY DEF FreeList, Free, Occupied
  <2>2. s \in Nat /\ t.len \in Nat
    BY HalfWordAssumption DEF Slots, MaxCapacity, IndexMask, OpTables
  <2> QED BY <1>1, <2>1, <2>2 DEF Insert, SlabInsert, OpTables
<1>2. ASSUME NEW key \in Nat, u = Remove(t, key), Get(t, key) # None
      PROVE  /\ s < u.len /\ u.gens[s] >= t.gens[s]
             /\ t.entries[s] = Occupied(None) => u.gens[s] = t.gens[s] /\ u.entries[s] = t.entries[s]
  <2>1. /\ KeySlot(key) \in Slots /\ t.gens[KeySlot(key)] = KeyGeneration(key)
        /\ t.entries[KeySlot(key)].value # None
    BY <1>2, GetSlot
  <2>2. t.entries[s] = Occupied(None) => s # KeySlot(key) BY <2>1 DEF Occupied
  <2>3. CASE KeyGeneration(key) >= GenerationMax
    BY <1>0, <1>2, <2>1, <2>2, <2>3 DEF Remove, OpTables
  <2>4. CASE ~(KeyGeneration(key) >= GenerationMax)
    <3>1. u = SlabRemove([t EXCEPT !.gens[KeySlot(key)] = KeyGeneration(key) + 1], KeySlot(key))
      BY <1>2, <2>4 DEF Remove
    <3>2. /\ u.gens = [t.gens EXCEPT ![KeySlot(key)] = KeyGeneration(key) + 1]
          /\ u.len = t.len /\ u.entries = [t.entries EXCEPT ![KeySlot(key)] = Vacant(t.next)]
      BY <2>1, <3>1 DEF SlabRemove, OpTables
    <3> QED BY <1>0, <2>1, <2>2, <3>2 DEF OpTables
  <2> QED BY <2>3, <2>4
<1>3. ASSUME NEW key \in Nat, NEW v \in V, Get(t, key) # None, u = Put(t, key, v)
      PROVE  /\ s < u.len /\ u.gens[s] = t.gens[s]
             /\ t.entries[s] = Occupied(None) => u.entries[s] = t.entries[s]
  <2>1. KeySlot(key) \in Slots /\ t.entries[KeySlot(key)].value # None BY <1>3, GetSlot
  <2>2. t.entries[s] = Occupied(None) => s # KeySlot(key) BY <2>1 DEF Occupied
  <2> QED BY <1>3, <2>1, <2>2 DEF Put, OpTables
<1>4. ASSUME NEW key \in Nat, u = Remove(t, key), Get(t, key) = None PROVE u = t
  BY <1>4 DEF Remove
<1> QED BY <1>0, <1>1, <1>2, <1>3, <1>4 DEF TableStep

\* A removed key is spent (op_table.rs: remove bumps the generation or retires
\* the slot).
THEOREM RemovedIsSpent ==
  ASSUME NEW V, None \in V, NEW t \in OpTables(V), FreeList(t),
         NEW key \in Nat, Get(t, key) # None
  PROVE  Spent(Remove(t, key), key)
<1> DEFINE s == KeySlot(key)
<1>1. /\ IsOpKey(key) /\ s \in Slots /\ s < t.len /\ t.gens[s] = KeyGeneration(key)
  BY GetSlot
<1>2. CASE KeyGeneration(key) >= GenerationMax
  <2>1. Remove(t, key) = [t EXCEPT !.entries[s] = Occupied(None)] BY <1>2 DEF Remove
  <2> QED BY <1>1, <2>1 DEF Spent, OpTables
<1>3. CASE ~(KeyGeneration(key) >= GenerationMax)
  <2>1. Remove(t, key) = SlabRemove([t EXCEPT !.gens[s] = KeyGeneration(key) + 1], s)
    BY <1>3 DEF Remove
  <2>2. Remove(t, key).gens = [t.gens EXCEPT ![s] = KeyGeneration(key) + 1]
        /\ Remove(t, key).len = t.len
    BY <1>1, <2>1 DEF SlabRemove, OpTables
  <2>3. Remove(t, key).gens[s] = KeyGeneration(key) + 1 BY <1>1, <2>2 DEF OpTables
  <2>4. KeyGeneration(key) \in Int BY <1>1 DEF OpTables
  <2> QED BY <1>1, <2>2, <2>3, <2>4 DEF Spent
<1> QED BY <1>2, <1>3

\* A spent key names nothing, is not the key of the next insertion and stays spent
\* whatever is inserted, removed or replaced: a late completion never reaches
\* another operation (op_table.rs:207-215).
THEOREM SpentForEver ==
  ASSUME NEW V, None \in V, NEW t \in OpTables(V), FreeList(t), NEW key \in Nat, Spent(t, key)
  PROVE  /\ Get(t, key) = None
         /\ CanInsert(t) => NextKey(t) # key
         /\ \A u : TableStep(V, t, u) => Spent(u, key)
<1> DEFINE s == KeySlot(key)
<1>1. s \in Slots /\ s < t.len /\ t.gens[s] \in Int /\ KeyGeneration(key) \in Int
  BY HalfWordAssumption DEF Spent, OpTables, IsOpKey, GenerationMax, IndexMask
<1>2. Get(t, key) = None BY <1>1 DEF Get, Spent, Occupied
<1>3. ASSUME CanInsert(t) PROVE NextKey(t) # key
  <2>1. t.next \in Slots
    BY <1>3, HalfWordAssumption DEF CanInsert, OpTables, Slots, MaxCapacity, IndexMask
  <2>2. t.gens[t.next] \in 1 .. GenerationMax BY <2>1 DEF OpTables
  <2>3. /\ KeySlot(NextKey(t)) = t.next
        /\ KeyGeneration(NextKey(t)) = t.gens[t.next]
    BY <2>1, <2>2, KeysRoundTrip DEF NextKey
  <2>4. ASSUME NextKey(t) = key PROVE FALSE
    <3>1. t.next = s /\ t.gens[s] = KeyGeneration(key) BY <2>3, <2>4
    <3>2. t.entries[s].occupied BY <1>1, <3>1 DEF Spent, Occupied
    <3>3. t.next \in Free(t) BY <1>1, <3>1 DEF FreeList, OpTables
    <3> QED BY <3>1, <3>2, <3>3 DEF Free
  <2> QED BY <2>4
<1>4. ASSUME NEW u, TableStep(V, t, u) PROVE Spent(u, key)
  <2>1. /\ s < u.len /\ u.gens[s] >= t.gens[s]
        /\ t.entries[s] = Occupied(None) => u.gens[s] = t.gens[s] /\ u.entries[s] = t.entries[s]
    BY <1>1, <1>4, SlotStep
  <2>2. u.gens[s] \in Int BY <1>1, <1>4, TableStepKeeps DEF OpTables
  <2> QED BY <1>1, <2>1, <2>2 DEF Spent
<1> QED BY <1>2, <1>3, <1>4

-----------------------------------------------------------------------------
(* The scope registry *)

Ids(T) == [table : T, slot : Slots, generation : 1 .. ScopeGenerationMax]
Registries(T, W) ==
  [entries : [Slots -> Entries(ScopeStates(W))], len : Nat, next : Nat,
   gens : [Slots -> 1 .. ScopeGenerationMax],
   attachments : SUBSET (Nat \X Ids(T)), waiter : Nat, table : T]

\* An id `insert` has returned: its slot is in use, or has moved on.
Issued(rg, id) ==
  /\ id.table = rg.table /\ id.slot < rg.len /\ id.generation <= rg.gens[id.slot]
  /\ id.generation = rg.gens[id.slot] => rg.entries[id.slot].occupied

AttachedTo(rg, id) == {a[1] : a \in {x \in rg.attachments : x[2] = id}}

\* MapsAgree slot by slot, and the attachments of scopes to come are empty.
RegistryInv(rg) ==
  /\ FreeList(rg)
  /\ \A a \in rg.attachments : Issued(rg, a[2])
  /\ \A s \in Slots :
       s < rg.len /\ rg.entries[s].occupied /\ rg.entries[s].value.active =>
         rg.entries[s].value.ops = AttachedTo(rg, ScopeId(rg.table, s, rg.gens[s]))

\* A scope that has been cancelled or removed.
Gone(rg, id) == Issued(rg, id) /\ IsCancelled(rg, id)

\* What every operation of the registry must do.
Follows(T, W, rg, u) ==
  /\ u \in Registries(T, W) /\ RegistryInv(u)
  /\ \A id \in Ids(T) : Gone(rg, id) => Gone(u, id)

\* What an entry of a slab is, occupied or vacant.
LEMMA EntryTypes ==
  ASSUME NEW V
  PROVE  /\ \A v \in V : /\ Occupied(v) \in Entries(V) /\ Occupied(v).occupied
                         /\ Occupied(v).value = v
         /\ \A n \in Nat : Vacant(n) \in Entries(V) /\ ~Vacant(n).occupied
         /\ \A e \in Entries(V) : e.occupied => e.value \in V /\ e = Occupied(e.value)
<1>1. \A v \in V : Occupied(v) \in Entries(V) BY DEF Entries
<1>2. \A v : Occupied(v).occupied /\ Occupied(v).value = v BY DEF Occupied
<1>3. \A n \in Nat : Vacant(n) \in Entries(V) BY DEF Entries
<1>4. \A n : ~Vacant(n).occupied BY DEF Vacant
<1>5. ASSUME NEW e \in Entries(V), e.occupied PROVE e.value \in V /\ e = Occupied(e.value)
  <2>1. PICK v \in V : e = Occupied(v) BY <1>4, <1>5 DEF Entries
  <2> QED BY <1>2, <2>1
<1> QED BY <1>1, <1>2, <1>3, <1>4, <1>5

\* A scope id that finds a scope names its slot and generation.
LEMMA ScopeSlot ==
  ASSUME NEW T, NEW W, NEW rg \in Registries(T, W), NEW id \in Ids(T), GetScope(rg, id) # None
  PROVE  /\ id.slot \in Slots /\ id.slot < rg.len /\ id.generation = rg.gens[id.slot]
         /\ id.table = rg.table /\ id = ScopeId(rg.table, id.slot, rg.gens[id.slot])
         /\ rg.entries[id.slot].occupied /\ rg.entries[id.slot].value = GetScope(rg, id)
         /\ GetScope(rg, id) \in ScopeStates(W) /\ Issued(rg, id)
<1>1. /\ id.slot \in Slots /\ id.slot < rg.len /\ id.generation = rg.gens[id.slot]
      /\ id.table = rg.table /\ rg.entries[id.slot].occupied
      /\ rg.entries[id.slot].value = GetScope(rg, id)
  BY DEF GetScope, Ids
<1>2. GetScope(rg, id) \in ScopeStates(W) BY <1>1, EntryTypes DEF Registries
<1>3. id = ScopeId(rg.table, id.slot, rg.gens[id.slot]) BY <1>1 DEF Ids, ScopeId
<1>4. Issued(rg, id)
  <2>1. rg.gens[id.slot] \in Int BY <1>1 DEF Registries
  <2> QED BY <1>1, <2>1 DEF Issued
<1> QED BY <1>1, <1>2, <1>3, <1>4

\* In a sound registry the two maps agree.
LEMMA InvMeansAgree ==
  ASSUME NEW T, NEW W, NEW rg \in Registries(T, W), RegistryInv(rg)
  PROVE  MapsAgree(rg)
<1> SUFFICES ASSUME NEW id \in [table : {rg.table}, slot : Slots,
                                 generation : 1 .. ScopeGenerationMax], IsActive(rg, id)
             PROVE  GetScope(rg, id).ops = AttachedTo(rg, id)
  BY DEF MapsAgree, AttachedTo
<1>1. id \in Ids(T) BY DEF Ids, Registries
<1>2. GetScope(rg, id) # None /\ GetScope(rg, id).active BY DEF IsActive
<1> QED BY <1>1, <1>2, ScopeSlot DEF RegistryInv

\* What is gone stays gone when slots only move on, and those that do not keep
\* what is not active.
LEMMA GoneStays ==
  ASSUME NEW T, NEW W, NEW rg \in Registries(T, W), NEW u \in Registries(T, W),
         u.table = rg.table, rg.len <= u.len,
         \A s \in Slots : s < rg.len =>
           \/ u.gens[s] > rg.gens[s]
           \/ /\ u.gens[s] = rg.gens[s]
              /\ rg.entries[s].occupied =>
                   /\ u.entries[s].occupied
                   /\ \/ u.entries[s] = rg.entries[s]
                      \/ rg.entries[s].value # None /\ rg.entries[s].value.active,
         NEW id \in Ids(T), Gone(rg, id)
  PROVE  Gone(u, id)
<1>1. /\ id.slot \in Slots /\ id.generation \in Int /\ id.slot \in Int
      /\ rg.gens[id.slot] \in Int /\ u.gens[id.slot] \in Int /\ rg.len \in Int /\ u.len \in Int
  <2>1. id.slot \in Slots /\ id.generation \in Int BY DEF Ids
  <2>2. /\ rg.gens[id.slot] \in Int /\ u.gens[id.slot] \in Int
        /\ rg.len \in Int /\ u.len \in Int
    BY <2>1, HalfWordAssumption DEF Registries, MaxCapacity, IndexMask
  <2>3. id.slot \in Int BY <2>1, HalfWordAssumption DEF Slots, MaxCapacity, IndexMask
  <2> QED BY <2>1, <2>2, <2>3
<1>2. /\ id.table = rg.table /\ id.slot < rg.len /\ id.generation <= rg.gens[id.slot]
      /\ id.generation = rg.gens[id.slot] => rg.entries[id.slot].occupied
  BY DEF Gone, Issued
<1>3. CASE id.generation < u.gens[id.slot]
  <2>1. Issued(u, id) BY <1>1, <1>2, <1>3 DEF Issued
  <2>2. GetScope(u, id) = None BY <1>1, <1>3 DEF GetScope
  <2> QED BY <2>1, <2>2 DEF Gone, IsCancelled, IsActive
<1>4. CASE ~(id.generation < u.gens[id.slot])
  <2>1. id.generation = rg.gens[id.slot] /\ id.generation = u.gens[id.slot] BY <1>1, <1>2, <1>4
  <2>2. GetScope(rg, id) = rg.entries[id.slot].value BY <1>2, <2>1 DEF GetScope
  <2>3. ~(rg.entries[id.slot].value # None /\ rg.entries[id.slot].value.active)
    BY <2>2 DEF Gone, IsCancelled, IsActive
  <2>4. u.entries[id.slot] = rg.entries[id.slot] /\ u.entries[id.slot].occupied
    <3>1. ~(u.gens[id.slot] > rg.gens[id.slot]) BY <1>1, <2>1
    <3>2. rg.entries[id.slot].occupied BY <1>2, <2>1
    <3> QED BY <1>1, <1>2, <2>3, <3>1, <3>2, Zenon
  <2>5. Issued(u, id) BY <1>1, <1>2, <2>1, <2>4 DEF Issued
  <2>6. GetScope(u, id) = rg.entries[id.slot].value BY <1>1, <1>2, <2>1, <2>4 DEF GetScope
  <2> QED BY <2>3, <2>5, <2>6 DEF Gone, IsCancelled, IsActive
<1> QED BY <1>3, <1>4

\* A step that keeps the generations and only rewrites one active scope: its
\* operations stay the same, or it stops being active.
LEMMA RewriteKeeps ==
  ASSUME NEW T, NEW W, NEW rg \in Registries(T, W), RegistryInv(rg),
         NEW id \in Ids(T), IsActive(rg, id), NEW v \in ScopeStates(W),
         v.active => v.ops = GetScope(rg, id).ops,
         NEW n \in Nat, NEW u, u = [PutScope(rg, id, v) EXCEPT !.waiter = n]
  PROVE  Follows(T, W, rg, u)
<1>1. GetScope(rg, id) # None /\ GetScope(rg, id).active BY DEF IsActive
<1>2. /\ id.slot \in Slots /\ id.slot < rg.len /\ rg.entries[id.slot].occupied
      /\ rg.entries[id.slot].value = GetScope(rg, id)
  BY <1>1, ScopeSlot
<1>3. Occupied(v) \in Entries(ScopeStates(W)) /\ Occupied(v).occupied /\ Occupied(v).value = v
  BY EntryTypes
<1>4. /\ u \in Registries(T, W) /\ u.entries = [rg.entries EXCEPT ![id.slot] = Occupied(v)]
      /\ u.len = rg.len /\ u.next = rg.next /\ u.gens = rg.gens
      /\ u.attachments = rg.attachments /\ u.table = rg.table
  BY Zenon, Zenon, <1>2, <1>3 DEF PutScope, Registries
<1>5. FreeList(u) BY <1>2, <1>4, PutKeepsFreeList DEF Registries, RegistryInv
<1>6. \A s \in Slots : u.entries[s] = IF s = id.slot THEN Occupied(v) ELSE rg.entries[s]
  BY <1>2, <1>4 DEF Registries
<1>7. \A a \in u.attachments : Issued(u, a[2])
  BY <1>3, <1>4, <1>6 DEF RegistryInv, Issued, Registries, Ids
<1>8. \A i : AttachedTo(u, i) = AttachedTo(rg, i) BY <1>4 DEF AttachedTo
<1>9. ASSUME NEW s \in Slots, s < u.len, u.entries[s].occupied, u.entries[s].value.active
      PROVE  u.entries[s].value.ops = AttachedTo(u, ScopeId(u.table, s, u.gens[s]))
  BY <1>1, <1>2, <1>3, <1>4, <1>6, <1>8, <1>9 DEF RegistryInv
<1>10. RegistryInv(u) BY <1>5, <1>7, <1>9 DEF RegistryInv
<1>11. ASSUME NEW i \in Ids(T), Gone(rg, i) PROVE Gone(u, i)
  <2>1. \A s \in Slots : s < rg.len /\ rg.entries[s].occupied =>
          /\ u.entries[s].occupied
          /\ \/ u.entries[s] = rg.entries[s]
             \/ rg.entries[s].value # None /\ rg.entries[s].value.active
    BY <1>1, <1>2, <1>3, <1>6
  <2> QED BY <1>4, <1>11, <2>1, GoneStays DEF Registries
<1> QED BY <1>4, <1>10, <1>11 DEF Follows

\* cancel, subscribe and unsubscribe.
LEMMA CancelKeeps ==
  ASSUME NEW T, NEW W, NEW rg \in Registries(T, W), RegistryInv(rg), NEW id \in Ids(T)
  PROVE  Follows(T, W, rg, MarkCancelled(rg, id))
<1>1. CASE ~IsActive(rg, id) BY <1>1 DEF MarkCancelled, Follows
<1>2. CASE IsActive(rg, id)
  <2>1. CancelledScope \in ScopeStates(W) /\ ~CancelledScope.active
    BY DEF CancelledScope, ScopeStates
  <2>2. /\ PutScope(rg, id, CancelledScope)
             = [PutScope(rg, id, CancelledScope) EXCEPT !.waiter = rg.waiter]
        /\ rg.waiter \in Nat
    BY Zenon, Zenon DEF PutScope, Registries
  <2> QED BY <1>2, <2>1, <2>2, RewriteKeeps DEF MarkCancelled
<1> QED BY <1>1, <1>2

\* A waiter subscribes.
LEMMA SubscribeKeeps ==
  ASSUME NEW T, NEW W, NEW rg \in Registries(T, W), RegistryInv(rg), NEW id \in Ids(T),
         NEW registration, NEW waker \in W
  PROVE  Follows(T, W, rg, Subscribe(rg, id, registration, waker).sc)
<1>1. CASE ~IsActive(rg, id)
  <2> DEFINE u == IF registration = None THEN [rg EXCEPT !.waiter = @ + 1] ELSE rg
  <2>1. Subscribe(rg, id, registration, waker).sc = u BY <1>1 DEF Subscribe, IsCancelled
  <2>2. /\ u \in Registries(T, W) /\ u.entries = rg.entries /\ u.len = rg.len
        /\ u.next = rg.next /\ u.gens = rg.gens /\ u.attachments = rg.attachments
        /\ u.table = rg.table
    BY DEF Registries
  <2> HIDE DEF u
  <2>3. RegistryInv(u) BY <2>2 DEF RegistryInv, FreeList, Free, Issued, AttachedTo
  <2>4. \A i : Gone(rg, i) => Gone(u, i)
    BY <2>2 DEF Gone, Issued, IsCancelled, IsActive, GetScope
  <2> QED BY <2>1, <2>2, <2>3, <2>4 DEF Follows
<1>2. CASE IsActive(rg, id)
  <2> DEFINE old == GetScope(rg, id)
             known == IsActive(rg, id) /\ \E w \in old.waiters : w.registration = registration
             reg == IF known THEN registration ELSE rg.waiter
             others == {w \in old.waiters : w.registration # reg}
             v == [old EXCEPT !.waiters = others \cup {Waiter(reg, waker)}]
             n == IF known THEN rg.waiter ELSE rg.waiter + 1
             u == [PutScope(rg, id, v) EXCEPT !.waiter = n]
  <2>1. Subscribe(rg, id, registration, waker).sc = u
    BY <1>2 DEF Subscribe, IsCancelled, PutScope, Registries
  <2>2. old \in ScopeStates(W) BY <1>2, ScopeSlot DEF IsActive
  <2>3. n \in Nat BY DEF Registries
  <2>4. v \in ScopeStates(W) /\ v.ops = old.ops
    <3>1. reg \in Nat BY <2>2 DEF ScopeStates, Registries
    <3> HIDE DEF reg
    <3>2. Waiter(reg, waker) \in [registration : Nat, waker : W] BY <3>1 DEF Waiter
    <3> QED BY <2>2, <3>2 DEF ScopeStates
  <2> HIDE DEF v, n, old
  <2> QED BY <1>2, <2>1, <2>3, <2>4, RewriteKeeps DEF old
<1> QED BY <1>1, <1>2

\* A waiter unsubscribes.
LEMMA UnsubscribeKeeps ==
  ASSUME NEW T, NEW W, NEW rg \in Registries(T, W), RegistryInv(rg), NEW id \in Ids(T),
         NEW registration
  PROVE  Follows(T, W, rg, Unsubscribe(rg, id, registration))
<1>1. CASE ~IsActive(rg, id) BY <1>1 DEF Unsubscribe, IsCancelled, Follows
<1>2. CASE IsActive(rg, id)
  <2> DEFINE old == GetScope(rg, id)
             v == [old EXCEPT !.waiters = {w \in @ : w.registration # registration}]
  <2>1. old \in ScopeStates(W) BY <1>2, ScopeSlot DEF IsActive
  <2>2. v \in ScopeStates(W) /\ v.ops = old.ops BY <2>1 DEF ScopeStates
  <2>3. Unsubscribe(rg, id, registration) = PutScope(rg, id, v)
    BY <1>2 DEF Unsubscribe, IsCancelled
  <2> HIDE DEF v
  <2>4. PutScope(rg, id, v) = [PutScope(rg, id, v) EXCEPT !.waiter = rg.waiter] /\ rg.waiter \in Nat
    BY Zenon, Zenon DEF PutScope, Registries
  <2> QED BY <1>2, <2>2, <2>3, <2>4, RewriteKeeps
<1> QED BY <1>1, <1>2

\* A scope is created.
LEMMA InsertScopeKeeps ==
  ASSUME NEW T, NEW W, NEW rg \in Registries(T, W), RegistryInv(rg), CanInsertScope(rg)
  PROVE  Follows(T, W, rg, InsertScope(rg))
<1> DEFINE u == InsertScope(rg)
           p == rg.next
           v == ActiveScope({}, {})
<1>1. v \in ScopeStates(W) /\ v.ops = {} BY DEF ActiveScope, ScopeStates
<1>2. Occupied(v) \in Entries(ScopeStates(W)) /\ Occupied(v).occupied /\ Occupied(v).value = v
  BY Zenon, Zenon, <1>1, EntryTypes
<1>3. p \in Slots /\ p \in Nat /\ rg.len \in Nat
  BY HalfWordAssumption DEF CanInsertScope, Registries, Slots, MaxCapacity, IndexMask
<1> HIDE DEF v
<1>4. u = SlabInsert(rg, v) BY DEF InsertScope, v
<1> HIDE DEF u
<1>5. /\ u.entries = [rg.entries EXCEPT ![p] = Occupied(v)] /\ u.gens = rg.gens
      /\ u.attachments = rg.attachments /\ u.table = rg.table /\ u.waiter = rg.waiter
      /\ IF rg.next = rg.len THEN u.len = rg.len + 1 /\ u.next = rg.len + 1
                             ELSE u.len = rg.len /\ u.next = rg.entries[rg.next].link
      /\ u = [entries |-> u.entries, len |-> u.len, next |-> u.next, gens |-> u.gens,
              attachments |-> u.attachments, waiter |-> u.waiter, table |-> u.table]
  BY Zenon, Zenon, <1>4 DEF SlabInsert, Registries
<1>6. FreeList(u)
  <2>1. rg.next < MaxCapacity BY DEF CanInsertScope
  <2>2. rg.entries \in [Slots -> Entries(ScopeStates(W))] BY DEF Registries
  <2>3. FreeList(rg) BY DEF RegistryInv
  <2>4. /\ u.entries = [rg.entries EXCEPT ![rg.next] = Occupied(v)]
        /\ IF rg.next = rg.len THEN u.len = rg.len + 1 /\ u.next = rg.len + 1
                               ELSE u.len = rg.len /\ u.next = rg.entries[rg.next].link
    BY <1>5
  <2> QED BY <1>1, <2>1, <2>2, <2>3, <2>4, InsertKeepsFreeList
<1>7. u.next \in Nat /\ u.len \in Nat
  BY <1>6, HalfWordAssumption DEF FreeList, Free, Slots, MaxCapacity, IndexMask
<1>8. u \in Registries(T, W) BY <1>2, <1>3, <1>5, <1>7 DEF Registries
<1>9. /\ rg.len <= u.len /\ \A s \in Slots : s < u.len => s < rg.len \/ s = p
      /\ \A s \in Slots : u.entries[s] = IF s = p THEN Occupied(v) ELSE rg.entries[s]
  BY <1>3, <1>5, HalfWordAssumption DEF Slots, MaxCapacity, IndexMask, Registries
<1>10. p < rg.len => ~rg.entries[p].occupied BY <1>3 DEF RegistryInv, FreeList, Free
<1>11. AttachedTo(u, ScopeId(u.table, p, u.gens[p])) = {}
  <2>1. ASSUME NEW a \in rg.attachments, a[2] = ScopeId(rg.table, p, rg.gens[p]) PROVE FALSE
    <3>1. a[2].slot = p /\ a[2].generation = rg.gens[p] BY <2>1 DEF ScopeId
    <3>2. p < rg.len /\ rg.entries[p].occupied BY <3>1 DEF RegistryInv, Issued
    <3> QED BY <1>10, <3>2
  <2> QED BY <1>5, <2>1 DEF AttachedTo
<1>12. \A i : AttachedTo(u, i) = AttachedTo(rg, i) BY <1>5 DEF AttachedTo
<1>13. \A s \in Slots : s < rg.len /\ rg.entries[s].occupied => u.entries[s] = rg.entries[s]
  BY <1>9, <1>10
<1>14. \A a \in u.attachments : Issued(u, a[2])
  <2> SUFFICES ASSUME NEW a \in rg.attachments PROVE Issued(u, a[2])
    BY <1>5
  <2>1. a[2] \in Ids(T) /\ Issued(rg, a[2]) BY DEF RegistryInv, Registries
  <2>2. a[2].slot \in Nat /\ a[2].slot \in Slots
    BY <2>1, HalfWordAssumption DEF Ids, Slots, MaxCapacity, IndexMask
  <2> QED BY <1>3, <1>5, <1>7, <1>9, <1>13, <2>1, <2>2 DEF Issued
<1>15. ASSUME NEW s \in Slots, s < u.len, u.entries[s].occupied, u.entries[s].value.active
      PROVE  u.entries[s].value.ops = AttachedTo(u, ScopeId(u.table, s, u.gens[s]))
  <2>1. CASE s = p BY <1>1, <1>2, <1>9, <1>11, <2>1
  <2>2. CASE s # p BY <1>5, <1>9, <1>12, <1>15, <2>2 DEF RegistryInv
  <2> QED BY <2>1, <2>2
<1>16. RegistryInv(u) BY <1>6, <1>14, <1>15 DEF RegistryInv
<1>17. ASSUME NEW i \in Ids(T), Gone(rg, i) PROVE Gone(u, i)
  BY Zenon, Zenon, <1>5, <1>8, <1>9, <1>13, <1>17, GoneStays
<1> QED BY <1>8, <1>16, <1>17 DEF Follows, u

\* A scope is removed.
LEMMA RemoveScopeKeeps ==
  ASSUME NEW T, NEW W, NEW rg \in Registries(T, W), RegistryInv(rg), NEW id \in Ids(T)
  PROVE  Follows(T, W, rg, RemoveScope(rg, id))
<1> DEFINE c == MarkCancelled(rg, id)
           u == RemoveScope(rg, id)
<1>0. Follows(T, W, rg, c) BY CancelKeeps
<1>00. c \in Registries(T, W) /\ RegistryInv(c) BY <1>0 DEF Follows
<1>1. CASE GetScope(c, id) = None \/ id.generation >= ScopeGenerationMax
  BY <1>0, <1>1 DEF RemoveScope
<1>2. CASE ~(GetScope(c, id) = None \/ id.generation >= ScopeGenerationMax)
  <2> DEFINE p == id.slot
             g == id.generation
  <2>1. u = [SlabRemove(c, p) EXCEPT !.gens[p] = g + 1] BY <1>2 DEF RemoveScope
  <2> HIDE DEF u, c
  <2>2. /\ p \in Slots /\ p < c.len /\ g = c.gens[p] /\ c.entries[p].occupied
    BY <1>00, <1>2, ScopeSlot
  <2>3. g \in 1 .. ScopeGenerationMax /\ g + 1 \in 1 .. ScopeGenerationMax /\ p \in Nat
    BY <1>2, <2>2, ScopeGenerationAssumption, HalfWordAssumption
    DEF Ids, Slots, MaxCapacity, IndexMask
  <2> HIDE DEF p, g
  <2>4. c.next \in Nat /\ Vacant(c.next) \in Entries(ScopeStates(W)) /\ ~Vacant(c.next).occupied
    BY <1>00, EntryTypes DEF Registries
  <2>5. /\ u \in Registries(T, W) /\ u.entries = [c.entries EXCEPT ![p] = Vacant(c.next)]
        /\ u.gens = [c.gens EXCEPT ![p] = g + 1] /\ u.len = c.len /\ u.next = p
        /\ u.attachments = c.attachments /\ u.table = c.table
    BY Zenon, Zenon, <1>00, <2>1, <2>2, <2>3, <2>4 DEF SlabRemove, Registries
  <2>6. FreeList(u) BY <1>00, <2>2, <2>5, RemoveKeepsFreeList DEF Registries, RegistryInv
  <2>7. \A s \in Slots : /\ u.entries[s] = IF s = p THEN Vacant(c.next) ELSE c.entries[s]
                         /\ u.gens[s] = IF s = p THEN c.gens[s] + 1 ELSE c.gens[s]
                         /\ c.gens[s] \in Int
    BY <1>00, <2>2, <2>5 DEF Registries
  <2>8. \A a \in u.attachments : Issued(u, a[2])
    <3> SUFFICES ASSUME NEW a \in c.attachments PROVE Issued(u, a[2])
      BY <2>5
    <3>1. a[2] \in Ids(T) /\ Issued(c, a[2]) BY <1>00 DEF RegistryInv, Registries
    <3>2. a[2].slot \in Slots /\ a[2].generation \in Int BY <3>1 DEF Ids
    <3> QED BY <2>5, <2>7, <3>1, <3>2 DEF Issued
  <2>9. \A i : AttachedTo(u, i) = AttachedTo(c, i) BY <2>5 DEF AttachedTo
  <2>10. ASSUME NEW s \in Slots, s < u.len, u.entries[s].occupied, u.entries[s].value.active
         PROVE  u.entries[s].value.ops = AttachedTo(u, ScopeId(u.table, s, u.gens[s]))
    <3>1. s # p BY <2>4, <2>7, <2>10
    <3> QED BY <1>00, <2>5, <2>7, <2>9, <2>10, <3>1 DEF RegistryInv
  <2>11. RegistryInv(u) BY <2>6, <2>8, <2>10 DEF RegistryInv
  <2>12. ASSUME NEW i \in Ids(T), Gone(c, i) PROVE Gone(u, i)
    <3>1. c.len <= u.len BY <1>00, <2>5 DEF Registries
    <3>2. \A s \in Slots : u.gens[s] > c.gens[s] \/ (u.gens[s] = c.gens[s] /\ u.entries[s] = c.entries[s])
      BY <2>7
    <3> QED BY Zenon, Zenon, <1>00, <2>5, <2>12, <3>1, <3>2, GoneStays
  <2> QED BY <1>0, <2>5, <2>11, <2>12 DEF Follows, u
<1> QED BY <1>1, <1>2

\* An operation is attached to a scope.
LEMMA AttachKeeps ==
  ASSUME NEW T, NEW W, NEW rg \in Registries(T, W), RegistryInv(rg), NEW id \in Ids(T),
         NEW key \in Nat
  PROVE  Follows(T, W, rg, Attach(rg, id, key))
<1>1. CASE ~IsActive(rg, id) BY <1>1 DEF Attach, IsCancelled, Follows
<1>2. CASE IsActive(rg, id)
  <2> DEFINE old == GetScope(rg, id)
             v == [old EXCEPT !.ops = @ \cup {key}]
             u == [PutScope(rg, id, v) EXCEPT !.attachments = @ \cup {<<key, id>>}]
             p == id.slot
  <2>1. Attach(rg, id, key) = u BY <1>2 DEF Attach, IsCancelled
  <2>2. old # None /\ old.active BY <1>2 DEF IsActive
  <2>3. /\ p \in Slots /\ p < rg.len /\ id = ScopeId(rg.table, p, rg.gens[p])
        /\ rg.entries[p].occupied /\ rg.entries[p].value = old
        /\ old \in ScopeStates(W) /\ Issued(rg, id)
    BY <2>2, ScopeSlot
  <2>4. v \in ScopeStates(W) /\ v.ops = old.ops \cup {key} BY <2>3 DEF ScopeStates
  <2> HIDE DEF v, old
  <2>5. Occupied(v) \in Entries(ScopeStates(W)) /\ Occupied(v).occupied /\ Occupied(v).value = v
    BY <2>4, EntryTypes
  <2>6. /\ u.entries = [rg.entries EXCEPT ![p] = Occupied(v)]
        /\ u.len = rg.len /\ u.next = rg.next /\ u.gens = rg.gens /\ u.table = rg.table
        /\ u.attachments = rg.attachments \cup {<<key, id>>}
        /\ u \in Registries(T, W)
    <3>1. <<key, id>> \in Nat \X Ids(T) OBVIOUS
    <3>2. /\ PutScope(rg, id, v) \in Registries(T, W)
          /\ PutScope(rg, id, v) = [rg EXCEPT !.entries = [rg.entries EXCEPT ![p] = Occupied(v)]]
      BY <2>3, <2>5 DEF PutScope, Registries
    <3> QED BY Zenon, Zenon, <3>1, <3>2 DEF Registries
  <2> HIDE DEF u
  <2>7. FreeList(u) BY <2>3, <2>4, <2>6, PutKeepsFreeList DEF Registries, RegistryInv
  <2>8. \A s \in Slots : u.entries[s] = IF s = p THEN Occupied(v) ELSE rg.entries[s]
    BY <2>3, <2>6 DEF Registries
  <2>9. \A i \in Ids(T) : Issued(rg, i) => Issued(u, i)
    BY <2>5, <2>6, <2>8 DEF Issued, Ids
  <2>10. \A a \in u.attachments : Issued(u, a[2])
    BY <2>3, <2>6, <2>9 DEF RegistryInv, Registries
  <2>11. /\ AttachedTo(u, id) = AttachedTo(rg, id) \cup {key}
         /\ \A i : i # id => AttachedTo(u, i) = AttachedTo(rg, i)
    <3>1. <<key, id>>[1] = key /\ <<key, id>>[2] = id OBVIOUS
    <3>2. \A i : {x \in u.attachments : x[2] = i} =
                {x \in rg.attachments : x[2] = i} \cup (IF i = id THEN {<<key, id>>} ELSE {})
      BY <2>6, <3>1
    <3>3. \A A : {a[1] : a \in A \cup {<<key, id>>}} = {a[1] : a \in A} \cup {key}
      BY Zenon, Zenon, <3>1
    <3>4. {x \in u.attachments : x[2] = id} = {x \in rg.attachments : x[2] = id} \cup {<<key, id>>}
      BY <3>2
    <3>5. AttachedTo(u, id) = AttachedTo(rg, id) \cup {key} BY <3>3, <3>4, Zenon DEF AttachedTo
    <3>6. ASSUME NEW i, i # id PROVE AttachedTo(u, i) = AttachedTo(rg, i)
      <4>1. {x \in u.attachments : x[2] = i} = {x \in rg.attachments : x[2] = i} BY <3>2, <3>6
      <4> QED BY <4>1, Zenon DEF AttachedTo
    <3> QED BY <3>5, <3>6
  <2>12. ASSUME NEW s \in Slots, s < u.len, u.entries[s].occupied, u.entries[s].value.active
         PROVE  u.entries[s].value.ops = AttachedTo(u, ScopeId(u.table, s, u.gens[s]))
    <3>1. CASE s = p
      <4>1. old.ops = AttachedTo(rg, id) BY <2>2, <2>3 DEF RegistryInv, old
      <4>2. u.entries[s].value = v BY <2>5, <2>8, <3>1
      <4>3. ScopeId(u.table, s, u.gens[s]) = id BY <2>3, <2>6, <3>1
      <4> QED BY <2>4, <2>11, <4>1, <4>2, <4>3, Zenon
    <3>2. CASE s # p
      <4>1. ScopeId(rg.table, s, rg.gens[s]) # id BY <3>2 DEF ScopeId
      <4> QED BY <2>6, <2>8, <2>11, <2>12, <3>2, <4>1 DEF RegistryInv
    <3> QED BY <3>1, <3>2
  <2>13. RegistryInv(u) BY <2>7, <2>10, <2>12 DEF RegistryInv
  <2>14. ASSUME NEW i \in Ids(T), Gone(rg, i) PROVE Gone(u, i)
    <3>1. \A s \in Slots : s < rg.len /\ rg.entries[s].occupied =>
            /\ u.entries[s].occupied
            /\ \/ u.entries[s] = rg.entries[s]
               \/ rg.entries[s].value # None /\ rg.entries[s].value.active
      BY <2>2, <2>3, <2>5, <2>8 DEF old
    <3> QED BY <2>6, <2>14, <3>1, GoneStays DEF Registries
  <2> QED BY <2>1, <2>6, <2>13, <2>14 DEF Follows
<1> QED BY <1>1, <1>2

\* An operation is detached.
LEMMA DetachKeeps ==
  ASSUME NEW T, NEW W, NEW rg \in Registries(T, W), RegistryInv(rg), NEW key \in Nat,
         None \notin ScopeStates(W)
  PROVE  Follows(T, W, rg, Detach(rg, key))
<1> DEFINE u == Detach(rg, key)
           Hit(s) == \E a \in rg.attachments :
                       a[1] = key /\ a[2].slot = s /\ IsActive(rg, a[2])
           Less(s) == [rg.entries[s].value EXCEPT !.ops = @ \ {key}]
           Of(s) == ScopeId(rg.table, s, rg.gens[s])
<1>1. ASSUME NEW s \in Slots, Hit(s)
      PROVE  /\ s < rg.len /\ rg.entries[s].occupied /\ rg.entries[s].value \in ScopeStates(W)
             /\ rg.entries[s].value # None /\ rg.entries[s].value.active
  <2>1. PICK a \in rg.attachments : a[1] = key /\ a[2].slot = s /\ IsActive(rg, a[2]) BY <1>1
  <2>2. a[2] \in Ids(T) BY DEF Registries
  <2> QED BY <2>1, <2>2, ScopeSlot DEF IsActive
<1>2. ASSUME NEW s \in Slots, s < rg.len, rg.entries[s].occupied,
             rg.entries[s].value # None, rg.entries[s].value.active
      PROVE  Hit(s) <=> \E a \in rg.attachments : a[1] = key /\ a[2] = Of(s)
  <2>1. /\ Of(s).table = rg.table /\ Of(s).slot = s /\ Of(s).generation = rg.gens[s]
    BY DEF ScopeId
  <2>2. GetScope(rg, Of(s)) = rg.entries[s].value BY <1>2, <2>1 DEF GetScope
  <2>3. IsActive(rg, Of(s)) BY <1>2, <2>2 DEF IsActive
  <2>4. \A a \in rg.attachments : a[2].slot = s /\ IsActive(rg, a[2]) => a[2] = Of(s)
    <3> SUFFICES ASSUME NEW a \in rg.attachments, a[2].slot = s, IsActive(rg, a[2])
                 PROVE  a[2] = Of(s)
      OBVIOUS
    <3>1. a[2] \in Ids(T) BY DEF Registries
    <3> QED BY <3>1, ScopeSlot DEF IsActive
  <2> QED BY <2>1, <2>3, <2>4
<1> HIDE DEF Hit
<1>3. ASSUME NEW s \in Slots, Hit(s)
      PROVE  /\ Less(s) \in ScopeStates(W) /\ Less(s).ops = rg.entries[s].value.ops \ {key}
             /\ Less(s).active = rg.entries[s].value.active
             /\ Occupied(Less(s)) \in Entries(ScopeStates(W))
             /\ Occupied(Less(s)).occupied /\ Occupied(Less(s)).value = Less(s)
  <2>1. rg.entries[s].value \in ScopeStates(W) BY <1>1, <1>3
  <2>2. /\ Less(s) \in ScopeStates(W) /\ Less(s).ops = rg.entries[s].value.ops \ {key}
        /\ Less(s).active = rg.entries[s].value.active
    BY <2>1 DEF ScopeStates
  <2> QED BY <2>2, EntryTypes
<1>4. u = [rg EXCEPT !.attachments = {a \in @ : a[1] # key},
                     !.entries = [s \in Slots |-> IF Hit(s) THEN Occupied(Less(s)) ELSE rg.entries[s]]]
  BY DEF Detach, Hit
<1> HIDE DEF u, Less, Of
<1>5. /\ u.attachments = {a \in rg.attachments : a[1] # key}
      /\ u.entries = [s \in Slots |-> IF Hit(s) THEN Occupied(Less(s)) ELSE rg.entries[s]]
      /\ u.len = rg.len /\ u.next = rg.next /\ u.gens = rg.gens /\ u.table = rg.table
      /\ u \in Registries(T, W)
  <2>1. [s \in Slots |-> IF Hit(s) THEN Occupied(Less(s)) ELSE rg.entries[s]]
          \in [Slots -> Entries(ScopeStates(W))]
    BY <1>3 DEF Registries
  <2> QED BY Zenon, Zenon, <1>4, <2>1 DEF Registries
<1>6. \A s \in Slots : /\ u.entries[s] = IF Hit(s) THEN Occupied(Less(s)) ELSE rg.entries[s]
                       /\ u.entries[s].occupied <=> rg.entries[s].occupied
  BY <1>1, <1>3, <1>5
<1>7. FreeList(u)
  <2>1. Free(u) = Free(rg) BY <1>5, <1>6 DEF Free
  <2>2. \A s \in Free(rg) : u.entries[s] = rg.entries[s] BY <1>1, <1>6 DEF Free
  <2> QED BY Zenon, Zenon, <1>5, <2>1, <2>2 DEF FreeList, RegistryInv
<1>8. \A a \in u.attachments : Issued(u, a[2])
  <2> SUFFICES ASSUME NEW a \in rg.attachments PROVE Issued(u, a[2])
    BY <1>5
  <2>1. a[2].slot \in Slots /\ Issued(rg, a[2]) BY DEF RegistryInv, Registries, Ids
  <2> QED BY <1>5, <1>6, <2>1 DEF Issued
<1>9. \A i : AttachedTo(u, i) = AttachedTo(rg, i) \ {key} BY <1>5 DEF AttachedTo
<1>10. ASSUME NEW s \in Slots, s < u.len, u.entries[s].occupied, u.entries[s].value.active
       PROVE  u.entries[s].value.ops = AttachedTo(u, ScopeId(u.table, s, u.gens[s]))
  <2>0. u.table = rg.table /\ u.gens[s] = rg.gens[s] /\ s < rg.len /\ rg.entries[s].occupied
    BY <1>5, <1>6, <1>10
  <2>1. CASE Hit(s)
    <3>1. rg.entries[s].value.ops = AttachedTo(rg, Of(s))
      BY <1>1, <2>1 DEF RegistryInv, Of
    <3>2. u.entries[s].value = Less(s) BY <1>3, <1>6, <2>1
    <3>3. Less(s).ops = AttachedTo(rg, Of(s)) \ {key} BY <1>3, <2>1, <3>1
    <3>4. ScopeId(u.table, s, u.gens[s]) = Of(s) BY <2>0 DEF Of
    <3> QED BY <1>9, <3>2, <3>3, <3>4
  <2>2. CASE ~Hit(s)
    <3>1. u.entries[s].value = rg.entries[s].value BY <1>6, <2>2
    <3>2. rg.entries[s].value.ops = AttachedTo(rg, Of(s))
      BY <1>10, <2>0, <3>1 DEF RegistryInv, Of
    <3>3. rg.entries[s].value # None
      BY <2>0, EntryTypes DEF Registries
    <3>4. key \notin AttachedTo(rg, Of(s))
      BY <1>2, <1>10, <2>0, <2>2, <3>1, <3>3 DEF AttachedTo
    <3>5. AttachedTo(rg, Of(s)) \ {key} = AttachedTo(rg, Of(s)) BY <3>4
    <3> QED BY <1>9, <2>0, <3>1, <3>2, <3>5 DEF Of
  <2> QED BY <2>1, <2>2
<1>11. RegistryInv(u) BY <1>7, <1>8, <1>10 DEF RegistryInv
<1>12. ASSUME NEW i \in Ids(T), Gone(rg, i) PROVE Gone(u, i)
  <2>1. rg.len <= u.len BY <1>5 DEF Registries
  <2>2. \A s \in Slots : s < rg.len /\ rg.entries[s].occupied =>
            /\ u.entries[s].occupied
            /\ \/ u.entries[s] = rg.entries[s]
               \/ rg.entries[s].value # None /\ rg.entries[s].value.active
    BY <1>1, <1>6
  <2> QED BY <1>5, <1>12, <2>1, <2>2, GoneStays
<1> QED BY <1>5, <1>11, <1>12 DEF Follows, u

-----------------------------------------------------------------------------
\* The registry before and after one of its operations.
ScopeStep(T, W, rg, u) ==
  \/ CanInsertScope(rg) /\ u = InsertScope(rg)
  \/ \E key \in Nat : u = Detach(rg, key)
  \/ \E id \in Ids(T) :
       \/ u = MarkCancelled(rg, id) \/ u = RemoveScope(rg, id)
       \/ \E key \in Nat : u = Attach(rg, id, key)
       \/ \E registration \in Nat \cup {None} :
            \/ \E waker \in W : u = Subscribe(rg, id, registration, waker).sc
            \/ u = Unsubscribe(rg, id, registration)

\* Every operation of the registry keeps the invariant and leaves what is gone gone.
LEMMA ScopeStepFollows ==
  ASSUME NEW T, NEW W, None \notin ScopeStates(W),
         NEW rg \in Registries(T, W), RegistryInv(rg), NEW u, ScopeStep(T, W, rg, u)
  PROVE  Follows(T, W, rg, u)
<1>1. CASE CanInsertScope(rg) /\ u = InsertScope(rg) BY <1>1, InsertScopeKeeps
<1>2. CASE \E key \in Nat : u = Detach(rg, key) BY <1>2, DetachKeeps
<1>3. ASSUME NEW id \in Ids(T), u = MarkCancelled(rg, id) \/ u = RemoveScope(rg, id)
      PROVE  Follows(T, W, rg, u)
  BY <1>3, CancelKeeps, RemoveScopeKeeps
<1>4. ASSUME NEW id \in Ids(T), NEW key \in Nat, u = Attach(rg, id, key)
      PROVE  Follows(T, W, rg, u)
  BY <1>4, AttachKeeps
<1>5. ASSUME NEW id \in Ids(T), NEW registration \in Nat \cup {None},
             \/ \E waker \in W : u = Subscribe(rg, id, registration, waker).sc
             \/ u = Unsubscribe(rg, id, registration)
      PROVE  Follows(T, W, rg, u)
  BY <1>5, SubscribeKeeps, UnsubscribeKeeps
<1> QED BY <1>1, <1>2, <1>3, <1>4, <1>5, Zenon DEF ScopeStep

\* The empty registry is sound, and so is every registry an operation leaves: an
\* active scope lists exactly the operations whose attachments name it
\* (scopes.rs: attach, detach, cancel, remove).
THEOREM MapsStayExact ==
  ASSUME NEW T, NEW W, None \notin ScopeStates(W)
  PROVE  /\ \A table \in T : /\ NewScopes(table) \in Registries(T, W)
                             /\ RegistryInv(NewScopes(table)) /\ MapsAgree(NewScopes(table))
         /\ \A rg \in Registries(T, W) : \A u :
              RegistryInv(rg) /\ ScopeStep(T, W, rg, u) =>
                u \in Registries(T, W) /\ RegistryInv(u) /\ MapsAgree(u)
<1>1. ASSUME NEW table \in T
      PROVE  NewScopes(table) \in Registries(T, W) /\ RegistryInv(NewScopes(table))
  <2> DEFINE rg == NewScopes(table)
  <2> USE HalfWordAssumption, ScopeGenerationAssumption DEF Slots, MaxCapacity, IndexMask
  <2>1. \A s \in Slots : Vacant(s) \in Entries(ScopeStates(W)) BY EntryTypes
  <2>2. rg \in Registries(T, W) BY <2>1 DEF NewScopes, Registries
  <2>3. rg.len = 0 /\ rg.next = 0 /\ rg.attachments = {} BY DEF NewScopes
  <2>4. FreeList(rg) BY <2>3 DEF FreeList, Free
  <2>5. RegistryInv(rg) BY <2>3, <2>4 DEF RegistryInv
  <2> QED BY <2>2, <2>5
<1>2. ASSUME NEW rg \in Registries(T, W), NEW u, RegistryInv(rg), ScopeStep(T, W, rg, u)
      PROVE  u \in Registries(T, W) /\ RegistryInv(u)
  BY <1>2, ScopeStepFollows DEF Follows
<1> QED BY <1>1, <1>2, InvMeansAgree

\* A scope that was cancelled or removed never looks active again, and its second
\* cancellation finds nothing to do, however its slot is used afterwards
\* (scopes.rs: is_cancelled, cancel, and the generation of the slot).
THEOREM CancelledForEver ==
  ASSUME NEW T, NEW W, None \notin ScopeStates(W),
         NEW rg \in Registries(T, W), RegistryInv(rg), NEW id \in Ids(T)
  PROVE  /\ Issued(rg, id) => Gone(MarkCancelled(rg, id), id) /\ Gone(RemoveScope(rg, id), id)
         /\ Gone(rg, id) => /\ CancelSnapshot(rg, id) = [ops |-> {}, waiters |-> {}]
                            /\ \A u : ScopeStep(T, W, rg, u) => Gone(u, id)
<1>1. ASSUME NEW u, Gone(rg, id), ScopeStep(T, W, rg, u) PROVE Gone(u, id)
  BY <1>1, ScopeStepFollows DEF Follows
<1>2. ASSUME Gone(rg, id) PROVE CancelSnapshot(rg, id) = [ops |-> {}, waiters |-> {}]
  BY <1>2 DEF Gone, IsCancelled, CancelSnapshot
<1> DEFINE c == MarkCancelled(rg, id)
<1>3. ASSUME Issued(rg, id) PROVE Gone(c, id)
  <2>1. CASE ~IsActive(rg, id) BY <1>3, <2>1 DEF MarkCancelled, Gone, IsCancelled
  <2>2. CASE IsActive(rg, id)
    <3>1. /\ id.slot \in Slots /\ id.slot < rg.len /\ id.generation = rg.gens[id.slot]
          /\ id.table = rg.table
      BY <2>2, ScopeSlot DEF IsActive
    <3>2. /\ c.entries = [rg.entries EXCEPT ![id.slot] = Occupied(CancelledScope)]
          /\ c.len = rg.len /\ c.gens = rg.gens /\ c.table = rg.table
      BY <2>2 DEF MarkCancelled, PutScope, Registries
    <3>3. c.entries[id.slot] = Occupied(CancelledScope) BY <3>1, <3>2 DEF Registries
    <3>4. Occupied(CancelledScope).occupied /\ Occupied(CancelledScope).value = CancelledScope
          /\ ~CancelledScope.active
      BY DEF Occupied, CancelledScope
    <3>5. GetScope(c, id) = CancelledScope BY <3>1, <3>2, <3>3, <3>4 DEF GetScope
    <3>6. c.gens[id.slot] \in Int /\ Issued(c, id)
      BY <3>1, <3>2, <3>3, <3>4 DEF Issued, Registries
    <3> QED BY <3>4, <3>5, <3>6 DEF Gone, IsCancelled, IsActive
  <2> QED BY <2>1, <2>2
<1>4. ASSUME Issued(rg, id) PROVE Gone(RemoveScope(rg, id), id)
  <2>1. c \in Registries(T, W) /\ RegistryInv(c) /\ Gone(c, id)
    BY <1>3, <1>4, CancelKeeps DEF Follows
  <2>2. RemoveScope(c, id) = RemoveScope(rg, id)
    <3>1. ~IsActive(c, id) BY <2>1 DEF Gone, IsCancelled
    <3>2. MarkCancelled(c, id) = c BY <3>1 DEF MarkCancelled
    <3> HIDE DEF c
    <3> QED BY <3>2 DEF RemoveScope, c
  <2>3. Follows(T, W, c, RemoveScope(c, id)) BY <2>1, RemoveScopeKeeps
  <2> QED BY <2>1, <2>2, <2>3 DEF Follows
<1> QED BY <1>1, <1>2, <1>3, <1>4

-----------------------------------------------------------------------------
(* The contract *)

\* What a payload can be between two steps: with its caller it is untouched,
\* and once it is gone it is idle and has met its one fate.
Sound(p) ==
  /\ p \in Payloads
  /\ p.owner = "caller" => p = Fresh
  /\ p.owner \in {"future", "driver"} <=> (p.owner # "caller" /\ p.fate = "none")
  /\ p.owner = "gone" => ~p.busy

PayloadInv ==
  /\ payload \in [Ops -> Payloads]
  /\ \A o \in Ops : Sound(payload[o])

\* Every step of one payload keeps it sound.
LEMMA MoveSound ==
  ASSUME NEW p, NEW q \in Payloads, Sound(p), Move(p, q)
  PROVE  Sound(q)
<1> USE DEF Sound, Payloads, Owners, Fates, Fresh
<1>1. CASE Starts(p, q) BY <1>1 DEF Starts
<1>2. CASE Works(p, q) BY <1>2 DEF Works
<1>3. CASE Returns(p, q) BY <1>3 DEF Returns
<1>4. CASE Detaches(p, q) BY Zenon, Zenon, <1>4 DEF Detaches
<1>5. CASE Disposes(p, q) BY <1>5 DEF Disposes
<1> QED BY <1>1, <1>2, <1>3, <1>4, <1>5 DEF Move

\* Under the contract every payload stays sound.
LEMMA PayloadInvariant == ContractSpec => []PayloadInv
<1>1. ContractInit => PayloadInv
  BY DEF ContractInit, PayloadInv, Sound, Payloads, Owners, Fates, Fresh
<1>2. PayloadInv /\ [ContractNext]_payload => PayloadInv'
  <2> SUFFICES ASSUME PayloadInv, [ContractNext]_payload PROVE PayloadInv'
    OBVIOUS
  <2>1. CASE UNCHANGED payload BY <2>1 DEF PayloadInv
  <2>2. CASE ContractNext
    <3>1. payload' \in [Ops -> Payloads] BY <2>2 DEF ContractNext
    <3>2. ASSUME NEW o \in Ops PROVE Sound(payload'[o])
      <4>1. Sound(payload[o]) /\ payload'[o] \in Payloads BY <3>1 DEF PayloadInv
      <4>2. CASE payload'[o] = payload[o] BY <4>1, <4>2
      <4>3. CASE Move(payload[o], payload'[o]) BY <4>1, <4>3, MoveSound
      <4> QED BY <2>2, <4>2, <4>3 DEF ContractNext
    <3> QED BY <3>1, <3>2 DEF PayloadInv
  <2> QED BY <2>1, <2>2
<1> QED BY <1>1, <1>2, PTL DEF ContractSpec

\* A payload the kernel or a pool thread is using is held by its future or by
\* the driver, for any number of operations (driver/ops.rs: Op keeps its data
\* until the completion, Drop hands it to the driver).
THEOREM BusyIsPinned == ContractSpec => []Pinned
<1>1. PayloadInv => Pinned
  BY DEF PayloadInv, Sound, Pinned, Payloads, Owners, Fates, Fresh
<1> QED BY <1>1, PayloadInvariant, PTL
=============================================================================
