------------------------------- MODULE OpTable -------------------------------
(***************************************************************************)
(* The generational operation table shared by the three platform backends  *)
(* (driver/op_table.rs) over the free-list slab it stores its entries in   *)
(* (slab.rs), as operators on a table value                                *)
(*                                                                         *)
(*   [entries |-> slot -> entry, len |-> slots ever created,               *)
(*    next |-> head of the free list, gens |-> slot -> generation]         *)
(*                                                                         *)
(* A slot is Vacant (a link of the free list), Occupied by a value, or     *)
(* Occupied by None once its last generation has been used.  Keys keep the *)
(* code's packing of generation and slot in one word: a word is            *)
(* HalfWord * HalfWord values wide, so HalfWord is 2^32 on a 64-bit target *)
(* and 4 in the instances that are model-checked.                          *)
(***************************************************************************)
EXTENDS Folding

CONSTANTS HalfWord,   \* values of half a word (1 << OpKey::INDEX_BITS)
          None        \* Option::None

ASSUME HalfWordAssumption == HalfWord \in Nat /\ HalfWord > 2

-----------------------------------------------------------------------------
(* OpKey *)

IndexMask == HalfWord - 1
GenerationMax == IndexMask - 1
MaxCapacity == IndexMask
Slots == 0 .. (MaxCapacity - 1)

FromComponents(slot, generation) == generation * HalfWord + slot + 1

KeySlot(raw) == (raw % HalfWord) - 1
KeyGeneration(raw) == raw \div HalfWord

\* OpKey::from_raw: slot zero is stored as one, and the top generation is
\* left to the control tokens.
IsOpKey(raw) ==
  (raw % HalfWord) # 0 /\ KeyGeneration(raw) \in 1 .. GenerationMax

-----------------------------------------------------------------------------
(* CompletionKey: the all-ones words that name no operation *)

WakeRaw == HalfWord * HalfWord - 1
CancelRaw == HalfWord * HalfWord - 2
WakeCancelRaw == HalfWord * HalfWord - 3

Decode(raw) ==
  IF raw = WakeRaw THEN "Wake"
  ELSE IF raw = CancelRaw THEN "Cancel"
  ELSE IF raw = WakeCancelRaw THEN "WakeCancel"
  ELSE IF IsOpKey(raw) THEN "Operation" ELSE "Malformed"

-----------------------------------------------------------------------------
(* Slab *)

Vacant(link) == [occupied |-> FALSE, link |-> link]
Occupied(value) == [occupied |-> TRUE, value |-> value]

NewTable ==
  [entries |-> [s \in Slots |-> Vacant(s)], len |-> 0, next |-> 0,
   gens |-> [s \in Slots |-> 1]]

\* Slab::insert_at, at the head of the free list or one past the end.
SlabInsert(t, value) ==
  LET k == t.next IN
  IF k = t.len
  THEN [t EXCEPT !.entries[k] = Occupied(value), !.len = k + 1, !.next = k + 1]
  ELSE [t EXCEPT !.entries[k] = Occupied(value), !.next = t.entries[k].link]

\* Slab::try_remove of an occupied slot: the slot becomes the new head.
SlabRemove(t, slot) ==
  [t EXCEPT !.entries[slot] = Vacant(t.next), !.next = slot]

-----------------------------------------------------------------------------
(* OpTable *)

\* insert_with_key refuses a slot the key cannot name.
CanInsert(t) == t.next < MaxCapacity

\* The key the next insertion returns, and the insertion.
NextKey(t) == FromComponents(t.next, t.gens[t.next])

Insert(t, value) == SlabInsert(t, value)

\* get_mut: None for a key of another generation and for a retired slot.
Get(t, key) ==
  LET s == KeySlot(key) IN
  IF IsOpKey(key) /\ s < t.len /\ t.gens[s] = KeyGeneration(key)
       /\ t.entries[s].occupied
  THEN t.entries[s].value ELSE None

Put(t, key, value) == [t EXCEPT !.entries[KeySlot(key)] = Occupied(value)]

\* Fault: the slot is recycled under the same generation.
RemoveSameGeneration(t, key) ==
  IF Get(t, key) = None THEN t ELSE SlabRemove(t, KeySlot(key))

\* remove: the generation moves on with the slot, or the slot is retired
\* (kept, holding None) when there is no generation left.
Remove(t, key) ==
  LET s == KeySlot(key)
      g == KeyGeneration(key)
  IN IF Get(t, key) = None THEN t
     ELSE IF g >= GenerationMax
          THEN [t EXCEPT !.entries[s] = Occupied(None)]
          ELSE SlabRemove([t EXCEPT !.gens[s] = g + 1], s)

\* iter: the keys of the live entries.
LiveKeys(t) ==
  {FromComponents(s, t.gens[s]) :
     s \in {x \in Slots : x < t.len /\ t.entries[x].occupied
                          /\ t.entries[x].value # None}}

\* The loops over the slots: the keys of the set, in the order of iter.
SlotSeq(t) == [n \in 1 .. t.len |-> n - 1]

AddKey(t, keys, seen, s) ==
  LET k == FromComponents(s, t.gens[s]) IN IF k \in keys THEN Append(seen, k) ELSE seen

InSlotOrder(t, keys) ==
  FoldLeft(LAMBDA seen, s : AddKey(t, keys, seen, s), <<>>, SlotSeq(t))

IsEmpty(t) == LiveKeys(t) = {}

\* clear: every live entry is dropped and its slot released or retired.
Clear(t) ==
  FoldLeft(LAMBDA u, s : Remove(u, FromComponents(s, u.gens[s])), t, SlotSeq(t))
=============================================================================
