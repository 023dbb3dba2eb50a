------------------------------- MODULE Scopes --------------------------------
(***************************************************************************)
(* The driver-owned registry of cancellation scopes                        *)
(* (driver/helpers/scopes.rs), as operators on a value of the registry.    *)
(* Scopes live in the same free-list slab as operations, with a generation *)
(* per slot; a scope is Active, with the operations attached to it and the *)
(* wakers waiting for it, or Cancelled.  attachments is the reverse map    *)
(* from an operation to its scopes, as a set of pairs.                     *)
(***************************************************************************)
EXTENDS OpTable, FiniteSets

CONSTANT ScopeGenerationMax   \* u32::MAX

ASSUME ScopeGenerationAssumption == ScopeGenerationMax \in Nat \ {0}

ScopeId(table, slot, generation) ==
  [table |-> table, slot |-> slot, generation |-> generation]

ScopeStates(wakers) ==
  [active : BOOLEAN, ops : SUBSET Nat, waiters : SUBSET [registration : Nat, waker : wakers]]

ActiveScope(ops, waiters) == [active |-> TRUE, ops |-> ops, waiters |-> waiters]
CancelledScope == [active |-> FALSE, ops |-> {}, waiters |-> {}]

\* ScopeTable::new: the identity tells the registries of a thread apart.
NewScopes(table) ==
  [entries |-> [s \in Slots |-> Vacant(s)], len |-> 0, next |-> 0,
   gens |-> [s \in Slots |-> 1], attachments |-> {}, waiter |-> 1,
   table |-> table]

\* insert.  A registry of the model has as many slots as the operation table.
CanInsertScope(sc) == sc.next < MaxCapacity
NextScopeId(sc) == ScopeId(sc.table, sc.next, sc.gens[sc.next])
InsertScope(sc) == SlabInsert(sc, ActiveScope({}, {}))

\* get: None for another registry's id and for a stale one.
GetScope(sc, id) ==
  IF /\ id.table = sc.table
     /\ id.slot < sc.len
     /\ sc.gens[id.slot] = id.generation
     /\ sc.entries[id.slot].occupied
  THEN sc.entries[id.slot].value ELSE None

IsActive(sc, id) == GetScope(sc, id) # None /\ GetScope(sc, id).active

\* is_cancelled: a scope that is gone counts as cancelled.
IsCancelled(sc, id) == ~IsActive(sc, id)

PutScope(sc, id, scope) == [sc EXCEPT !.entries[id.slot] = Occupied(scope)]

\* The snapshot cancel returns, and cancel: nothing the second time.
CancelSnapshot(sc, id) ==
  IF IsActive(sc, id)
  THEN [ops |-> GetScope(sc, id).ops, waiters |-> GetScope(sc, id).waiters]
  ELSE [ops |-> {}, waiters |-> {}]

MarkCancelled(sc, id) ==
  IF IsActive(sc, id) THEN PutScope(sc, id, CancelledScope) ELSE sc

\* remove: cancel first, then recycle the slot unless its last generation is
\* used up, in which case the scope stays, cancelled.
RemoveScope(sc, id) ==
  LET c == MarkCancelled(sc, id) IN
  IF GetScope(c, id) = None \/ id.generation >= ScopeGenerationMax THEN c
  ELSE [SlabRemove(c, id.slot) EXCEPT !.gens[id.slot] = id.generation + 1]

\* attach: both maps, or neither when the scope is already cancelled.
Attach(sc, id, key) ==
  IF IsCancelled(sc, id) THEN sc
  ELSE [PutScope(sc, id, [GetScope(sc, id) EXCEPT !.ops = @ \cup {key}])
          EXCEPT !.attachments = @ \cup {<<key, id>>}]

\* The attach of every current scope of a submission.
AttachAll(sc, ids, key) ==
  LET active == {id \in ids : IsActive(sc, id)} IN
  [sc EXCEPT
     !.attachments = @ \cup {<<key, id>> : id \in active},
     !.entries = [s \in Slots |->
        IF \E id \in active : id.slot = s
        THEN Occupied([sc.entries[s].value EXCEPT !.ops = @ \cup {key}])
        ELSE sc.entries[s]]]

\* Fault: only the reverse map forgets the operation.
DetachReverse(sc, key) == [sc EXCEPT !.attachments = {a \in @ : a[1] # key}]

\* detach: the operation leaves every scope that still lists it.
Detach(sc, key) ==
  [sc EXCEPT
     !.attachments = {a \in @ : a[1] # key},
     !.entries = [s \in Slots |->
        IF \E a \in sc.attachments :
             a[1] = key /\ a[2].slot = s /\ IsActive(sc, a[2])
        THEN Occupied([sc.entries[s].value EXCEPT !.ops = @ \ {key}])
        ELSE sc.entries[s]]]

\* subscribe: the registration is kept, with the newest waker, or a new one
\* is made.  A waiter is its registration and the waker to call.
Waiter(registration, waker) == [registration |-> registration, waker |-> waker]

Subscribe(sc, id, registration, waker) ==
  LET known == IsActive(sc, id)
               /\ \E w \in GetScope(sc, id).waiters : w.registration = registration
      reg   == IF known THEN registration ELSE sc.waiter
      old   == GetScope(sc, id)
      others == {w \in old.waiters : w.registration # reg}
  IN IF IsCancelled(sc, id)
     THEN [ready |-> TRUE, registration |-> registration,
           sc |-> IF registration = None
                  THEN [sc EXCEPT !.waiter = @ + 1] ELSE sc]
     ELSE [ready |-> FALSE, registration |-> reg,
           sc |-> [PutScope(sc, id, [old EXCEPT !.waiters =
                                       others \cup {Waiter(reg, waker)}])
                     EXCEPT !.waiter = IF known THEN @ ELSE @ + 1]]

\* unsubscribe of a dropped waiter.
Unsubscribe(sc, id, registration) ==
  IF IsCancelled(sc, id) THEN sc
  ELSE PutScope(sc, id, [GetScope(sc, id) EXCEPT
                           !.waiters = {w \in @ : w.registration # registration}])

\* The two maps agree: an active scope lists exactly the operations whose
\* attachments name it.
MapsAgree(sc) ==
  \A id \in [table : {sc.table}, slot : Slots, generation : 1 .. ScopeGenerationMax] :
    IsActive(sc, id) =>
      GetScope(sc, id).ops = {a[1] : a \in {x \in sc.attachments : x[2] = id}}
=============================================================================
