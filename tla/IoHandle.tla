------------------------------ MODULE IoHandle ------------------------------
(***************************************************************************)
(* The reference-counted OS handle behind every file, socket and pipe      *)
(* (driver/helpers/io_handle.rs), with the split halves of a stream        *)
(* (net/split.rs) and the close operation (driver/ops/close.rs).           *)
(*                                                                         *)
(* One OS resource and the `SharedIoHandle` clones that refer to it.  A clone is *)
(* held by the application (whole, or as the read or write half of a split *)
(* stream), by an operation in flight, or by a `close`/`take` future that  *)
(* waits to be the only one left.  There is ONE waker cell for the waiting *)
(* future, shared by all clones.                                           *)
(***************************************************************************)
EXTENDS Naturals, FiniteSets

CONSTANTS Handles,     \* application handles
          Flights,     \* operations that may be in flight
          MaxClosers   \* closers that may wait at once

ASSUME MaxClosersAssumption == MaxClosers \in Nat
ASSUME HandlesAssumption ==
    IsFiniteSet(Handles) /\ IsFiniteSet(Flights) /\ {"Init", "Closed"} \cap Handles = {}

VARIABLES handle,      \* [Handles -> what the application holds there]
          flying,      \* the operations in flight, each owning a clone
          cell,        \* the waker cell: "Init", "Closed" or the waiter
          woken,       \* closers to be polled
          os,          \* the OS resource
          wrShut       \* the write direction has been shut down

handleVars == <<handle, flying, cell, woken, os, wrShut>>

Usable == {"whole", "read", "write"}
Closing == {"close", "take"}                  \* the future that waits
Live == Usable \cup Closing
Owners == {h \in Handles : handle[h] \in Live}

Strong == Cardinality(Owners) + Cardinality(flying)
Waiting == cell \in Handles

HandleInit ==
    \E h \in Handles :
        /\ handle = [k \in Handles |-> IF k = h THEN "whole" ELSE "free"]
        /\ flying = {} /\ cell = "Init" /\ woken = {}
        /\ os = "open" /\ wrShut = FALSE

\* Fault: the clone is dropped without waking the waiter
DropSilently ==
    /\ cell' = IF Waiting THEN "Init" ELSE cell
    /\ os' = IF Strong = 1 /\ cell # "Closed" THEN "closed" ELSE os
    /\ UNCHANGED woken

\* `Drop for SharedIoHandle`, then the Rc: a waiter is taken out of the cell and
\* woken, and the last clone closes the resource where it stands.
DropEffect ==
    /\ cell' = IF Waiting THEN "Init" ELSE cell
    /\ woken' = IF Waiting THEN woken \cup {cell} ELSE woken
    /\ os' = IF Strong = 1 /\ cell # "Closed" THEN "closed" ELSE os

Clone(h, k) ==
    /\ handle[h] = "whole" /\ handle[k] = "free"
    /\ handle' = [handle EXCEPT ![k] = "whole"]
    /\ UNCHANGED <<flying, cell, woken, os, wrShut>>

StartOp(h, o) ==
    /\ handle[h] \in Usable /\ o \notin flying
    /\ flying' = flying \cup {o}
    /\ UNCHANGED <<handle, cell, woken, os, wrShut>>

OpEnds(o) ==
    /\ o \in flying
    /\ flying' = flying \ {o}
    /\ DropEffect
    /\ UNCHANGED <<handle, wrShut>>

\* Dropping a handle or a half; the write half shuts its direction down first.
DropHandle(h) ==
    /\ handle[h] \in Usable
    /\ handle' = [handle EXCEPT ![h] = "free"]
    /\ wrShut' = (wrShut \/ handle[h] = "write")
    /\ DropEffect
    /\ UNCHANGED flying

\* `try_unwrap`: the resource is handed back when this is the only clone.
TryUnwrap(h) ==
    /\ handle[h] = "whole" /\ Strong = 1
    /\ handle' = [handle EXCEPT ![h] = "free"]
    /\ cell' = "Closed" /\ os' = "given"
    /\ UNCHANGED <<flying, woken, wrShut>>

IntoSplit(h, k) ==
    /\ handle[h] = "whole" /\ handle[k] = "free"
    /\ handle' = [handle EXCEPT ![h] = "read", ![k] = "write"]
    /\ UNCHANGED <<flying, cell, woken, os, wrShut>>

\* `reunite` of two halves of the same resource, refused unless no other clone
\* exists; the write half is dropped without shutting its direction down.
Reunite(r, w) ==
    /\ handle[r] = "read" /\ handle[w] = "write" /\ Strong = 2
    /\ handle' = [handle EXCEPT ![r] = "whole", ![w] = "free"]
    /\ DropEffect
    /\ UNCHANGED <<flying, wrShut>>

\* `close()` and `take()` consume the handle; the future is polled at once.
BeginClose(h, want) ==
    /\ handle[h] = "whole" /\ want \in Closing
    /\ Cardinality({k \in Handles : handle[k] \in Closing}) < MaxClosers
    /\ handle' = [handle EXCEPT ![h] = want]
    /\ woken' = woken \cup {h}
    /\ UNCHANGED <<flying, cell, os, wrShut>>

\* Fault: operations in flight are not counted as owners
UniqueButFlying(h) ==
    /\ handle[h] \in Closing /\ h \in woken /\ Cardinality(Owners) = 1
    /\ cell' = "Closed" /\ woken' = woken \ {h}
    /\ os' = "given" /\ handle' = [handle EXCEPT ![h] = "free"]
    /\ UNCHANGED <<flying, wrShut>>

\* The future is the only owner: the resource is moved out, and `close` submits
\* the close operation.  A refused submission drops the raw handle.
Unique(h) ==
    /\ handle[h] \in Closing /\ h \in woken /\ Strong = 1
    /\ cell' = "Closed" /\ woken' = woken \ {h}
    /\ \/ handle[h] = "take" /\ os' = "given"
          /\ handle' = [handle EXCEPT ![h] = "free"]
       \/ handle[h] = "close" /\ os' = "closed"       \* submit failed
          /\ handle' = [handle EXCEPT ![h] = "free"]
       \/ handle[h] = "close" /\ UNCHANGED os
          /\ handle' = [handle EXCEPT ![h] = "closeop"]
    /\ UNCHANGED <<flying, wrShut>>

\* Others hold the resource: the waker is stored, over any other waiter's.
AwaitUnique(h) ==
    /\ handle[h] \in Closing /\ h \in woken /\ Strong > 1
    /\ cell' = h /\ woken' = woken \ {h}
    /\ UNCHANGED <<handle, flying, os, wrShut>>

CloseDone(h) ==
    /\ handle[h] = "closeop"
    /\ handle' = [handle EXCEPT ![h] = "free"]
    /\ os' = "closed"
    /\ UNCHANGED <<flying, cell, woken, wrShut>>

\* The future is dropped.  Waiting, it drops its clone; once the close operation
\* is with the driver, cancelling it may leave the raw handle open for good.
CancelClose(h) ==
    /\ \/ handle[h] \in Closing /\ DropEffect
       \/ handle[h] = "closeop" /\ os' \in {"closed", "leaked"}
          /\ UNCHANGED <<cell, woken>>
    /\ handle' = [handle EXCEPT ![h] = "free"]
    /\ UNCHANGED <<flying, wrShut>>

HandleNext ==
    \/ \E h, k \in Handles : Clone(h, k) \/ IntoSplit(h, k) \/ Reunite(h, k)
    \/ \E h \in Handles : DropHandle(h) \/ TryUnwrap(h) \/ Unique(h) \/ AwaitUnique(h)
    \/ \E h \in Handles : CloseDone(h) \/ CancelClose(h)
    \/ \E h \in Handles, want \in Closing : BeginClose(h, want)
    \/ \E h \in Handles, o \in Flights : StartOp(h, o)
    \/ \E o \in Flights : OpEnds(o)

\* A woken closer is polled again, operations end and so does a close.
HandleSteps ==
    \/ \E h \in Handles : Unique(h) \/ AwaitUnique(h) \/ CloseDone(h)
    \/ \E o \in Flights : OpEnds(o)
CanHandleStep ==
    \/ \E h \in Handles : handle[h] = "closeop" \/ (handle[h] \in Closing /\ h \in woken)
    \/ flying # {}

-----------------------------------------------------------------------------
\* The resource outlives its users and dies with them: whatever the clones,
\* splits, closes, cancellations and in-flight operations did, a handle or an
\* operation still holding a clone finds the resource open (io_handle.rs:88-119
\* gives it away only when unique), and once nobody holds it, it has been closed
\* or handed out, except that a cancelled close operation may lose it
\* (ops/close.rs has no Drop).
HandlesUsable ==
    /\ Owners # {} \/ flying # {} => os = "open" /\ cell # "Closed"
    /\ os = "open" => Owners # {} \/ flying # {} \/ \E h \in Handles : handle[h] = "closeop"

\* "Without this, close().await / take().await can hang forever after in-flight
\* ops complete" (io_handle.rs:247-249): a closer whose application-side clones
\* are all gone finishes.
CloseEnds ==
    \A h \in Handles :
        handle[h] \in Closing /\ (\A k \in Handles \ {h} : handle[k] \notin Live)
            ~> handle[h] \notin Closing
=============================================================================
