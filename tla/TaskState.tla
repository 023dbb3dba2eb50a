----------------------------- MODULE TaskState ------------------------------
(***************************************************************************)
(* task/state.rs: the lifecycle word of a task and its atomic transitions. *)
(* A snapshot is a record of the flag bits and the reference count.  Each  *)
(* transition is a function from the snapshot it finds to the snapshot it  *)
(* leaves and the action it tells its caller to take, as the compare-and-  *)
(* exchange loop of fetch_update makes it.                                 *)
(***************************************************************************)
EXTENDS Naturals

Snapshot == [running: BOOLEAN, complete: BOOLEAN, notified: BOOLEAN,
             join_interest: BOOLEAN, join_waker: BOOLEAN, cancelled: BOOLEAN,
             refs: Nat]

\* INITIAL_STATE: one reference for the Task, one for the JoinHandle.
InitialState ==
    [running |-> FALSE, complete |-> FALSE, notified |-> TRUE,
     join_interest |-> TRUE, join_waker |-> FALSE, cancelled |-> FALSE, refs |-> 2]

IsIdle(s) == ~s.running /\ ~s.complete

RefInc(s) == [s EXCEPT !.refs = @ + 1]
RefDec(s) == [s EXCEPT !.refs = @ - 1]

Result(act, s) == [act |-> act, state |-> s]

\* A transition that gives up a reference deallocates with the last one.
Releasing(s, otherwise) == Result(IF s.refs = 0 THEN "Dealloc" ELSE otherwise, s)

\* transition_to_running
ToRunning(s) ==
    IF IsIdle(s)
    THEN Result(IF s.cancelled THEN "Cancelled" ELSE "Success",
                [s EXCEPT !.running = TRUE, !.notified = FALSE])
    ELSE Releasing(RefDec(s), "Failed")

\* Fault: the notification that arrived during the poll is overlooked.
ToIdleUnnotified(s) ==
    IF s.cancelled THEN Result("Cancelled", s)
    ELSE Releasing(RefDec([s EXCEPT !.running = FALSE]), "Ok")

\* transition_to_idle
ToIdle(s) ==
    LET idle == [s EXCEPT !.running = FALSE]
    IN  IF s.cancelled THEN Result("Cancelled", s)
        ELSE IF s.notified THEN Result("OkNotified", RefInc(idle))
        ELSE Releasing(RefDec(idle), "Ok")

\* transition_to_complete: fetch_xor(RUNNING | COMPLETE)
ToComplete(s) == [s EXCEPT !.running = ~@, !.complete = ~@]

\* transition_to_notified_by_val
NotifyByVal(s) ==
    IF s.running THEN Result("DoNothing", RefDec([s EXCEPT !.notified = TRUE]))
    ELSE IF s.complete \/ s.notified THEN Releasing(RefDec(s), "DoNothing")
    ELSE Result("Submit", RefInc([s EXCEPT !.notified = TRUE]))

\* transition_to_notified_by_ref
NotifyByRef(s) ==
    IF s.complete \/ s.notified THEN Result("DoNothing", s)
    ELSE IF s.running THEN Result("DoNothing", [s EXCEPT !.notified = TRUE])
    ELSE Result("Submit", RefInc([s EXCEPT !.notified = TRUE]))

\* Fault: an idle task is flagged but not notified.
ToCancelledSilently(s) ==
    Result("DoNothing", IF s.complete THEN s ELSE [s EXCEPT !.cancelled = TRUE])

\* transition_to_cancelled
ToCancelled(s) ==
    LET flagged == [s EXCEPT !.cancelled = TRUE]
    IN  IF s.complete \/ s.cancelled THEN Result("DoNothing", s)
        ELSE IF IsIdle(s) /\ ~s.notified
             THEN Result("Submit", RefInc([flagged EXCEPT !.notified = TRUE]))
             ELSE Result("DoNothing", flagged)

\* Fault: the handle drops the waker although the runtime still has the cell.
JoinHandleDroppedTakesWaker(s) ==
    [state |-> [s EXCEPT !.join_interest = FALSE, !.join_waker = @ /\ s.complete],
     drop_output |-> s.complete, drop_waker |-> TRUE]

\* transition_to_join_handle_dropped
JoinHandleDropped(s) ==
    LET next == [s EXCEPT !.join_interest = FALSE, !.join_waker = @ /\ s.complete]
    IN  [state |-> next, drop_output |-> s.complete, drop_waker |-> ~next.join_waker]

\* Fault: the handle's reference is not given up.
JoinHandleDroppedFastUncounted(s) == [s EXCEPT !.join_interest = FALSE]

\* drop_join_handle_fast: the snapshot that its compare_exchange installs.
JoinHandleDroppedFast(s) == RefDec([s EXCEPT !.join_interest = FALSE])

\* set_join_waker and unset_waker fail once the task is complete;
\* unset_waker_after_complete is the runtime's own.
SetJoinWaker(s) == [s EXCEPT !.join_waker = TRUE]
UnsetWaker(s) == [s EXCEPT !.join_waker = FALSE]
=============================================================================
