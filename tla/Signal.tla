-------------------------------- MODULE Signal -------------------------------
(***************************************************************************)
(* Signal listeners (signal/unix.rs) and the console control listener      *)
(* (signal/windows.rs).                                                    *)
(*                                                                         *)
(* A listener polls its counter, stores its waker under a mutex and looks  *)
(* again; the handler, which may interrupt any of these steps and run on   *)
(* several threads at once, bumps the counter and takes the waker if it    *)
(* can lock the mutex without blocking.  On Windows there is one counter   *)
(* and one list of wakers for all listeners, and the handler has a thread  *)
(* of its own and may block.  The registry is read and replaced through    *)
(* HalfLock, whose snapshots are the ones module HalfLock verifies.        *)
(***************************************************************************)
EXTENDS Naturals, FiniteSets

CONSTANTS Listeners,   \* Signal / CtrlC values, each in a task of its own
          Handlers,    \* threads a handler may run on
          SignumOf,    \* [Listeners -> signal number]
          MaxSignals   \* bound on deliveries

ASSUME MaxSignalsAssumption == MaxSignals \in Nat

VARIABLES platform,    \* "unix" or "windows"
          registry,    \* the published set of listeners
          writer,      \* the listener inside register/unregister, or None
          installed,   \* the signal numbers our handler is installed for
          counter,     \* [Slots -> AtomicUsize]
          slot,        \* [Slots -> the wakers stored there]
          lock,        \* [Slots -> who holds the mutex, or None]
          listener,    \* [Listeners -> [pc, seen, owed, awake]]
          runner,      \* [Handlers -> [pc, todo, at, woken]]
          sent,        \* deliveries so far
          missed       \* a signal met the default action with a listener alive

signalVars == <<platform, registry, writer, installed, counter, slot, lock, listener, runner, sent, missed>>

None == "none"
Shared == "shared"
ASSUME SignalNames == Listeners \cap Handlers = {} /\ None \notin Listeners \cup Handlers
Slots == Listeners \cup {Shared}
SlotOf(l) == IF platform = "windows" THEN Shared ELSE l
Signums == {SignumOf[l] : l \in Listeners}
NoListener == [pc |-> "none", seen |-> 0, owed |-> FALSE, awake |-> FALSE]
NoRunner == [pc |-> "idle", todo |-> {}, at |-> None, woken |-> {}]

\* The handler's loop over the entries that remain; it returns after the last.
NextEntry(todo) == IF todo = {} THEN NoRunner ELSE [NoRunner EXCEPT !.pc = "next", !.todo = todo]

\* Created and not yet being dropped.
Listening(l) == listener[l].pc \in {"idle", "store", "unlock", "recheck", "parked"}

SignalInit ==
    /\ platform \in {"unix", "windows"}
    /\ registry = {} /\ writer = None
    /\ installed = IF platform = "windows" THEN Signums ELSE {}
    /\ counter = [s \in Slots |-> 0] /\ slot = [s \in Slots |-> {}]
    /\ lock = [s \in Slots |-> None]
    /\ listener = [l \in Listeners |-> NoListener]
    /\ runner = [h \in Handlers |-> NoRunner]
    /\ sent = 0 /\ missed = FALSE

-----------------------------------------------------------------------------
\* register: under the registry's write lock, the OS handler is installed for
\* the first listener of the signal (which may fail), then the new registry is
\* published.
Register(l) ==
    /\ platform = "unix" /\ listener[l].pc = "none" /\ writer = None
    /\ \/ /\ writer' = l
          /\ installed' = installed \cup {SignumOf[l]}
          /\ counter' = [counter EXCEPT ![l] = 0] /\ slot' = [slot EXCEPT ![l] = {}]
          /\ listener' = [listener EXCEPT ![l].pc = "publish"]
       \/ /\ SignumOf[l] \notin installed        \* sigaction failed
          /\ listener' = [listener EXCEPT ![l].pc = "gone"]
          /\ UNCHANGED <<writer, installed, counter, slot>>
    /\ UNCHANGED <<platform, registry, lock, runner, sent, missed>>

Publish(l) ==
    /\ listener[l].pc = "publish"
    /\ registry' = registry \cup {l}
    /\ writer' = None
    /\ listener' = [listener EXCEPT ![l].pc = "new"]
    /\ UNCHANGED <<platform, installed, counter, slot, lock, runner, sent, missed>>

\* The rest of Signal::new: what came before is not reported.  On Windows the
\* state is the process's and `new` only reads the counter.
ReadSeen(l) ==
    /\ listener[l].pc = IF platform = "windows" THEN "none" ELSE "new"
    /\ listener' = [listener EXCEPT ![l] =
                       [NoListener EXCEPT !.pc = "idle", !.seen = counter[SlotOf(l)]]]
    /\ UNCHANGED <<platform, registry, writer, installed, counter, slot, lock, runner, sent, missed>>

\* Fault: the handler is restored while another listener remains
UnregisterEagerly(l) ==
    /\ listener[l].pc \in {"idle", "parked"} /\ writer = None
    /\ writer' = IF platform = "unix" THEN l ELSE None
    /\ installed' = IF platform = "unix" THEN installed \ {SignumOf[l]} ELSE installed
    /\ listener' = [listener EXCEPT ![l] = [NoListener EXCEPT !.pc = IF platform = "unix" THEN "retire" ELSE "gone"]]
    /\ UNCHANGED <<platform, registry, counter, slot, lock, runner, sent, missed>>

\* Drop for Signal, in recv or between two: unregister restores the previous
\* action once no listener of the signal is left, then publishes.  (The result
\* of the sigaction is ignored; it fails only for a number it would have refused
\* to install.)  A CtrlC of Windows leaves its waker in the list.
Unregister(l) ==
    /\ listener[l].pc \in {"idle", "parked"} /\ writer = None
    /\ writer' = IF platform = "unix" THEN l ELSE None
    /\ installed' = IF platform = "windows" \/ (\E k \in registry \ {l} : SignumOf[k] = SignumOf[l])
                    THEN installed ELSE installed \ {SignumOf[l]}
    /\ listener' = [listener EXCEPT ![l] = [NoListener EXCEPT !.pc = IF platform = "unix" THEN "retire" ELSE "gone"]]
    /\ UNCHANGED <<platform, registry, counter, slot, lock, runner, sent, missed>>

Retire(l) ==
    /\ listener[l].pc = "retire"
    /\ registry' = registry \ {l}
    /\ writer' = None
    /\ listener' = [listener EXCEPT ![l].pc = "gone"]
    /\ UNCHANGED <<platform, installed, counter, slot, lock, runner, sent, missed>>

-----------------------------------------------------------------------------
\* poll_recv, one step per shared access.  A recv dropped while it waits leaves
\* the listener idle and its waker stored.
Seen(l, pc) == [listener[l] EXCEPT !.pc = pc, !.seen = counter[SlotOf(l)],
                                   !.owed = FALSE, !.awake = FALSE]

Recv(l) ==
    /\ listener[l].pc = "idle" \/ (listener[l].pc = "parked" /\ listener[l].awake)
    /\ listener' = [listener EXCEPT ![l] =
                       IF counter[SlotOf(l)] # @.seen
                       THEN Seen(l, "idle") ELSE [@ EXCEPT !.pc = "store", !.awake = FALSE]]
    /\ UNCHANGED <<platform, registry, writer, installed, counter, slot, lock, runner, sent, missed>>

StoreWaker(l) ==
    /\ listener[l].pc = "store" /\ lock[SlotOf(l)] = None
    /\ lock' = [lock EXCEPT ![SlotOf(l)] = l]
    /\ slot' = [slot EXCEPT ![SlotOf(l)] = @ \cup {l}]
    /\ listener' = [listener EXCEPT ![l].pc = "unlock"]
    /\ UNCHANGED <<platform, registry, writer, installed, counter, runner, sent, missed>>

UnlockSlot(l) ==
    /\ listener[l].pc = "unlock"
    /\ lock' = [lock EXCEPT ![SlotOf(l)] = None]
    /\ listener' = [listener EXCEPT ![l].pc = "recheck"]
    /\ UNCHANGED <<platform, registry, writer, installed, counter, slot, runner, sent, missed>>

\* Fault: Pending without looking at the counter again
ParkBlindly(l) ==
    /\ listener[l].pc = "recheck"
    /\ listener' = [listener EXCEPT ![l].pc = "parked"]
    /\ UNCHANGED <<platform, registry, writer, installed, counter, slot, lock, runner, sent, missed>>

Recheck(l) ==
    /\ listener[l].pc = "recheck"
    /\ listener' = [listener EXCEPT ![l] =
                       IF counter[SlotOf(l)] # @.seen THEN Seen(l, "idle")
                                                      ELSE [@ EXCEPT !.pc = "parked"]]
    /\ UNCHANGED <<platform, registry, writer, installed, counter, slot, lock, runner, sent, missed>>

DropRecv(l) ==
    /\ listener[l].pc = "parked"
    /\ listener' = [listener EXCEPT ![l].pc = "idle", ![l].awake = FALSE]
    /\ UNCHANGED <<platform, registry, writer, installed, counter, slot, lock, runner, sent, missed>>

-----------------------------------------------------------------------------
\* Idle threads are alike: any one of them runs the handler.
IdleHandler == LET idle == {h \in Handlers : runner[h].pc = "idle"}
               IN IF idle = {} THEN {} ELSE {CHOOSE h \in idle : TRUE}

\* The kernel delivers a signal: our handler starts on a thread with the
\* registry as it is, or the default action is taken.  The handler may read the
\* registry a little later: who is still listening then was there now, and who
\* has come since is only woken once too often.
Deliver(s) ==
  \E h \in IdleHandler :
    /\ sent < MaxSignals
    /\ sent' = sent + 1
    /\ \/ /\ s \in installed
          /\ runner' = [runner EXCEPT ![h] = NextEntry(
                           IF platform = "windows" THEN {Shared}
                           ELSE {l \in registry : SignumOf[l] = s})]
          /\ listener' = [l \in Listeners |->
                             IF Listening(l) /\ SignumOf[l] = s
                             THEN [listener[l] EXCEPT !.owed = TRUE] ELSE listener[l]]
          /\ UNCHANGED missed
       \/ /\ s \notin installed
          /\ missed' = (missed \/ \E l \in Listeners : Listening(l) /\ SignumOf[l] = s)
          /\ UNCHANGED <<runner, listener>>
    /\ UNCHANGED <<platform, registry, writer, installed, counter, slot, lock>>

\* The handler's loop: bump the entry's counter...
Bump(h) ==
    /\ runner[h].pc = "next"
    /\ \E e \in runner[h].todo :
        /\ counter' = [counter EXCEPT ![e] = @ + 1]
        /\ runner' = [runner EXCEPT ![h].pc = "try", ![h].at = e, ![h].todo = @ \ {e}]
    /\ UNCHANGED <<platform, registry, writer, installed, slot, lock, listener, sent, missed>>

\* ... then take the waker.  On Unix the handler wakes it while it holds the
\* mutex, and `try_lock` gives up where another holder is in; the handler of
\* Windows waits for the lock, and wakes once it has given it back.
Awaken(ls) == [l \in Listeners |-> IF l \in ls THEN [listener[l] EXCEPT !.awake = TRUE] ELSE listener[l]]

TakeWaker(h) ==
    /\ runner[h].pc = "try" /\ lock[runner[h].at] = None
    /\ slot' = [slot EXCEPT ![runner[h].at] = {}]
    /\ IF platform = "unix"
       THEN /\ lock' = [lock EXCEPT ![runner[h].at] = h]
            /\ listener' = Awaken(slot[runner[h].at])
            /\ runner' = [runner EXCEPT ![h].pc = "held"]
       ELSE /\ runner' = [runner EXCEPT ![h].pc = "wake", ![h].woken = slot[runner[h].at]]
            /\ UNCHANGED <<lock, listener>>
    /\ UNCHANGED <<platform, registry, writer, installed, counter, sent, missed>>

WakeAll(h) ==
    /\ runner[h].pc = "wake"
    /\ listener' = Awaken(runner[h].woken)
    /\ runner' = [runner EXCEPT ![h] = NextEntry(@.todo)]
    /\ UNCHANGED <<platform, registry, writer, installed, counter, slot, lock, sent, missed>>

TryLockFails(h) ==
    /\ runner[h].pc = "try" /\ lock[runner[h].at] # None /\ platform = "unix"
    /\ runner' = [runner EXCEPT ![h] = NextEntry(@.todo)]
    /\ UNCHANGED <<platform, registry, writer, installed, counter, slot, lock, listener, sent, missed>>

Release(h) ==
    /\ runner[h].pc = "held"
    /\ lock' = [lock EXCEPT ![runner[h].at] = None]
    /\ runner' = [runner EXCEPT ![h] = NextEntry(@.todo)]
    /\ UNCHANGED <<platform, registry, writer, installed, counter, slot, listener, sent, missed>>

SignalNext ==
    \/ \E l \in Listeners : Register(l) \/ Publish(l) \/ ReadSeen(l) \/ Unregister(l) \/ Retire(l)
    \/ \E l \in Listeners : Recv(l) \/ StoreWaker(l) \/ UnlockSlot(l)
    \/ \E l \in Listeners : Recheck(l) \/ DropRecv(l)
    \/ \E s \in Signums : Deliver(s)
    \/ \E h \in Handlers : Bump(h) \/ TakeWaker(h) \/ WakeAll(h) \/ TryLockFails(h) \/ Release(h)

-----------------------------------------------------------------------------
\* A handler that may still wake listener l.
OnItsWay(l) == \E h \in Handlers : SlotOf(l) \in runner[h].todo \cup {runner[h].at}

\* No signal is lost on a listener that waits: a task parked in recv with a
\* delivery owed to it has been woken, or a handler is still on its way to it,
\* wherever the handler interrupted the poll and however many ran at once
\* (signal/unix.rs:184-210 and 275-291: "the poll path re-checks the counter
\* after registering its waker, so no wakeup is lost").
NoSignalLost ==
    \A l \in Listeners :
        listener[l].pc = "parked" /\ (listener[l].owed \/ counter[SlotOf(l)] # listener[l].seen)
            => listener[l].awake \/ OnItsWay(l)

\* While a listener for a signal is alive our handler is installed, and no
\* delivery meets the default action (register installs "before publishing the
\* new registry", unix.rs:304-305); with no writer at work the handler is
\* installed exactly for the signals that have a listener.
HandlerInstalled ==
    /\ ~missed
    /\ \A l \in Listeners : Listening(l) => SignumOf[l] \in installed
    /\ platform = "unix" /\ writer = None => installed = {SignumOf[l] : l \in registry}
=============================================================================
