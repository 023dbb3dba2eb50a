-------------------------------- MODULE Timer --------------------------------
(***************************************************************************)
(* The timer wheel of a runtime thread (time/driver.rs) and its users:     *)
(* sleep_until, timeout_at and Interval (time/sleep.rs, timeout.rs,        *)
(* interval.rs), with the event loop that parks for `min_timeout` and then *)
(* calls `wake`.                                                           *)
(***************************************************************************)
EXTENDS Integers, FiniteSets
LOCAL INSTANCE FiniteSetsExt

CONSTANTS Sleepers,    \* the tasks that use timers
          SleeperKind, \* [Sleepers -> {"sleep", "timeout", "interval"}]
          MaxTime,     \* bound on the clock
          Period,      \* the interval's period
          MaxTimers,   \* bound on the timers created
          MaxResets    \* bound on Interval::reset

ASSUME PeriodAssumption == Period \in Nat \ {0}
\* `tick` borrows the Interval: one task at a time ticks it.
ASSUME SleeperKindAssumption ==
    \A s, t \in Sleepers : SleeperKind[s] = "interval" /\ SleeperKind[t] = "interval" => s = t

VARIABLES now,         \* Instant::now()
          wheel,       \* the BTreeMap: a set of [deadline, key, waker]
          nextKey,     \* Timer::key
          parkedTill,  \* NoTime while the loop runs, else when the park ends
          sleeper,     \* [Sleepers -> the state of the future it awaits]
          ticker       \* the Interval: [first, start, last, due, resets]

timerVars == <<now, wheel, nextKey, parkedTill, sleeper, ticker>>

NoTime == -1
Forever == MaxTime + 1
Idle == [st |-> "idle", deadline |-> NoTime, key |-> NoTime, awake |-> FALSE, ready |-> FALSE]

TimerInit ==
    /\ now = 0 /\ wheel = {} /\ nextKey = 0 /\ parkedTill = NoTime
    /\ sleeper = [s \in Sleepers |-> Idle]
    /\ \E start \in 0..MaxTime :
        ticker = [first |-> FALSE, start |-> start, last |-> NoTime, due |-> NoTime,
                  resets |-> 0]

Kept(key) == {e \in wheel : e.key # key}
IsCompleted(key) == \A e \in wheel : e.key # key

\* Fault: the latest deadline instead of the earliest
MaxTimeout == IF wheel = {} THEN Forever
              ELSE LET d == Max({e.deadline : e \in wheel}) IN IF d < now THEN now ELSE d

MinTimeout == IF wheel = {} THEN Forever
              ELSE LET d == Min({e.deadline : e \in wheel}) IN IF d < now THEN now ELSE d

\* Fault: the drift is dropped: a period from now, off the grid
NextTickDrifting == IF ~ticker.first THEN ticker.start ELSE now + Period

\* Interval::tick: the start the first time, then the next multiple of the
\* period after now, counted from the start.
NextTick == IF ~ticker.first THEN ticker.start
            ELSE now + Period - ((now - ticker.start) % Period)

-----------------------------------------------------------------------------
Running == parkedTill = NoTime

\* The first poll creates the timer: `insert` returns None for a deadline that
\* has passed, and the future is done at once.
Await(s, deadline) ==
    /\ Running /\ sleeper[s].st = "idle" /\ nextKey < MaxTimers
    /\ deadline >= 0
    /\ SleeperKind[s] = "interval" => deadline = NextTick
    /\ \/ /\ deadline <= now
          /\ sleeper' = [sleeper EXCEPT ![s] = [Idle EXCEPT !.st = "fired", !.deadline = deadline]]
          /\ UNCHANGED <<wheel, nextKey>>
       \/ /\ deadline > now
          /\ wheel' = wheel \cup {[deadline |-> deadline, key |-> nextKey, waker |-> s]}
          /\ nextKey' = nextKey + 1
          /\ sleeper' = [sleeper EXCEPT ![s] =
                            [Idle EXCEPT !.st = "armed", !.deadline = deadline, !.key = nextKey]]
    /\ UNCHANGED <<now, parkedTill, ticker>>

\* The future a timeout guards is ready at the first poll, which polls it before
\* the delay: no timer is created.
ReadyAtOnce(s) ==
    /\ Running /\ SleeperKind[s] = "timeout" /\ sleeper[s].st = "idle"
    /\ sleeper' = [sleeper EXCEPT ![s].st = "done"]
    /\ UNCHANGED <<now, wheel, nextKey, parkedTill, ticker>>

\* The future a timeout guards becomes ready and wakes the task.
InnerReady(s) ==
    /\ SleeperKind[s] = "timeout" /\ sleeper[s].st = "armed" /\ ~sleeper[s].ready
    /\ sleeper' = [sleeper EXCEPT ![s].ready = TRUE, ![s].awake = TRUE]
    /\ parkedTill' = IF Running THEN NoTime ELSE now      \* the wake ends the park
    /\ UNCHANGED <<now, wheel, nextKey, ticker>>

\* A task is polled: poll_timer finds its entry still in the wheel and stores
\* the waker, or gone and completes.  A timeout polls the guarded future first,
\* and dropping the delay cancels its entry.
PollSleeper(s) ==
    /\ Running /\ sleeper[s].st = "armed" /\ sleeper[s].awake
    /\ \/ /\ sleeper[s].ready
          /\ wheel' = Kept(sleeper[s].key)
          /\ sleeper' = [sleeper EXCEPT ![s] = [Idle EXCEPT !.st = "done"]]
       \/ /\ ~sleeper[s].ready /\ IsCompleted(sleeper[s].key)
          /\ sleeper' = [sleeper EXCEPT ![s].st = "fired", ![s].awake = FALSE, ![s].key = NoTime]
          /\ UNCHANGED wheel
       \/ /\ ~sleeper[s].ready /\ ~IsCompleted(sleeper[s].key)
          /\ sleeper' = [sleeper EXCEPT ![s].awake = FALSE]
          /\ UNCHANGED wheel
    /\ UNCHANGED <<now, nextKey, parkedTill, ticker>>

\* The deadline has been reached: the await returns.  A tick returns the instant
\* it waited for and marks the first one.
Fire(s) ==
    /\ Running /\ sleeper[s].st = "fired"
    /\ sleeper' = [sleeper EXCEPT ![s] =
                      [Idle EXCEPT !.st = IF SleeperKind[s] = "interval" THEN "idle" ELSE "done"]]
    /\ ticker' = IF SleeperKind[s] # "interval" THEN ticker
                 ELSE [ticker EXCEPT !.first = TRUE, !.last = ticker.due,
                                     !.due = sleeper[s].deadline]
    /\ UNCHANGED <<now, wheel, nextKey, parkedTill>>

\* `Interval::reset(start)`, the default being now.
Reset(start) ==
    /\ Running /\ \E s \in Sleepers : SleeperKind[s] = "interval" /\ sleeper[s].st = "idle"
    /\ ticker.resets < MaxResets
    /\ ticker' = [first |-> FALSE, start |-> start, last |-> NoTime, due |-> NoTime,
                  resets |-> ticker.resets + 1]
    /\ UNCHANGED <<now, wheel, nextKey, parkedTill, sleeper>>

\* Drop for TimerFuture inside the runtime: its entry is cancelled.
CancelSleep(s) ==
    /\ Running /\ sleeper[s].st = "armed"
    /\ wheel' = Kept(sleeper[s].key)
    /\ sleeper' = [sleeper EXCEPT ![s] = Idle]
    /\ UNCHANGED <<now, nextKey, parkedTill, ticker>>

-----------------------------------------------------------------------------
\* Fault: a timer is due a tick too soon
DueEarly == {e \in wheel : e.deadline <= now + 1}

Due == {e \in wheel : e.deadline <= now}

\* `Timer::wake` pops the expired entries and wakes their tasks.
WakeDue ==
    /\ wheel' = wheel \ Due
    /\ sleeper' = [s \in Sleepers |->
                     IF \E e \in Due : e.waker = s
                     THEN [sleeper[s] EXCEPT !.awake = TRUE] ELSE sleeper[s]]

WakeTimers ==
    /\ Running /\ Due # {}
    /\ WakeDue
    /\ UNCHANGED <<now, nextKey, parkedTill, ticker>>

\* Nothing is awake: the loop parks for `min_timeout`, and wakes the timers
\* when it returns.
Park ==
    /\ Running /\ \A s \in Sleepers : ~sleeper[s].awake /\ sleeper[s].st # "fired"
    /\ parkedTill' = MinTimeout
    /\ UNCHANGED <<now, wheel, nextKey, sleeper, ticker>>

Unpark ==
    /\ ~Running /\ now >= parkedTill
    /\ parkedTill' = NoTime
    /\ WakeDue
    /\ UNCHANGED <<now, nextKey, ticker>>

\* Time passes.
Tick ==
    /\ now < MaxTime /\ now' = now + 1
    /\ UNCHANGED <<wheel, nextKey, parkedTill, sleeper, ticker>>

TimerNext ==
    \/ \E s \in Sleepers, d \in 0..MaxTime + Period : Await(s, d)
    \/ \E s \in Sleepers : ReadyAtOnce(s) \/ InnerReady(s) \/ PollSleeper(s) \/ Fire(s) \/ CancelSleep(s)
    \/ \E start \in 0..MaxTime : Reset(start)
    \/ Park \/ Unpark \/ WakeTimers \/ Tick

\* The loop runs while it has something to do, and the clock moves on.
TimerSteps ==
    \/ \E s \in Sleepers : PollSleeper(s) \/ Fire(s)
    \/ Unpark \/ WakeTimers \/ Tick
CanTimerStep ==
    \/ now < MaxTime
    \/ ~Running /\ now >= parkedTill
    \/ Running /\ (Due # {} \/ \E s \in Sleepers :
                      sleeper[s].st = "fired" \/ (sleeper[s].st = "armed" /\ sleeper[s].awake))

-----------------------------------------------------------------------------
\* A sleep is over, a timeout elapses and a tick fires only once the deadline
\* has been reached, and the wheel holds exactly one entry for each pending
\* future: a future dropped, completed or overtaken by its guarded future leaves
\* nothing behind to wake a later timer (time/driver.rs:98-105, 152-158).
TimersExact ==
    /\ \A s \in Sleepers : sleeper[s].st = "fired" => sleeper[s].deadline <= now
    /\ \A e \in wheel : sleeper[e.waker].st = "armed" /\ sleeper[e.waker].key = e.key
    /\ \A e, f \in wheel : e.waker = f.waker => e = f

\* The ticks of an interval stay on the grid start + k * period and never come
\* twice for the same instant or before it, however late each tick was taken
\* (time/interval.rs:43-59).
TicksOnGrid ==
    ticker.due # NoTime =>
        /\ ticker.due <= now
        /\ (ticker.due - ticker.start) % Period = 0
        /\ ticker.due > ticker.last

\* A pending sleep whose deadline has come is woken and completes, unless it is
\* dropped: the loop never parks past the earliest deadline.
SleepEnds ==
    \A s \in Sleepers :
        sleeper[s].st = "armed" /\ sleeper[s].deadline <= now ~> sleeper[s].st # "armed"
=============================================================================
