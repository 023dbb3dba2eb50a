---------------------------- MODULE WakeupProofs ----------------------------
(***************************************************************************)
(* Who waits is woken: the timer wheel and the interval grid, for any clock, *)
(* period, number of tasks and number of timers, and the signal listeners, *)
(* for any number of listeners, signals and handlers in progress.          *)
(***************************************************************************)
EXTENDS Timer, Signal, TLAPS

(* Timers *)

TimerSpec == TimerInit /\ [][TimerNext]_timerVars

Entries == [deadline : Int, key : Nat, waker : Sleepers]
SleeperStates == [st : {"idle", "armed", "fired", "done"}, deadline : Int, key : Int,
                  awake : BOOLEAN, ready : BOOLEAN]

TimerTypes ==
    /\ now \in Nat /\ nextKey \in Nat
    /\ wheel \subseteq Entries
    /\ sleeper \in [Sleepers -> SleeperStates]

\* An armed future has a key nobody else has, and its entry is in the wheel until
\* its deadline has come.
WheelInv ==
    /\ \A e \in wheel : /\ sleeper[e.waker].st = "armed"
                        /\ sleeper[e.waker].key = e.key
                        /\ sleeper[e.waker].deadline = e.deadline
    /\ \A s \in Sleepers : sleeper[s].st = "armed" =>
          /\ sleeper[s].key \in 0 .. nextKey - 1
          /\ IsCompleted(sleeper[s].key) => sleeper[s].deadline <= now
    /\ \A s, t \in Sleepers : sleeper[s].st = "armed" /\ sleeper[t].st = "armed"
                              /\ sleeper[s].key = sleeper[t].key => s = t
    /\ \A s \in Sleepers : sleeper[s].st = "fired" => sleeper[s].deadline <= now

-----------------------------------------------------------------------------
(* The wheel *)

\* What the state of a sleeper can be set to.
LEMMA IdleStates ==
    /\ Idle \in SleeperStates
    /\ \A st \in {"idle", "armed", "fired", "done"} :
          /\ [Idle EXCEPT !.st = st] \in SleeperStates /\ [Idle EXCEPT !.st = st].st = st
          /\ \A d, k \in Int :
                /\ [Idle EXCEPT !.st = st, !.deadline = d] \in SleeperStates
                /\ [Idle EXCEPT !.st = st, !.deadline = d, !.key = k] \in SleeperStates
<1>1. Idle \in SleeperStates BY DEF SleeperStates, Idle, NoTime
<1> QED BY Zenon, <1>1 DEF SleeperStates

\* The invariant implies the property.
LEMMA WheelExact ==
    ASSUME TimerTypes, WheelInv
    PROVE  TimersExact
BY DEF TimerTypes, WheelInv, TimersExact, Entries

\* Waking the sleepers that are due.
LEMMA WakeDueKeeps ==
    ASSUME TimerTypes, WheelInv, WakeDue, UNCHANGED <<now, nextKey>>
    PROVE  TimerTypes' /\ WheelInv'
<1>1. sleeper' \in [Sleepers -> SleeperStates]
    <2>1. \A s \in Sleepers : [sleeper[s] EXCEPT !.awake = TRUE] \in SleeperStates
        BY Zenon DEF TimerTypes, SleeperStates
    <2> QED BY <2>1 DEF WakeDue, TimerTypes
<1>2. TimerTypes' BY <1>1 DEF TimerTypes, WakeDue
<1>3. \A s \in Sleepers : /\ sleeper'[s].st = sleeper[s].st
                          /\ sleeper'[s].key = sleeper[s].key
                          /\ sleeper'[s].deadline = sleeper[s].deadline
    BY DEF TimerTypes, SleeperStates, WakeDue
<1>4. ASSUME NEW s \in Sleepers, sleeper[s].st = "armed",
             \A e \in wheel' : e.key # sleeper[s].key
      PROVE  sleeper[s].deadline <= now
    <2>1. CASE IsCompleted(sleeper[s].key) BY <1>4, <2>1 DEF WheelInv
    <2>2. CASE ~IsCompleted(sleeper[s].key)
        <3>1. PICK e \in wheel : e.key = sleeper[s].key BY <2>2 DEF IsCompleted
        <3>2. e.waker = s /\ e.deadline = sleeper[s].deadline
            BY <1>4, <3>1 DEF WheelInv, TimerTypes, Entries
        <3>3. e \in Due BY <1>4, <3>1 DEF WakeDue
        <3> QED BY <3>2, <3>3 DEF Due
    <2> QED BY <2>1, <2>2
<1>5. wheel' \subseteq wheel BY DEF WakeDue
<1>6. WheelInv' 
    BY <1>2, <1>3, <1>4, <1>5 DEF WheelInv, IsCompleted, TimerTypes, Entries
<1> QED BY <1>2, <1>6

\* Dropping a future takes its own entry out and nobody else's.
LEMMA KeptKeeps ==
    ASSUME TimerTypes, WheelInv, NEW s \in Sleepers, sleeper[s].st = "armed",
           wheel' = Kept(sleeper[s].key), UNCHANGED <<now, nextKey>>,
           NEW f \in SleeperStates, sleeper' = [sleeper EXCEPT ![s] = f],
           f.st \in {"idle", "done"}
    PROVE  TimerTypes' /\ WheelInv'
<1>1. TimerTypes' BY DEF TimerTypes, Kept
<1>2. \A e \in wheel' : e \in wheel /\ e.waker # s BY DEF WheelInv, Kept
<1>3. \A t \in Sleepers : t # s => sleeper'[t] = sleeper[t] BY DEF TimerTypes
<1>4. sleeper'[s].st \in {"idle", "done"} BY DEF TimerTypes
<1>5. \A t \in Sleepers : t # s /\ sleeper[t].st = "armed" => sleeper[t].key # sleeper[s].key
    BY DEF WheelInv
<1>6. \A t \in Sleepers : t # s /\ sleeper[t].st = "armed" /\ IsCompleted(sleeper[t].key)'
            => IsCompleted(sleeper[t].key)
    BY <1>3, <1>5 DEF IsCompleted, Kept
<1>7. \A e \in wheel' : /\ sleeper'[e.waker].st = "armed"
                        /\ sleeper'[e.waker].key = e.key
                        /\ sleeper'[e.waker].deadline = e.deadline
    BY <1>2, <1>3 DEF WheelInv, TimerTypes, Entries
<1>8. \A t \in Sleepers : sleeper'[t].st = "armed" =>
          /\ sleeper'[t].key \in 0 .. nextKey' - 1
          /\ IsCompleted(sleeper[t].key)' => sleeper'[t].deadline <= now'
    BY <1>3, <1>4, <1>6 DEF WheelInv
<1>9. \A t, u \in Sleepers : sleeper'[t].st = "armed" /\ sleeper'[u].st = "armed"
                              /\ sleeper'[t].key = sleeper'[u].key => t = u
    BY <1>3, <1>4 DEF WheelInv
<1>10. \A t \in Sleepers : sleeper'[t].st = "fired" => sleeper'[t].deadline <= now'
    BY <1>3, <1>4 DEF WheelInv
<1> QED BY <1>1, <1>7, <1>8, <1>9, <1>10 DEF WheelInv

\* Every step keeps the invariant of the wheel.
LEMMA WheelStep == TimerTypes /\ WheelInv /\ [TimerNext]_timerVars => TimerTypes' /\ WheelInv'
<1> SUFFICES ASSUME TimerTypes, WheelInv, [TimerNext]_timerVars PROVE TimerTypes' /\ WheelInv'
    OBVIOUS
<1>1. ASSUME NEW s \in Sleepers, NEW d \in 0 .. MaxTime + Period, Await(s, d)
      PROVE  TimerTypes' /\ WheelInv'
    <2>0. d \in Int /\ \A t \in Sleepers \ {s} : sleeper'[t] = sleeper[t]
        BY <1>1 DEF Await, TimerTypes
    <2>1. CASE d <= now /\ UNCHANGED <<wheel, nextKey>>
               /\ sleeper' = [sleeper EXCEPT ![s] = [Idle EXCEPT !.st = "fired", !.deadline = d]]
        <3>0. [Idle EXCEPT !.st = "fired", !.deadline = d] \in SleeperStates
            BY Zenon, <2>0, IdleStates
        <3>1. TimerTypes' BY <1>1, <2>1, <3>0 DEF Await, TimerTypes
        <3>2. sleeper'[s].st = "fired" /\ sleeper'[s].deadline = d
            BY <2>1 DEF TimerTypes, Idle
        <3>3. \A e \in wheel : e.waker # s BY <1>1 DEF WheelInv, Await
        <3> QED BY <1>1, <2>0, <2>1, <3>1, <3>2, <3>3
                DEF Await, WheelInv, IsCompleted, TimerTypes, Entries
    <2>2. CASE /\ wheel' = wheel \cup {[deadline |-> d, key |-> nextKey, waker |-> s]}
               /\ nextKey' = nextKey + 1
               /\ sleeper' = [sleeper EXCEPT ![s] =
                            [Idle EXCEPT !.st = "armed", !.deadline = d, !.key = nextKey]]
        <3> DEFINE entry == [deadline |-> d, key |-> nextKey, waker |-> s]
        <3>0. now' = now BY <1>1 DEF Await
        <3>a. nextKey \in Int BY DEF TimerTypes
        <3>b. [Idle EXCEPT !.st = "armed", !.deadline = d, !.key = nextKey] \in SleeperStates
            BY Zenon, <2>0, <3>a, IdleStates
        <3>1. TimerTypes' BY <2>0, <2>2, <3>0, <3>b DEF TimerTypes, Entries
        <3>2. sleeper'[s].st = "armed" /\ sleeper'[s].deadline = d /\ sleeper'[s].key = nextKey
            BY <2>2 DEF TimerTypes, Idle
        <3>3. \A e \in wheel : e.waker \in Sleepers \ {s}
            BY <1>1 DEF WheelInv, Await, TimerTypes, Entries
        <3>4. \A e \in wheel' : /\ sleeper'[e.waker].st = "armed"
                               /\ sleeper'[e.waker].key = e.key
                               /\ sleeper'[e.waker].deadline = e.deadline
            BY <2>0, <2>2, <3>2, <3>3 DEF WheelInv
        <3>5. \A t \in Sleepers : sleeper'[t].st = "armed" /\ t # s =>
                  sleeper'[t].key \in 0 .. nextKey - 1
            BY <2>0 DEF WheelInv
        <3>6. \A t \in Sleepers : sleeper'[t].st = "armed" =>
                  /\ sleeper'[t].key \in 0 .. nextKey' - 1
                  /\ IsCompleted(sleeper[t].key)' => sleeper'[t].deadline <= now'
            <4>1. ~IsCompleted(sleeper[s].key)'
                <5>1. entry \in wheel' /\ entry.key = nextKey BY <2>2
                <5> QED BY <3>2, <5>1 DEF IsCompleted
            <4>2. \A k : IsCompleted(k)' => IsCompleted(k) BY <2>2 DEF IsCompleted
            <4> QED BY <2>0, <2>2, <3>0, <3>2, <4>1, <4>2 DEF WheelInv, TimerTypes
        <3>7. \A t, u \in Sleepers : sleeper'[t].st = "armed" /\ sleeper'[u].st = "armed"
                                   /\ sleeper'[t].key = sleeper'[u].key => t = u
            BY <2>0, <3>2, <3>5 DEF WheelInv, TimerTypes
        <3>8. \A t \in Sleepers : sleeper'[t].st = "fired" => sleeper'[t].deadline <= now'
            BY <2>0, <3>0, <3>2 DEF WheelInv
        <3> QED BY <3>1, <3>4, <3>6, <3>7, <3>8 DEF WheelInv
    <2> QED BY <1>1, <2>1, <2>2 DEF Await
<1>2. ASSUME NEW s \in Sleepers, InnerReady(s) PROVE TimerTypes' /\ WheelInv'
    <2>1. TimerTypes' BY Zenon, <1>2 DEF InnerReady, TimerTypes, SleeperStates
    <2>2. \A t \in Sleepers : /\ sleeper'[t].st = sleeper[t].st
                              /\ sleeper'[t].key = sleeper[t].key
                              /\ sleeper'[t].deadline = sleeper[t].deadline
        BY <1>2 DEF InnerReady, TimerTypes, SleeperStates
    <2> QED BY <1>2, <2>1, <2>2 DEF InnerReady, WheelInv, IsCompleted, TimerTypes, Entries
<1>9. ASSUME NEW s \in Sleepers, ReadyAtOnce(s) PROVE TimerTypes' /\ WheelInv'
    <2>1. TimerTypes' BY Zenon, <1>9 DEF ReadyAtOnce, TimerTypes, SleeperStates
    <2>2. /\ sleeper[s].st = "idle" /\ sleeper'[s].st = "done"
          /\ \A t \in Sleepers \ {s} : sleeper'[t] = sleeper[t]
        BY <1>9 DEF ReadyAtOnce, TimerTypes, SleeperStates
    <2> QED BY <1>9, <2>1, <2>2 DEF ReadyAtOnce, WheelInv, IsCompleted, TimerTypes, Entries
<1>3. ASSUME NEW s \in Sleepers, PollSleeper(s) PROVE TimerTypes' /\ WheelInv'
    <2>1. CASE /\ wheel' = Kept(sleeper[s].key)
               /\ sleeper' = [sleeper EXCEPT ![s] = [Idle EXCEPT !.st = "done"]]
        <3> DEFINE f == [Idle EXCEPT !.st = "done"]
        <3>1. f \in SleeperStates /\ f.st = "done" BY Zenon, IdleStates
        <3> HIDE DEF f
        <3> QED BY Zenon, <1>3, <2>1, <3>1, KeptKeeps DEF PollSleeper, f
    <2>2. CASE /\ IsCompleted(sleeper[s].key) /\ UNCHANGED wheel
               /\ sleeper' = [sleeper EXCEPT ![s].st = "fired", ![s].awake = FALSE,
                                            ![s].key = NoTime]
        <3>1. TimerTypes' BY <1>3, <2>2 DEF PollSleeper, TimerTypes, SleeperStates, NoTime
        <3>2. sleeper'[s].st = "fired" /\ sleeper'[s].deadline = sleeper[s].deadline
            BY <2>2 DEF TimerTypes, SleeperStates
        <3>3. sleeper[s].deadline <= now BY <1>3, <2>2 DEF PollSleeper, WheelInv
        <3>4. \A e \in wheel : e.waker # s BY <1>3, <2>2 DEF WheelInv, IsCompleted
        <3>5. \A t \in Sleepers \ {s} : sleeper'[t] = sleeper[t] BY <2>2 DEF TimerTypes
        <3> QED BY <1>3, <2>2, <3>1, <3>2, <3>3, <3>4, <3>5
                DEF PollSleeper, WheelInv, IsCompleted, TimerTypes, Entries
    <2>3. CASE UNCHANGED wheel /\ sleeper' = [sleeper EXCEPT ![s].awake = FALSE]
        <3>1. TimerTypes' BY Zenon, <1>3, <2>3 DEF PollSleeper, TimerTypes, SleeperStates
        <3>2. \A t \in Sleepers : /\ sleeper'[t].st = sleeper[t].st
                                  /\ sleeper'[t].key = sleeper[t].key
                                  /\ sleeper'[t].deadline = sleeper[t].deadline
            BY <2>3 DEF TimerTypes, SleeperStates
        <3> QED BY <1>3, <2>3, <3>1, <3>2
                DEF PollSleeper, WheelInv, IsCompleted, TimerTypes, Entries
    <2> QED BY <1>3, <2>1, <2>2, <2>3 DEF PollSleeper
<1>4. ASSUME NEW s \in Sleepers, Fire(s) PROVE TimerTypes' /\ WheelInv'
    <2>0. \A x \in {"idle", "done"} :
            [Idle EXCEPT !.st = x] \in SleeperStates /\ [Idle EXCEPT !.st = x].st = x
        BY Zenon, IdleStates
    <2>1. /\ TimerTypes'
          /\ sleeper'[s].st \in {"idle", "done"}
          /\ \A t \in Sleepers \ {s} : sleeper'[t] = sleeper[t]
        BY <1>4, <2>0 DEF Fire, TimerTypes
    <2>2. \A e \in wheel : e.waker \in Sleepers \ {s}
        BY <1>4 DEF Fire, WheelInv, TimerTypes, Entries
    <2> QED BY <1>4, <2>1, <2>2 DEF Fire, WheelInv, IsCompleted
<1>5. ASSUME NEW s \in Sleepers, CancelSleep(s) PROVE TimerTypes' /\ WheelInv'
    <2>1. Idle \in SleeperStates /\ Idle.st = "idle" BY DEF SleeperStates, Idle, NoTime
    <2> QED BY Zenon, <1>5, <2>1, KeptKeeps DEF CancelSleep
<1>6. CASE Unpark \/ WakeTimers BY <1>6, WakeDueKeeps DEF Unpark, WakeTimers
<1>7. CASE Tick BY <1>7 DEF Tick, TimerTypes, WheelInv, IsCompleted, SleeperStates
<1>8. CASE Park \/ UNCHANGED timerVars \/ \E start \in 0 .. MaxTime : Reset(start)
    BY <1>8 DEF Park, Reset, timerVars, TimerTypes, WheelInv, IsCompleted
<1> QED BY <1>1, <1>2, <1>3, <1>4, <1>5, <1>6, <1>7, <1>8, <1>9 DEF TimerNext

\* The invariant holds of an empty wheel.
LEMMA WheelStart == TimerInit => TimerTypes /\ WheelInv
BY DEF TimerInit, TimerTypes, WheelInv, SleeperStates, Idle, NoTime

\* Every sleep, timeout and tick ends no earlier than its deadline, and the wheel
\* holds exactly the entries of the pending futures, for any number of tasks
\* (time/driver.rs:98-105, 152-158).
THEOREM WheelHoldsPending == TimerSpec => []TimersExact
BY WheelStart, WheelStep, WheelExact, PTL DEF TimerSpec

-----------------------------------------------------------------------------
(* The grid *)

Tickers == [first : BOOLEAN, start : Int, last : Int, due : Int, resets : Nat]
OnGrid(instant) == (instant - ticker.start) % Period = 0

\* A pending tick waits for an instant of the grid after the last one returned.
GridInv ==
    /\ ticker \in Tickers /\ ticker.start >= 0
    /\ ticker.first <=> ticker.due # NoTime
    /\ TicksOnGrid
    /\ \A s \in Sleepers : SleeperKind[s] = "interval" /\ sleeper[s].st \in {"armed", "fired"} =>
          OnGrid(sleeper[s].deadline) /\ sleeper[s].deadline > ticker.due
          /\ sleeper[s].deadline >= 0

\* A whole number of periods leaves no remainder.
LEMMA MultipleOnGrid ==
    ASSUME NEW q \in Int
    PROVE  (Period * q) % Period = 0
BY PeriodAssumption

\* Interval::tick subtracts the drift, so the next tick is a whole number of
\* periods from the start and later than now.
LEMMA NextOnGrid ==
    ASSUME NEW n \in Int, NEW start \in Int,
           NEW d, d = n + Period - ((n - start) % Period)
    PROVE  d \in Int /\ d > n /\ (d - start) % Period = 0
<1> DEFINE r == (n - start) % Period
           q == (n - start) \div Period
<1>1. /\ r \in Int /\ q \in Int /\ 0 <= r /\ r < Period
      /\ n - start = Period * q + r
    BY PeriodAssumption
<1>2. d = n + Period - r OBVIOUS
<1> HIDE DEF r, q
<1>3. d - start = Period * (q + 1)
    <2>1. Period * (q + 1) = Period * q + Period BY <1>1, PeriodAssumption
    <2>2. Period * q \in Int BY <1>1, PeriodAssumption
    <2> QED BY <1>1, <1>2, <2>1, <2>2, PeriodAssumption
<1>4. q + 1 \in Int BY <1>1
<1>5. (d - start) % Period = 0 BY <1>3, <1>4, MultipleOnGrid
<1>6. d > n /\ d \in Int BY <1>1, <1>2, PeriodAssumption
<1> QED BY <1>5, <1>6

\* A step that leaves the interval and the clock alone, and arms nothing.
LEMMA GridUndisturbed ==
    ASSUME GridInv, UNCHANGED <<now, ticker>>,
           \A s \in Sleepers : SleeperKind[s] = "interval" /\ sleeper'[s].st \in {"armed", "fired"} =>
              /\ sleeper[s].st \in {"armed", "fired"}
              /\ sleeper'[s].deadline = sleeper[s].deadline
    PROVE  GridInv'
BY DEF GridInv, TicksOnGrid, OnGrid

\* Every step keeps the invariant of the grid.
LEMMA GridStep == TimerTypes /\ WheelInv /\ GridInv /\ [TimerNext]_timerVars => GridInv'
<1> SUFFICES ASSUME TimerTypes, WheelInv, GridInv, [TimerNext]_timerVars PROVE GridInv'
    OBVIOUS
<1>1. ASSUME NEW s \in Sleepers, NEW d \in 0 .. MaxTime + Period, Await(s, d) PROVE GridInv'
    <2>1. /\ UNCHANGED <<now, ticker>> /\ sleeper'[s].deadline = d
          /\ \A t \in Sleepers \ {s} : sleeper'[t] = sleeper[t]
        BY Zenon, <1>1 DEF Await, TimerTypes, Idle
    <2>2. CASE SleeperKind[s] # "interval" BY <2>1, <2>2, GridUndisturbed
    <2>3. CASE SleeperKind[s] = "interval"
        <3>1. d = NextTick /\ d >= 0 BY <1>1, <2>3 DEF Await
        <3>2. d > ticker.due /\ OnGrid(d)
            <4>1. CASE ~ticker.first
                <5>1. d = ticker.start /\ d \in Int /\ ticker.due = NoTime
                    BY <3>1, <4>1 DEF NextTick, GridInv, Tickers
                <5>2. d - ticker.start = Period * 0 BY <5>1, PeriodAssumption
                <5> QED BY <3>1, <5>1, <5>2, MultipleOnGrid DEF OnGrid, NoTime
            <4>2. CASE ticker.first
                <5>1. d = now + Period - ((now - ticker.start) % Period)
                    BY <3>1, <4>2 DEF NextTick
                <5>2. now \in Int /\ ticker.start \in Int /\ ticker.due \in Int
                      /\ ticker.due <= now
                    BY <4>2 DEF GridInv, TicksOnGrid, TimerTypes, Tickers
                <5>3. d > now /\ (d - ticker.start) % Period = 0 /\ d \in Int
                    BY <5>1, <5>2, NextOnGrid, Zenon
                <5> QED BY <5>2, <5>3 DEF OnGrid
            <4> QED BY <4>1, <4>2
        <3>3. \A t \in Sleepers : SleeperKind[t] = "interval" => t = s
            BY <2>3, SleeperKindAssumption
        <3> QED BY <2>1, <3>1, <3>2, <3>3 DEF GridInv, TicksOnGrid, OnGrid
    <2> QED BY <2>2, <2>3
<1>2. ASSUME NEW s \in Sleepers, Fire(s) PROVE GridInv'
    <2>1. sleeper'[s].st \in {"idle", "done"} /\ now' = now
          /\ \A t \in Sleepers \ {s} : sleeper'[t] = sleeper[t]
        BY <1>2 DEF Fire, TimerTypes, Idle
    <2>2. CASE SleeperKind[s] # "interval" BY <1>2, <2>1, <2>2, GridUndisturbed DEF Fire
    <2>3. CASE SleeperKind[s] = "interval"
        <3>1. /\ OnGrid(sleeper[s].deadline) /\ sleeper[s].deadline > ticker.due
              /\ sleeper[s].deadline >= 0 /\ sleeper[s].deadline <= now
              /\ sleeper[s].deadline \in Int
            BY <1>2, <2>3 DEF Fire, GridInv, WheelInv, TimerTypes, SleeperStates
        <3>2. ticker' = [ticker EXCEPT !.first = TRUE, !.last = ticker.due,
                                       !.due = sleeper[s].deadline]
            BY <1>2, <2>3 DEF Fire
        <3>3. /\ ticker' \in Tickers /\ ticker'.first /\ ticker'.start = ticker.start
              /\ ticker'.last = ticker.due /\ ticker'.due = sleeper[s].deadline
            BY Zenon, <3>1, <3>2 DEF GridInv, Tickers
        <3>4. \A t \in Sleepers : SleeperKind[t] = "interval" => t = s
            BY <2>3, SleeperKindAssumption
        <3>5. TicksOnGrid' BY <2>1, <3>1, <3>3 DEF TicksOnGrid, OnGrid
        <3>6. ticker'.due # NoTime /\ ticker'.start >= 0
            BY <3>1, <3>3 DEF NoTime, GridInv
        <3> QED BY <2>1, <3>3, <3>4, <3>5, <3>6 DEF GridInv
    <2> QED BY <2>2, <2>3
<1>3. ASSUME NEW start \in 0 .. MaxTime, Reset(start) PROVE GridInv'
    <2>1. ticker' \in Tickers /\ ~ticker'.first /\ ticker'.start >= 0 /\ ticker'.due = NoTime
        BY <1>3 DEF Reset, GridInv, Tickers, NoTime
    <2>2. \A t \in Sleepers : SleeperKind[t] = "interval" => sleeper'[t].st = "idle"
        BY <1>3, SleeperKindAssumption DEF Reset
    <2> QED BY <2>1, <2>2 DEF GridInv, TicksOnGrid
<1>4. ASSUME NEW s \in Sleepers,
             ReadyAtOnce(s) \/ InnerReady(s) \/ PollSleeper(s) \/ CancelSleep(s)
      PROVE  GridInv'
    <2>1. UNCHANGED <<now, ticker>> /\ \A t \in Sleepers \ {s} : sleeper'[t] = sleeper[t]
        BY <1>4 DEF ReadyAtOnce, InnerReady, PollSleeper, CancelSleep, TimerTypes
    <2>2. sleeper'[s].st \in {"armed", "fired"} =>
            sleeper[s].st = "armed" /\ sleeper'[s].deadline = sleeper[s].deadline
        BY <1>4 DEF ReadyAtOnce, InnerReady, PollSleeper, CancelSleep, TimerTypes, SleeperStates, Idle
    <2> QED BY <2>1, <2>2, GridUndisturbed
<1>5. CASE Unpark \/ WakeTimers
    <2>1. \A t \in Sleepers : sleeper'[t].st = sleeper[t].st
                             /\ sleeper'[t].deadline = sleeper[t].deadline
        BY <1>5 DEF Unpark, WakeTimers, WakeDue, TimerTypes, SleeperStates
    <2> QED BY <1>5, <2>1, GridUndisturbed DEF Unpark, WakeTimers
<1>6. CASE Tick BY <1>6 DEF Tick, GridInv, TicksOnGrid, OnGrid, TimerTypes, Tickers
<1>7. CASE Park \/ UNCHANGED timerVars BY <1>7, GridUndisturbed DEF Park, timerVars
<1> QED BY <1>1, <1>2, <1>3, <1>4, <1>5, <1>6, <1>7 DEF TimerNext

\* The ticks of an interval are start + k * period, never early and never twice
\* for one instant, for any period and however late each tick was taken
\* (time/interval.rs:43-59).
THEOREM TicksStayOnGrid == TimerSpec => []TicksOnGrid
<1>1. TimerInit => GridInv
    BY DEF TimerInit, GridInv, TicksOnGrid, Tickers, Idle, NoTime
<1>2. GridInv => TicksOnGrid BY DEF GridInv
<1> QED BY <1>1, <1>2, WheelStart, WheelStep, GridStep, PTL DEF TimerSpec

-----------------------------------------------------------------------------
(***************************************************************************)
(* Signals.                                                                *)
(*                                                                         *)
(* A waker that was stored stays in its slot or in the hands of a handler  *)
(* until its task is awake (WakerKept), a handler that holds the lock of a *)
(* slot has woken the waker in it (HeldWoke), and a listener that is parked *)
(* and behind has a handler coming to it (Reached).                        *)
(***************************************************************************)

SignalSpec == SignalInit /\ [][SignalNext]_signalVars

ListenerStates ==
  [pc : {"none", "publish", "new", "idle", "store", "unlock", "recheck", "parked", "retire", "gone"},
   seen : Nat, owed : BOOLEAN, awake : BOOLEAN]
RunnerStates ==
  [pc : {"idle", "next", "try", "held", "wake"}, todo : SUBSET Slots, at : Slots \cup {None},
   woken : SUBSET Listeners]
SignalTypes ==
  /\ platform \in {"unix", "windows"} /\ registry \subseteq Listeners
  /\ counter \in [Slots -> Nat] /\ slot \in [Slots -> SUBSET Listeners]
  /\ lock \in [Slots -> Listeners \cup Handlers \cup {None}]
  /\ listener \in [Listeners -> ListenerStates]
  /\ runner \in [Handlers -> RunnerStates]
  /\ missed \in BOOLEAN

Registered(l) == listener[l].pc \in {"new", "idle", "store", "unlock", "recheck", "parked", "retire"}
Wanted == {l \in Listeners : listener[l].pc \in {"publish", "new"} \/ Listening(l)}

RegistryExact ==
  /\ platform = "unix" => registry = {l \in Listeners : Registered(l)}
  /\ platform = "unix" => installed = {SignumOf[l] : l \in Wanted}
  /\ platform = "windows" => installed = Signums
  /\ \A l \in Listeners : listener[l].pc \in {"publish", "retire"} => writer = l
  /\ ~missed

RunnersExact ==
  \A h \in Handlers :
    /\ runner[h].pc = "idle" => runner[h] = NoRunner
    /\ runner[h].pc \in {"try", "held", "wake"} => runner[h].at \in Slots
    /\ runner[h].pc = "wake" => platform = "windows"
    /\ runner[h].pc = "held" => platform = "unix"
    /\ platform = "windows" => runner[h].todo \subseteq {Shared} /\ runner[h].at \in {Shared, None}

LocksHeld ==
  /\ \A h \in Handlers : runner[h].pc = "held" => lock[runner[h].at] = h
  /\ \A l \in Listeners : listener[l].pc = "unlock" => lock[SlotOf(l)] = l
  /\ \A s \in Slots : lock[s] # None =>
        \/ \E h \in Handlers : lock[s] = h /\ runner[h].pc = "held" /\ runner[h].at = s
        \/ \E l \in Listeners : lock[s] = l /\ listener[l].pc = "unlock" /\ SlotOf(l) = s

InWoken(l) == \E h \in Handlers : runner[h].pc = "wake" /\ l \in runner[h].woken
Trying(l) == \E h \in Handlers : runner[h].pc = "try" /\ runner[h].at = SlotOf(l)
Ahead(l) == \E h \in Handlers : SlotOf(l) \in runner[h].todo
Behind(l) == counter[SlotOf(l)] # listener[l].seen

WakerKept(l) ==
  listener[l].pc \in {"unlock", "recheck", "parked"} /\ ~listener[l].awake
    => l \in slot[SlotOf(l)] \/ InWoken(l)
HeldWoke(l) ==
  \A h \in Handlers :
    /\ listener[l].pc \in {"recheck", "parked"}
    /\ runner[h].pc = "held" /\ runner[h].at = SlotOf(l)
    => listener[l].awake
Owing(l) ==
  Listening(l) => /\ listener[l].seen <= counter[SlotOf(l)]
                  /\ listener[l].owed => Behind(l) \/ Ahead(l)
Reached(l) ==
  listener[l].pc = "parked" /\ ~listener[l].awake /\ Behind(l) => InWoken(l) \/ Trying(l)
Served(l) == WakerKept(l) /\ HeldWoke(l) /\ Owing(l) /\ Reached(l)

SignalInv ==
  /\ SignalTypes /\ RegistryExact /\ RunnersExact /\ LocksHeld
  /\ \A l \in Listeners : Served(l)

\* A poll that finds a signal leaves its listener idle, with the count it saw.
LEMMA SeenFacts ==
  ASSUME SignalTypes, NEW l \in Listeners
  PROVE  /\ Seen(l, "idle") \in ListenerStates /\ counter[SlotOf(l)] \in Nat
         /\ Seen(l, "idle").pc = "idle" /\ ~Seen(l, "idle").owed
         /\ Seen(l, "idle").seen = counter[SlotOf(l)]
<1> DEFINE r == listener[l]
           n == counter[SlotOf(l)]
           t == [r EXCEPT !.pc = "idle", !.seen = n, !.owed = FALSE, !.awake = FALSE]
<1>1. SlotOf(l) \in Slots BY DEF SlotOf, Slots
<1>2. r \in ListenerStates /\ n \in Nat BY <1>1 DEF SignalTypes
<1>3. Seen(l, "idle") = t BY DEF Seen
<1>4. t \in ListenerStates /\ t.pc = "idle" /\ t.seen = n /\ ~t.owed
  <2> HIDE DEF r, n
  <2>1. t \in ListenerStates BY <1>2 DEF ListenerStates
  <2>2. t.pc = "idle" /\ t.seen = n /\ ~t.owed BY <1>2 DEF ListenerStates
  <2> QED BY <2>1, <2>2
<1> QED BY <1>2, <1>3, <1>4

\* Every step keeps the types.
LEMMA SignalTypesStep == SignalInv /\ SignalNext => SignalTypes'
<1> SUFFICES ASSUME SignalTypes, RunnersExact, SignalNext PROVE SignalTypes'
  BY DEF SignalInv
<1> USE DEF SignalTypes, ListenerStates, RunnerStates, NoListener, NoRunner
<1>1. ASSUME NEW l \in Listeners, Register(l) PROVE SignalTypes'
  <2>1. /\ counter' \in [Slots -> Nat] /\ slot' \in [Slots -> SUBSET Listeners]
        /\ UNCHANGED <<platform, registry, lock, runner, missed>>
    BY <1>1 DEF Register, Slots
  <2>2. \E pc \in {"publish", "gone"} : listener' = [listener EXCEPT ![l].pc = pc]
    BY <1>1 DEF Register
  <2>3. listener' \in [Listeners -> ListenerStates] BY <2>2
  <2> QED BY <2>1, <2>3
<1>2. ASSUME NEW l \in Listeners, Publish(l) PROVE SignalTypes'
  BY <1>2 DEF Publish
<1>3. ASSUME NEW l \in Listeners, ReadSeen(l) PROVE SignalTypes'
  BY Zenon, <1>3 DEF ReadSeen, SlotOf, Slots
<1>4. ASSUME NEW l \in Listeners, Unregister(l) PROVE SignalTypes'
  BY Zenon, <1>4 DEF Unregister
<1>5. ASSUME NEW l \in Listeners, Retire(l) PROVE SignalTypes'
  BY <1>5 DEF Retire
<1>6. ASSUME NEW l \in Listeners, Recv(l) PROVE SignalTypes'
  <2>2. Seen(l, "idle") \in ListenerStates BY SeenFacts
  <2>3. [listener[l] EXCEPT !.pc = "store", !.awake = FALSE] \in ListenerStates BY Zenon
  <2> HIDE DEF ListenerStates
  <2>4. listener' \in [Listeners -> ListenerStates] BY <1>6, <2>2, <2>3 DEF Recv
  <2> QED BY <1>6, <2>4 DEF Recv
<1>7. ASSUME NEW l \in Listeners, StoreWaker(l) PROVE SignalTypes'
  BY <1>7 DEF StoreWaker, SlotOf, Slots
<1>8. ASSUME NEW l \in Listeners, UnlockSlot(l) PROVE SignalTypes'
  BY SMTT(30), <1>8 DEF UnlockSlot, SlotOf, Slots
<1>9. ASSUME NEW l \in Listeners, Recheck(l) PROVE SignalTypes'
  <2>2. Seen(l, "idle") \in ListenerStates BY SeenFacts
  <2>3. [listener[l] EXCEPT !.pc = "parked"] \in ListenerStates OBVIOUS
  <2> HIDE DEF ListenerStates
  <2>4. listener' \in [Listeners -> ListenerStates] BY <1>9, <2>2, <2>3 DEF Recheck
  <2> QED BY <1>9, <2>4 DEF Recheck
<1>10. ASSUME NEW l \in Listeners, DropRecv(l) PROVE SignalTypes'
  <2>1. [listener[l] EXCEPT !.pc = "idle", !.awake = FALSE] \in ListenerStates BY ZenonT(40)
  <2>2. listener' = [listener EXCEPT ![l] = [listener[l] EXCEPT !.pc = "idle", !.awake = FALSE]]
    BY Zenon, <1>10 DEF DropRecv
  <2> HIDE DEF ListenerStates
  <2>3. listener' \in [Listeners -> ListenerStates] BY <2>1, <2>2
  <2> QED BY <1>10, <2>3 DEF DropRecv
<1>11. ASSUME NEW s \in Signums, Deliver(s) PROVE SignalTypes'
  <2> PICK h \in IdleHandler : Deliver(s)!(h) BY Zenon, <1>11 DEF Deliver
  <2>1. h \in Handlers BY DEF IdleHandler
  <2>2. NextEntry(IF platform = "windows" THEN {Shared} ELSE {l \in registry : SignumOf[l] = s})
          \in RunnerStates
    BY Zenon DEF NextEntry, Slots
  <2>3. \A l \in Listeners : [listener[l] EXCEPT !.owed = TRUE] \in ListenerStates BY Zenon
  <2>4. missed' \in BOOLEAN BY Zenon
  <2> HIDE DEF ListenerStates, RunnerStates
  <2>5. listener' \in [Listeners -> ListenerStates] BY <2>3
  <2>6. runner' \in [Handlers -> RunnerStates] BY <2>1, <2>2
  <2> QED BY <2>4, <2>5, <2>6
<1>12. ASSUME NEW h \in Handlers, Bump(h) PROVE SignalTypes'
  BY <1>12 DEF Bump
<1>13. ASSUME NEW h \in Handlers, TakeWaker(h) PROVE SignalTypes'
  <2>1. \A l \in Listeners : [listener[l] EXCEPT !.awake = TRUE] \in ListenerStates BY Zenon
  <2>2. runner[h].at \in Slots BY <1>13 DEF TakeWaker, RunnersExact
  <2>3. /\ [runner[h] EXCEPT !.pc = "held"] \in RunnerStates
        /\ [runner[h] EXCEPT !.pc = "wake", !.woken = slot[runner[h].at]] \in RunnerStates
    BY Zenon, <2>2
  <2> HIDE DEF ListenerStates, RunnerStates
  <2>4. listener' \in [Listeners -> ListenerStates] BY <1>13, <2>1 DEF TakeWaker, Awaken
  <2>5. runner' \in [Handlers -> RunnerStates] BY Zenon, <1>13, <2>3 DEF TakeWaker
  <2> QED BY <1>13, <2>2, <2>4, <2>5 DEF TakeWaker
<1>14. ASSUME NEW h \in Handlers, WakeAll(h) PROVE SignalTypes'
  BY ZenonT(40), <1>14 DEF WakeAll, Awaken, NextEntry
<1>15. ASSUME NEW h \in Handlers, TryLockFails(h) PROVE SignalTypes'
  BY Zenon, <1>15 DEF TryLockFails, NextEntry
<1>16. ASSUME NEW h \in Handlers, Release(h) PROVE SignalTypes'
  BY Zenon, <1>16 DEF Release, NextEntry
<1> QED
  BY <1>1, <1>2, <1>3, <1>4, <1>5, <1>6, <1>7, <1>8, <1>9, <1>10, <1>11, <1>12, <1>13, <1>14,
     <1>15, <1>16 DEF SignalNext

\* Most steps leave a listener as alive as it was.
LEMMA RegistryFrame ==
  ASSUME RegistryExact, UNCHANGED <<platform, registry, writer, installed, missed>>,
         \A l \in Listeners : \/ listener'[l].pc = listener[l].pc
                              \/ Listening(l) /\ Listening(l)'
  PROVE  RegistryExact'
<1>1. \A l \in Listeners : Listening(l)' <=> Listening(l) BY DEF Listening
<1>2. \A l \in Listeners : Registered(l)' <=> Registered(l) BY DEF Listening, Registered
<1>3. Wanted' = Wanted BY <1>1 DEF Wanted, Listening
<1>4. \A l \in Listeners : listener'[l].pc \in {"publish", "retire"} => listener[l].pc = listener'[l].pc
  BY DEF Listening
<1> QED BY <1>2, <1>3, <1>4 DEF RegistryExact

\* Every step keeps the registry and the installed handlers together.
LEMMA RegistryStep == SignalInv /\ SignalNext => RegistryExact'
<1> SUFFICES ASSUME SignalTypes, RegistryExact, SignalNext PROVE RegistryExact'
  BY DEF SignalInv
<1> USE DEF SignalTypes, ListenerStates, NoListener
<1>1. ASSUME NEW l \in Listeners, Register(l) PROVE RegistryExact'
  <2>1. CASE /\ writer' = l /\ installed' = installed \cup {SignumOf[l]}
             /\ listener' = [listener EXCEPT ![l].pc = "publish"]
    <3>1. \A k \in Listeners : listener'[k].pc = IF k = l THEN "publish" ELSE listener[k].pc
      BY <2>1
    <3>2. Wanted' = Wanted \cup {l} BY <3>1, <1>1 DEF Wanted, Listening, Register
    <3>3. \A k \in Listeners : Registered(k)' <=> Registered(k)
      BY <3>1, <1>1 DEF Registered, Register
    <3>4. \A k \in Listeners : listener[k].pc \notin {"publish", "retire"}
      BY <1>1, SignalNames DEF Register, RegistryExact
    <3>5. installed' = {SignumOf[k] : k \in Wanted'} BY <1>1, <2>1, <3>2 DEF RegistryExact, Register
    <3> QED BY <1>1, <2>1, <3>1, <3>3, <3>4, <3>5 DEF RegistryExact, Register
  <2>2. CASE /\ SignumOf[l] \notin installed /\ listener' = [listener EXCEPT ![l].pc = "gone"]
             /\ UNCHANGED <<writer, installed, counter, slot>>
    <3>1. \A k \in Listeners : listener'[k].pc = IF k = l THEN "gone" ELSE listener[k].pc
      BY <2>2
    <3>2. Wanted' = Wanted BY <3>1, <1>1 DEF Wanted, Listening, Register
    <3>3. \A k \in Listeners : Registered(k)' <=> Registered(k)
      BY <3>1, <1>1 DEF Registered, Register
    <3> QED BY <1>1, <2>2, <3>1, <3>2, <3>3 DEF RegistryExact, Register
  <2> QED BY <1>1, <2>1, <2>2 DEF Register
<1>2. ASSUME NEW l \in Listeners, Publish(l) PROVE RegistryExact'
  <2>1. \A k \in Listeners : listener'[k].pc = IF k = l THEN "new" ELSE listener[k].pc
    BY <1>2 DEF Publish
  <2>2. Wanted' = Wanted BY <2>1, <1>2 DEF Wanted, Listening, Publish
  <2>3. \A k \in Listeners : Registered(k)' <=> (Registered(k) \/ k = l)
    BY <2>1, <1>2 DEF Registered, Publish
  <2>4. \A k \in Listeners : listener'[k].pc \notin {"publish", "retire"}
    BY <2>1, <1>2 DEF RegistryExact, Publish
  <2>5. platform' = "unix" => registry' = {k \in Listeners : Registered(k)'}
    BY <1>2, <2>3 DEF RegistryExact, Publish
  <2> QED BY <1>2, <2>2, <2>4, <2>5 DEF RegistryExact, Publish
<1>3. ASSUME NEW l \in Listeners, ReadSeen(l) PROVE RegistryExact'
  <2>1. \A k \in Listeners : listener'[k].pc = IF k = l THEN "idle" ELSE listener[k].pc
    BY <1>3 DEF ReadSeen
  <2>2. CASE platform = "windows"
    BY <1>3, <2>1, <2>2 DEF RegistryExact, ReadSeen
  <2>3. CASE platform = "unix"
    <3>1. Wanted' = Wanted BY <2>1, <1>3, <2>3 DEF Wanted, Listening, ReadSeen
    <3>2. \A k \in Listeners : Registered(k)' <=> Registered(k)
      BY <2>1, <1>3, <2>3 DEF Registered, ReadSeen
    <3> QED BY <1>3, <2>1, <2>3, <3>1, <3>2 DEF RegistryExact, ReadSeen
  <2> QED BY <2>2, <2>3
<1>4. ASSUME NEW l \in Listeners, Unregister(l) PROVE RegistryExact'
  <2>0. /\ listener[l].pc \in {"idle", "parked"} /\ writer = None
        /\ UNCHANGED <<platform, registry, missed>>
    BY <1>4 DEF Unregister
  <2>1. \A k \in Listeners : listener'[k].pc =
          IF k = l THEN IF platform = "unix" THEN "retire" ELSE "gone" ELSE listener[k].pc
    BY <1>4 DEF Unregister
  <2>2. CASE platform = "windows"
    BY <1>4, <2>0, <2>1, <2>2 DEF RegistryExact, Unregister
  <2>3. CASE platform = "unix"
    <3>1. \A k \in Listeners : listener[k].pc \notin {"publish", "retire"}
      BY <2>0, SignalNames DEF RegistryExact
    <3>2. Wanted = registry /\ l \in registry
      BY <2>0, <2>3, <3>1 DEF Wanted, Listening, RegistryExact, Registered
    <3>3. Wanted' = Wanted \ {l} BY <2>1, <2>3 DEF Wanted, Listening
    <3>4. \A k \in Listeners : Registered(k)' <=> Registered(k)
      BY <2>0, <2>1, <2>3 DEF Registered
    <3>5. installed = {SignumOf[k] : k \in Wanted} BY <2>3 DEF RegistryExact
    <3>6. installed' = {SignumOf[k] : k \in Wanted'}
      <4>1. CASE \E k \in registry \ {l} : SignumOf[k] = SignumOf[l]
        BY <1>4, <2>3, <3>2, <3>3, <3>5, <4>1 DEF Unregister
      <4>2. CASE ~ \E k \in registry \ {l} : SignumOf[k] = SignumOf[l]
        <5>1. installed' = installed \ {SignumOf[l]} BY <1>4, <2>3, <4>2 DEF Unregister
        <5> QED BY <3>2, <3>3, <3>5, <4>2, <5>1
      <4> QED BY <4>1, <4>2
    <3>7. writer' = l BY <1>4, <2>3 DEF Unregister
    <3> QED BY <2>0, <2>1, <2>3, <3>1, <3>4, <3>6, <3>7 DEF RegistryExact
  <2> QED BY <2>2, <2>3
<1>5. ASSUME NEW l \in Listeners, Retire(l) PROVE RegistryExact'
  <2>1. \A k \in Listeners : listener'[k].pc = IF k = l THEN "gone" ELSE listener[k].pc
    BY <1>5 DEF Retire
  <2>2. Wanted' = Wanted BY <2>1, <1>5 DEF Wanted, Listening, Retire
  <2>3. \A k \in Listeners : Registered(k)' <=> (Registered(k) /\ k # l)
    BY <2>1, <1>5 DEF Registered, Retire
  <2>4. \A k \in Listeners : listener'[k].pc \notin {"publish", "retire"}
    BY <2>1, <1>5 DEF RegistryExact, Retire
  <2>5. platform' = "unix" => registry' = {k \in Listeners : Registered(k)'}
    BY <1>5, <2>3 DEF RegistryExact, Retire
  <2> QED BY <1>5, <2>2, <2>4, <2>5 DEF RegistryExact, Retire
<1>6. ASSUME NEW l \in Listeners, Recv(l) \/ StoreWaker(l) \/ UnlockSlot(l) \/ Recheck(l) \/ DropRecv(l)
      PROVE  RegistryExact'
  <2>1. \A k \in Listeners : \/ listener'[k].pc = listener[k].pc
                             \/ Listening(k) /\ Listening(k)'
    <3>1. \A k \in Listeners \ {l} : listener'[k] = listener[k]
      BY <1>6 DEF Recv, StoreWaker, UnlockSlot, Recheck, DropRecv
    <3>2. Listening(l) BY <1>6 DEF Listening, Recv, StoreWaker, UnlockSlot, Recheck, DropRecv
    <3>3. Listening(l)'
      <4>1. CASE Recv(l) BY <4>1 DEF Listening, Recv, Seen
      <4>2. CASE StoreWaker(l) \/ UnlockSlot(l) \/ DropRecv(l)
        BY <4>2 DEF Listening, StoreWaker, UnlockSlot, DropRecv
      <4>3. CASE Recheck(l) BY <4>3 DEF Listening, Recheck, Seen
      <4> QED BY <1>6, <4>1, <4>2, <4>3
    <3> QED BY <3>1, <3>2, <3>3
  <2>2. UNCHANGED <<platform, registry, writer, installed, missed>>
    BY <1>6 DEF Recv, StoreWaker, UnlockSlot, Recheck, DropRecv
  <2> QED BY <2>1, <2>2, RegistryFrame
<1>7. ASSUME NEW s \in Signums, Deliver(s) PROVE RegistryExact'
  <2> PICK h \in IdleHandler : Deliver(s)!(h) BY Zenon, <1>7 DEF Deliver
  <2>1. UNCHANGED <<platform, registry, writer, installed>> OBVIOUS
  <2>2. \A l \in Listeners : listener'[l].pc = listener[l].pc OBVIOUS
  <2>3. ~missed' BY DEF RegistryExact, Wanted, Signums
  <2> QED BY Zenon, <2>1, <2>2, <2>3, RegistryFrame DEF RegistryExact
<1>8. ASSUME NEW h \in Handlers, Bump(h) \/ TakeWaker(h) \/ WakeAll(h) \/ TryLockFails(h) \/ Release(h)
      PROVE  RegistryExact'
  <2>1. \A l \in Listeners : listener'[l].pc = listener[l].pc
    <3>1. CASE Bump(h) \/ TryLockFails(h) \/ Release(h) BY Zenon, <3>1 DEF Bump, TryLockFails, Release
    <3>2. CASE TakeWaker(h) BY <3>2 DEF TakeWaker, Awaken
    <3>3. CASE WakeAll(h) BY <3>3 DEF WakeAll, Awaken
    <3> QED BY <1>8, <3>1, <3>2, <3>3
  <2>2. UNCHANGED <<platform, registry, writer, installed, missed>>
    BY Zenon, <1>8 DEF Bump, TakeWaker, WakeAll, TryLockFails, Release
  <2> QED BY <2>1, <2>2, RegistryFrame
<1> QED
  BY <1>1, <1>2, <1>3, <1>4, <1>5, <1>6, <1>7, <1>8 DEF SignalNext

\* Every step keeps the handlers where they can be.
LEMMA RunnersStep == SignalInv /\ SignalNext => RunnersExact'
<1> SUFFICES ASSUME SignalTypes, RunnersExact, SignalNext PROVE RunnersExact'
  BY DEF SignalInv
<1>0. UNCHANGED platform
  BY Zenon DEF SignalNext, Register, Publish, ReadSeen, Unregister, Retire, Recv, StoreWaker, UnlockSlot,
     Recheck, DropRecv, Deliver, Bump, TakeWaker, WakeAll, TryLockFails, Release
<1>1. ASSUME UNCHANGED runner PROVE RunnersExact'
  BY <1>0, <1>1 DEF RunnersExact
<1>2. ASSUME NEW h \in Handlers, NEW r, runner' = [runner EXCEPT ![h] = r],
             r.pc = "idle" => r = NoRunner, r.pc \in {"try", "held", "wake"} => r.at \in Slots,
             r.pc = "wake" => platform = "windows", r.pc = "held" => platform = "unix",
             platform = "windows" => r.todo \subseteq {Shared} /\ r.at \in {Shared, None}
      PROVE  RunnersExact'
  BY <1>0, <1>2 DEF RunnersExact, SignalTypes
<1>3. \A todo : /\ NextEntry(todo).pc = "idle" => NextEntry(todo) = NoRunner
                /\ NextEntry(todo).pc \notin {"try", "held", "wake"}
                /\ NextEntry(todo).todo = todo /\ NextEntry(todo).at = None
  BY DEF NextEntry, NoRunner
<1>4. ASSUME NEW l \in Listeners,
             \/ Register(l) \/ Publish(l) \/ ReadSeen(l) \/ Unregister(l) \/ Retire(l)
             \/ Recv(l) \/ StoreWaker(l) \/ UnlockSlot(l) \/ Recheck(l) \/ DropRecv(l)
      PROVE  RunnersExact'
  BY <1>1, <1>4 DEF Register, Publish, ReadSeen, Unregister, Retire, Recv, StoreWaker, UnlockSlot,
     Recheck, DropRecv
<1>5. ASSUME NEW s \in Signums, Deliver(s) PROVE RunnersExact'
  <2> PICK h \in IdleHandler : Deliver(s)!(h) BY Zenon, <1>5 DEF Deliver
  <2> DEFINE todo == IF platform = "windows" THEN {Shared} ELSE {l \in registry : SignumOf[l] = s}
  <2>1. h \in Handlers BY DEF IdleHandler
  <2>2. runner' = [runner EXCEPT ![h] = NextEntry(todo)] \/ UNCHANGED runner OBVIOUS
  <2>3. platform = "windows" => todo \subseteq {Shared} OBVIOUS
  <2> HIDE DEF todo
  <2>4. /\ NextEntry(todo).pc = "idle" => NextEntry(todo) = NoRunner
        /\ NextEntry(todo).pc \notin {"try", "held", "wake"}
        /\ NextEntry(todo).todo = todo /\ NextEntry(todo).at = None
    BY <1>3
  <2>5. CASE runner' = [runner EXCEPT ![h] = NextEntry(todo)]
    BY Zenon, <1>2, <2>1, <2>3, <2>4, <2>5
  <2> QED BY <1>1, <2>2, <2>5
<1>6. ASSUME NEW h \in Handlers, Bump(h) PROVE RunnersExact'
  <2> PICK e \in runner[h].todo :
        runner' = [runner EXCEPT ![h].pc = "try", ![h].at = e, ![h].todo = @ \ {e}]
    BY Zenon, <1>6 DEF Bump
  <2>1. runner[h] \in RunnerStates /\ e \in Slots BY DEF SignalTypes, RunnerStates
  <2>2. runner' = [runner EXCEPT ![h] = [runner[h] EXCEPT !.pc = "try", !.at = e, !.todo = @ \ {e}]]
    BY Zenon DEF SignalTypes
  <2>3. [runner[h] EXCEPT !.pc = "try", !.at = e, !.todo = @ \ {e}].pc = "try" BY <2>1 DEF RunnerStates
  <2>4. /\ [runner[h] EXCEPT !.pc = "try", !.at = e, !.todo = @ \ {e}].at = e
        /\ [runner[h] EXCEPT !.pc = "try", !.at = e, !.todo = @ \ {e}].todo = runner[h].todo \ {e}
    BY <2>1 DEF RunnerStates
  <2>5. platform = "windows" => runner[h].todo \subseteq {Shared} BY DEF RunnersExact
  <2> QED BY Zenon, <1>2, <2>1, <2>2, <2>3, <2>4, <2>5
<1>7. ASSUME NEW h \in Handlers, TakeWaker(h) PROVE RunnersExact'
  <2>1. runner[h] \in RunnerStates /\ runner[h].at \in Slots
    BY <1>7 DEF SignalTypes, RunnersExact, TakeWaker
  <2>2. \/ /\ runner' = [runner EXCEPT ![h] = [runner[h] EXCEPT !.pc = "held"]]
           /\ platform = "unix"
        \/ /\ runner' = [runner EXCEPT ![h] = [runner[h] EXCEPT !.pc = "wake", !.woken = slot[runner[h].at]]]
           /\ platform = "windows"
    BY Zenon, <1>7 DEF SignalTypes, TakeWaker
  <2>3. /\ [runner[h] EXCEPT !.pc = "held"].pc = "held" /\ [runner[h] EXCEPT !.pc = "held"].at \in Slots
        /\ [runner[h] EXCEPT !.pc = "wake", !.woken = slot[runner[h].at]].pc = "wake"
        /\ [runner[h] EXCEPT !.pc = "wake", !.woken = slot[runner[h].at]].at = runner[h].at
        /\ [runner[h] EXCEPT !.pc = "wake", !.woken = slot[runner[h].at]].todo = runner[h].todo
    BY <2>1 DEF RunnerStates
  <2>4. platform = "windows" => runner[h].todo \subseteq {Shared} /\ runner[h].at \in {Shared, None}
    BY DEF RunnersExact
  <2> QED BY Zenon, <1>2, <2>1, <2>2, <2>3, <2>4
<1>8. ASSUME NEW h \in Handlers, WakeAll(h) \/ TryLockFails(h) \/ Release(h) PROVE RunnersExact'
  <2>1. runner' = [runner EXCEPT ![h] = NextEntry(runner[h].todo)]
    BY <1>8 DEF WakeAll, TryLockFails, Release, SignalTypes
  <2>2. platform = "windows" => runner[h].todo \subseteq {Shared} BY DEF RunnersExact
  <2> QED BY Zenon, <1>2, <1>3, <2>1, <2>2
<1> QED BY <1>4, <1>5, <1>6, <1>7, <1>8 DEF SignalNext

\* What a listener relies on is its own record, its slot, its counter and the
\* handlers.
LEMMA ServedFrame ==
  ASSUME NEW l \in Listeners, Served(l), UNCHANGED <<platform, runner>>,
         listener'[l] = listener[l], counter'[SlotOf(l)] = counter[SlotOf(l)],
         l \in slot[SlotOf(l)] => l \in slot'[SlotOf(l)]
  PROVE  Served(l)'
BY DEF Served, WakerKept, HeldWoke, Owing, Reached, InWoken, Trying, Ahead, Behind, Listening, SlotOf

\* Every listener has a slot.
LEMMA SlotOfType == ASSUME NEW l \in Listeners PROVE SlotOf(l) \in Slots
BY DEF SlotOf, Slots

\* A listener that is not listening is owed nothing.
LEMMA ServedIdle ==
  ASSUME NEW l \in Listeners, listener'[l].pc \in {"none", "publish", "new", "retire", "gone"}
  PROVE  Served(l)'
BY DEF Served, WakerKept, HeldWoke, Owing, Reached, Listening

\* A listener that is not waiting and has seen the count has what it was owed.
LEMMA ServedFresh ==
  ASSUME NEW l \in Listeners, listener'[l].pc = "idle", ~listener'[l].owed,
         counter'[SlotOf(l)'] \in Nat, listener'[l].seen = counter'[SlotOf(l)']
  PROVE  Served(l)'
<1>1. WakerKept(l)' /\ HeldWoke(l)' /\ Reached(l)' BY DEF WakerKept, HeldWoke, Reached
<1>2. listener'[l].seen <= counter'[SlotOf(l)'] OBVIOUS
<1>3. Owing(l)' BY <1>2 DEF Owing
<1> QED BY <1>1, <1>3 DEF Served

\* The locks are those of the listeners in "unlock" and the handlers that hold one.
LEMMA LocksFrame ==
  ASSUME LocksHeld, UNCHANGED <<platform, lock, runner>>,
         \A l \in Listeners : listener'[l].pc = "unlock" <=> listener[l].pc = "unlock"
  PROVE  LocksHeld'
BY DEF LocksHeld, SlotOf

\* A step of a handler that holds no lock before or after.
LEMMA LocksFrameHandlers ==
  ASSUME LocksHeld, UNCHANGED <<platform, lock>>,
         \A l \in Listeners : listener'[l].pc = listener[l].pc,
         \A h \in Handlers : \/ runner'[h] = runner[h]
                             \/ runner'[h].pc # "held" /\ runner[h].pc # "held"
  PROVE  LocksHeld'
<1>1. \A l \in Listeners : SlotOf(l)' = SlotOf(l) BY DEF SlotOf
<1>2. \A h \in Handlers : runner'[h].pc = "held" => lock'[runner'[h].at] = h BY DEF LocksHeld
<1>3. \A l \in Listeners : listener'[l].pc = "unlock" => lock'[SlotOf(l)'] = l BY <1>1 DEF LocksHeld
<1>4. \A s \in Slots : lock'[s] # None =>
        \/ \E h \in Handlers : lock'[s] = h /\ runner'[h].pc = "held" /\ runner'[h].at = s
        \/ \E l \in Listeners : lock'[s] = l /\ listener'[l].pc = "unlock" /\ SlotOf(l)' = s
  BY <1>1 DEF LocksHeld
<1> QED BY <1>2, <1>3, <1>4 DEF LocksHeld

\* A listener comes or goes.
LEMMA RegistrationStep ==
  ASSUME SignalInv, NEW l \in Listeners,
         Register(l) \/ Publish(l) \/ ReadSeen(l) \/ Unregister(l) \/ Retire(l)
  PROVE  LocksHeld' /\ \A k \in Listeners : Served(k)'
<1> USE DEF SignalInv
<1>1. CASE Register(l)
  <2>0. platform = "unix" /\ listener[l].pc = "none" /\ UNCHANGED <<platform, lock, runner>>
    BY <1>1 DEF Register
  <2>1. /\ listener'[l].pc \in {"publish", "gone"}
        /\ \A k \in Listeners \ {l} : listener'[k] = listener[k]
    BY <1>1 DEF Register, SignalTypes, ListenerStates
  <2>2. \A k \in Listeners \ {l} : counter'[k] = counter[k] /\ slot'[k] = slot[k]
    BY <1>1 DEF Register, SignalTypes, Slots
  <2>3. LocksHeld' BY <2>0, <2>1, LocksFrame
  <2>4. \A k \in Listeners \ {l} : Served(k)'
    BY <2>0, <2>1, <2>2, ServedFrame DEF SlotOf
  <2>5. Served(l)' BY <2>1, ServedIdle
  <2> QED BY <2>3, <2>4, <2>5
<1>2. CASE Publish(l) \/ Unregister(l) \/ Retire(l)
  <2>0. listener[l].pc # "unlock" /\ UNCHANGED <<platform, counter, slot, lock, runner>>
    BY <1>2 DEF Publish, Unregister, Retire
  <2>1. /\ listener'[l].pc \in {"new", "retire", "gone"}
        /\ \A k \in Listeners \ {l} : listener'[k] = listener[k]
    BY <1>2 DEF Publish, Unregister, Retire, SignalTypes, ListenerStates, NoListener
  <2>3. LocksHeld' BY <2>0, <2>1, LocksFrame
  <2>4. \A k \in Listeners \ {l} : Served(k)' BY <2>0, <2>1, ServedFrame
  <2>5. Served(l)' BY <2>1, ServedIdle
  <2> QED BY <2>3, <2>4, <2>5
<1>3. CASE ReadSeen(l)
  <2>0. listener[l].pc # "unlock" /\ UNCHANGED <<platform, counter, slot, lock, runner>>
    BY <1>3 DEF ReadSeen
  <2>1. /\ listener'[l] = [NoListener EXCEPT !.pc = "idle", !.seen = counter[SlotOf(l)]]
        /\ \A k \in Listeners \ {l} : listener'[k] = listener[k]
    BY <1>3 DEF ReadSeen, SignalTypes
  <2>2. /\ listener'[l].pc = "idle" /\ ~listener'[l].owed
        /\ listener'[l].seen = counter[SlotOf(l)] /\ counter[SlotOf(l)] \in Nat
    BY <2>1, SlotOfType DEF NoListener, SignalTypes
  <2>3. LocksHeld' BY Zenon, <2>0, <2>1, <2>2, LocksFrame
  <2>4. \A k \in Listeners \ {l} : Served(k)' BY <2>0, <2>1, ServedFrame
  <2>6. SlotOf(l)' = SlotOf(l) BY <2>0 DEF SlotOf
  <2>5. Served(l)' BY <2>0, <2>2, <2>6, ServedFresh
  <2> QED BY <2>3, <2>4, <2>5
<1> QED BY <1>1, <1>2, <1>3

\* recv is polled, checks again after storing its waker, or is dropped.
LEMMA PollStep ==
  ASSUME SignalInv, NEW l \in Listeners, Recv(l) \/ Recheck(l) \/ DropRecv(l)
  PROVE  LocksHeld' /\ \A k \in Listeners : Served(k)'
<1> USE DEF SignalInv
<1>0. /\ UNCHANGED <<platform, counter, slot, lock, runner>>
      /\ \A k \in Listeners \ {l} : listener'[k] = listener[k]
      /\ listener[l].pc # "unlock" /\ listener[l] \in ListenerStates /\ Listening(l)
  BY DEF Recv, Recheck, DropRecv, SignalTypes, Listening
<1>1. counter[SlotOf(l)] \in Nat BY SlotOfType DEF SignalTypes
<1>2. \A k \in Listeners \ {l} : Served(k)' BY <1>0, ServedFrame
<1>3. CASE listener'[l] = Seen(l, "idle")
  <2>1. /\ listener'[l].pc = "idle" /\ ~listener'[l].owed
        /\ listener'[l].seen = counter[SlotOf(l)]
    BY <1>3, SeenFacts
  <2>2. LocksHeld' BY <1>0, <2>1, LocksFrame
  <2>4. SlotOf(l)' = SlotOf(l) BY <1>0 DEF SlotOf
  <2>3. Served(l)' BY <1>0, <1>1, <2>1, <2>4, ServedFresh
  <2> QED BY <1>2, <2>2, <2>3
<1>4. CASE \/ listener'[l] = [listener[l] EXCEPT !.pc = "store", !.awake = FALSE]
           \/ listener'[l] = [listener[l] EXCEPT !.pc = "idle", !.awake = FALSE]
  <2>1. /\ listener'[l].pc \in {"idle", "store"} /\ listener'[l].seen = listener[l].seen
        /\ listener'[l].owed = listener[l].owed
    BY Zenon, <1>0, <1>4 DEF ListenerStates
  <2>2. LocksHeld' BY <1>0, <2>1, LocksFrame
  <2>3. Owing(l) BY DEF Served
  <2>4. Served(l)'
    BY Zenon, <1>0, <2>1, <2>3 DEF Served, WakerKept, HeldWoke, Owing, Reached, SlotOf, Ahead, Behind
  <2> QED BY <1>2, <2>2, <2>4
<1>5. CASE /\ listener'[l] = [listener[l] EXCEPT !.pc = "parked"]
           /\ listener[l].pc = "recheck" /\ ~ Behind(l)
  <2>1. /\ listener'[l].pc = "parked" /\ listener'[l].seen = listener[l].seen
        /\ listener'[l].owed = listener[l].owed /\ listener'[l].awake = listener[l].awake
    BY <1>0, <1>5 DEF ListenerStates
  <2>2. LocksHeld' BY <1>0, <2>1, LocksFrame
  <2>3. Served(l) OBVIOUS
  <2>4. ~ Behind(l)' BY <1>0, <1>5, <2>1 DEF Behind, SlotOf
  <2>5. WakerKept(l)' BY <1>0, <1>5, <2>1, <2>3 DEF Served, WakerKept, InWoken, SlotOf
  <2>6. HeldWoke(l)' BY <1>0, <1>5, <2>1, <2>3 DEF Served, HeldWoke, SlotOf
  <2>7. Owing(l)' BY <1>0, <2>1, <2>3 DEF Served, Owing, SlotOf, Ahead, Behind
  <2> QED BY <1>2, <2>2, <2>4, <2>5, <2>6, <2>7 DEF Served, Reached
<1> QED
  <2>1. CASE Recv(l)
    <3>1. \/ listener'[l] = Seen(l, "idle")
          \/ listener'[l] = [listener[l] EXCEPT !.pc = "store", !.awake = FALSE]
      BY <2>1 DEF Recv, SignalTypes
    <3> QED BY <3>1, <1>3, <1>4
  <2>2. CASE Recheck(l)
    <3>1. \/ listener'[l] = Seen(l, "idle")
          \/ listener'[l] = [listener[l] EXCEPT !.pc = "parked"] /\ ~ Behind(l)
      BY <2>2 DEF Recheck, SignalTypes, Behind
    <3>2. listener[l].pc = "recheck" BY <2>2 DEF Recheck
    <3> QED BY <3>1, <3>2, <1>3, <1>5
  <2>3. CASE DropRecv(l)
    <3>1. listener'[l] = [listener[l] EXCEPT !.pc = "idle", !.awake = FALSE]
      BY <2>3 DEF DropRecv, SignalTypes
    <3> QED BY <3>1, <1>4
  <2> QED BY <2>1, <2>2, <2>3

\* recv stores its waker under the lock of its slot.
LEMMA StoreStep ==
  ASSUME SignalInv, NEW l \in Listeners, StoreWaker(l)
  PROVE  LocksHeld' /\ \A k \in Listeners : Served(k)'
<1> USE DEF SignalInv
<1> DEFINE e == SlotOf(l)
<1>0. /\ UNCHANGED <<platform, counter, runner>> /\ e \in Slots
      /\ listener[l].pc = "store" /\ lock[e] = None
      /\ lock' = [lock EXCEPT ![e] = l] /\ slot' = [slot EXCEPT ![e] = @ \cup {l}]
      /\ listener' = [listener EXCEPT ![l].pc = "unlock"]
  BY SlotOfType DEF StoreWaker
<1> HIDE DEF e
<1>1. /\ \A k \in Listeners \ {l} : listener'[k] = listener[k]
      /\ listener'[l].pc = "unlock" /\ listener'[l].seen = listener[l].seen
      /\ listener'[l].owed = listener[l].owed
  BY <1>0 DEF SignalTypes, ListenerStates
<1>2. /\ \A s \in Slots : slot[s] \subseteq slot'[s]
      /\ l \in slot'[e]
  BY <1>0 DEF SignalTypes
<1>3. /\ lock'[e] = l /\ \A s \in Slots \ {e} : lock'[s] = lock[s]
  BY <1>0 DEF SignalTypes
<1>4. \A k \in Listeners : SlotOf(k)' = SlotOf(k) BY <1>0 DEF SlotOf
<1>5. \A k \in Listeners \ {l} : Served(k)' BY <1>0, <1>1, <1>2, SlotOfType, ServedFrame
<1>6. Served(l)'
  <2>1. Owing(l) BY DEF Served
  <2>2. Owing(l)' BY <1>0, <1>1, <1>4, <2>1 DEF Owing, Listening, Ahead, Behind
  <2>3. WakerKept(l)' BY <1>2, <1>4 DEF WakerKept, e
  <2> QED BY <1>1, <2>2, <2>3 DEF Served, HeldWoke, Reached
<1>7. LocksHeld'
  <2>1. \A h \in Handlers : runner'[h].pc = "held" => lock'[runner'[h].at] = h
    BY <1>0, <1>3, SignalNames DEF LocksHeld, RunnersExact
  <2>2. \A k \in Listeners : listener'[k].pc = "unlock" => lock'[SlotOf(k)'] = k
    BY <1>0, <1>1, <1>3, <1>4, SlotOfType, SignalNames DEF LocksHeld, e
  <2>3. ASSUME NEW s \in Slots, lock'[s] # None
        PROVE  \/ \E h \in Handlers : lock'[s] = h /\ runner'[h].pc = "held" /\ runner'[h].at = s
               \/ \E k \in Listeners : lock'[s] = k /\ listener'[k].pc = "unlock" /\ SlotOf(k)' = s
    <3>1. CASE s = e BY <3>1, <1>1, <1>3, <1>4 DEF e
    <3>2. CASE s # e
      BY <3>2, <2>3, <1>0, <1>1, <1>3, <1>4 DEF LocksHeld
    <3> QED BY <3>1, <3>2
  <2> QED BY <2>1, <2>2, <2>3 DEF LocksHeld
<1> QED BY <1>5, <1>6, <1>7

\* recv releases the lock of its slot.
LEMMA UnlockStep ==
  ASSUME SignalInv, NEW l \in Listeners, UnlockSlot(l)
  PROVE  LocksHeld' /\ \A k \in Listeners : Served(k)'
<1> USE DEF SignalInv
<1> DEFINE e == SlotOf(l)
<1>0. /\ UNCHANGED <<platform, counter, slot, runner>> /\ e \in Slots
      /\ listener[l].pc = "unlock" /\ lock[e] = l
      /\ lock' = [lock EXCEPT ![e] = None]
      /\ listener' = [listener EXCEPT ![l].pc = "recheck"]
  BY SlotOfType DEF UnlockSlot, LocksHeld
<1> HIDE DEF e
<1>1. /\ \A k \in Listeners \ {l} : listener'[k] = listener[k]
      /\ listener'[l].pc = "recheck" /\ listener'[l].seen = listener[l].seen
      /\ listener'[l].owed = listener[l].owed /\ listener'[l].awake = listener[l].awake
  BY <1>0 DEF SignalTypes, ListenerStates
<1>3. /\ lock'[e] = None /\ \A s \in Slots \ {e} : lock'[s] = lock[s]
  BY <1>0 DEF SignalTypes
<1>4. \A k \in Listeners : SlotOf(k)' = SlotOf(k) BY <1>0 DEF SlotOf
<1>5. \A k \in Listeners \ {l} : Served(k)' BY <1>0, <1>1, ServedFrame
<1>6. \A h \in Handlers : runner[h].pc = "held" => runner[h].at # e
  BY <1>0, SignalNames DEF LocksHeld
<1>7. Served(l)'
  <2>1. Owing(l) /\ WakerKept(l) BY DEF Served
  <2>2. Owing(l)' BY <1>0, <1>1, <1>4, <2>1 DEF Owing, Listening, Ahead, Behind
  <2>3. WakerKept(l)' BY <1>0, <1>1, <1>4, <2>1 DEF WakerKept, InWoken
  <2>4. HeldWoke(l)' BY <1>0, <1>4, <1>6 DEF HeldWoke, e
  <2> QED BY <1>1, <2>2, <2>3, <2>4 DEF Served, Reached
<1>8. LocksHeld'
  <2>1. \A h \in Handlers : runner'[h].pc = "held" => lock'[runner'[h].at] = h
    BY <1>0, <1>3, <1>6 DEF LocksHeld, RunnersExact
  <2>2. \A k \in Listeners : listener'[k].pc = "unlock" => lock'[SlotOf(k)'] = k
    BY <1>0, <1>1, <1>3, <1>4, SlotOfType DEF LocksHeld
  <2>3. ASSUME NEW s \in Slots, lock'[s] # None
        PROVE  \/ \E h \in Handlers : lock'[s] = h /\ runner'[h].pc = "held" /\ runner'[h].at = s
               \/ \E k \in Listeners : lock'[s] = k /\ listener'[k].pc = "unlock" /\ SlotOf(k)' = s
    <3>1. s # e /\ lock'[s] = lock[s] BY <2>3, <1>3
    <3>2. \/ \E h \in Handlers : lock[s] = h /\ runner[h].pc = "held" /\ runner[h].at = s
          \/ \E k \in Listeners : lock[s] = k /\ listener[k].pc = "unlock" /\ SlotOf(k) = s
      BY <2>3, <3>1 DEF LocksHeld
    <3> QED BY <3>1, <3>2, <1>0, <1>1, <1>4 DEF e
  <2> QED BY <2>1, <2>2, <2>3 DEF LocksHeld
<1> QED BY <1>5, <1>7, <1>8

\* The OS delivers a signal.
LEMMA DeliverStep ==
  ASSUME SignalInv, NEW s \in Signums, Deliver(s)
  PROVE  LocksHeld' /\ \A k \in Listeners : Served(k)'
<1> USE DEF SignalInv
<1> PICK h \in IdleHandler : Deliver(s)!(h) BY Zenon DEF Deliver
<1> DEFINE todo == IF platform = "windows" THEN {Shared} ELSE {l \in registry : SignumOf[l] = s}
<1>0. h \in Handlers /\ runner[h] = NoRunner BY DEF IdleHandler, RunnersExact
<1>1. UNCHANGED <<platform, counter, slot, lock>> OBVIOUS
<1>2. CASE UNCHANGED <<runner, listener>>
  <2>1. LocksHeld' BY <1>1, <1>2, LocksFrame
  <2>2. \A k \in Listeners : Served(k)' BY <1>1, <1>2, ServedFrame
  <2> QED BY <2>1, <2>2
<1>3. CASE /\ runner' = [runner EXCEPT ![h] = NextEntry(todo)]
           /\ listener' = [l \in Listeners |-> IF Listening(l) /\ SignumOf[l] = s
                             THEN [listener[l] EXCEPT !.owed = TRUE] ELSE listener[l]]
  <2>1. \A l \in Listeners :
          /\ listener'[l].pc = listener[l].pc /\ listener'[l].seen = listener[l].seen
          /\ listener'[l].awake = listener[l].awake
          /\ listener'[l].owed => listener[l].owed \/ (Listening(l) /\ SignumOf[l] = s)
    BY <1>3 DEF SignalTypes, ListenerStates
  <2>2. /\ \A g \in Handlers \ {h} : runner'[g] = runner[g]
        /\ runner'[h].pc \in {"idle", "next"} /\ runner'[h].todo = todo
    BY Zenon, <1>0, <1>3 DEF NextEntry, NoRunner, SignalTypes
  <2>3. runner[h].pc = "idle" /\ runner[h].todo = {} BY <1>0 DEF NoRunner
  <2>4. \A l \in Listeners : Listening(l) /\ SignumOf[l] = s => SlotOf(l) \in todo
    BY DEF SlotOf, RegistryExact, Listening, Registered, SignalTypes
  <2> HIDE DEF todo
  <2>5. LocksHeld' BY <1>1, <2>1, <2>2, <2>3, LocksFrameHandlers
  <2>6. ASSUME NEW k \in Listeners PROVE Served(k)'
    <3>0. SlotOf(k)' = SlotOf(k) BY <1>1 DEF SlotOf
    <3>1. InWoken(k)' <=> InWoken(k) BY <2>2, <2>3 DEF InWoken
    <3>2. Trying(k)' <=> Trying(k) BY <2>2, <2>3, <3>0 DEF Trying
    <3>3. Ahead(k) \/ SlotOf(k) \in todo => Ahead(k)' BY <1>0, <2>2, <2>3, <3>0 DEF Ahead
    <3>4. Behind(k)' <=> Behind(k) BY <1>1, <2>1, <3>0 DEF Behind
    <3>5. Served(k) OBVIOUS
    <3>6. WakerKept(k)' BY <1>1, <2>1, <3>0, <3>1, <3>5 DEF Served, WakerKept
    <3>7. HeldWoke(k)' BY <2>1, <2>2, <3>0, <3>5 DEF Served, HeldWoke
    <3>8. Owing(k)' BY <1>1, <2>1, <2>4, <3>0, <3>3, <3>4, <3>5 DEF Served, Owing, Listening
    <3>9. Reached(k)' BY <2>1, <3>1, <3>2, <3>4, <3>5 DEF Served, Reached
    <3> QED BY <3>6, <3>7, <3>8, <3>9 DEF Served
  <2> QED BY <2>5, <2>6
<1> QED BY <1>2, <1>3

\* A handler counts the signal and goes to the next slot.
LEMMA BumpStep ==
  ASSUME SignalInv, NEW h \in Handlers, Bump(h)
  PROVE  LocksHeld' /\ \A k \in Listeners : Served(k)'
<1> USE DEF SignalInv
<1> PICK e \in runner[h].todo :
      /\ counter' = [counter EXCEPT ![e] = @ + 1]
      /\ runner' = [runner EXCEPT ![h].pc = "try", ![h].at = e, ![h].todo = @ \ {e}]
  BY Zenon DEF Bump
<1>0. UNCHANGED <<platform, slot, lock, listener>> /\ runner[h].pc = "next" BY DEF Bump
<1>1. e \in Slots BY DEF SignalTypes, RunnerStates
<1>2. /\ \A g \in Handlers \ {h} : runner'[g] = runner[g]
      /\ runner'[h].pc = "try" /\ runner'[h].at = e /\ runner'[h].todo = runner[h].todo \ {e}
  BY DEF SignalTypes, RunnerStates
<1>3. counter'[e] = counter[e] + 1 /\ \A s \in Slots \ {e} : counter'[s] = counter[s]
  BY <1>1 DEF SignalTypes
<1>4. LocksHeld' BY Zenon, <1>0, <1>2, LocksFrameHandlers
<1>5. ASSUME NEW k \in Listeners PROVE Served(k)'
  <2>0. SlotOf(k)' = SlotOf(k) /\ SlotOf(k) \in Slots BY <1>0, SlotOfType DEF SlotOf
  <2>1. InWoken(k)' <=> InWoken(k) BY Zenon, <1>0, <1>2 DEF InWoken
  <2>2. Trying(k) \/ SlotOf(k) = e => Trying(k)' BY Zenon, <1>0, <1>2, <2>0 DEF Trying
  <2>3. SlotOf(k) # e => (Ahead(k)' <=> Ahead(k)) BY Zenon, <1>2, <2>0 DEF Ahead
  <2>4. SlotOf(k) # e => (Behind(k)' <=> Behind(k)) BY <1>0, <1>3, <2>0 DEF Behind
  <2>5. Served(k) OBVIOUS
  <2>6. WakerKept(k)' BY <1>0, <2>0, <2>1, <2>5 DEF Served, WakerKept
  <2>7. HeldWoke(k)' BY Zenon, <1>0, <1>2, <2>0, <2>5 DEF Served, HeldWoke
  <2>8. Owing(k)'
    <3>1. listener[k].seen \in Nat /\ counter[SlotOf(k)] \in Nat
      BY <2>0 DEF SignalTypes, ListenerStates
    <3>2. CASE SlotOf(k) = e
      BY <1>0, <1>3, <2>0, <2>5, <3>1, <3>2 DEF Served, Owing, Listening, Behind
    <3>3. CASE SlotOf(k) # e
      BY <1>0, <1>3, <2>0, <2>3, <2>4, <2>5, <3>3 DEF Served, Owing, Listening
    <3> QED BY <3>2, <3>3
  <2>9. Reached(k)' BY <1>0, <2>1, <2>2, <2>4, <2>5 DEF Served, Reached
  <2> QED BY <2>6, <2>7, <2>8, <2>9 DEF Served
<1> QED BY <1>4, <1>5

\* The handler of Unix takes the waker and wakes it under the lock.
LEMMA TakeUnix ==
  ASSUME SignalInv, NEW h \in Handlers, TakeWaker(h), platform = "unix"
  PROVE  LocksHeld' /\ \A k \in Listeners : Served(k)'
<1> USE DEF SignalInv
<1> DEFINE e == runner[h].at
<1>0. /\ runner[h].pc = "try" /\ lock[e] = None /\ e \in Slots
      /\ slot' = [slot EXCEPT ![e] = {}] /\ lock' = [lock EXCEPT ![e] = h]
      /\ listener' = Awaken(slot[e]) /\ runner' = [runner EXCEPT ![h].pc = "held"]
      /\ UNCHANGED <<platform, counter>>
  BY DEF TakeWaker, RunnersExact
<1>1. /\ \A g \in Handlers \ {h} : runner'[g] = runner[g]
      /\ runner'[h].pc = "held" /\ runner'[h].at = e /\ runner'[h].todo = runner[h].todo
  BY <1>0 DEF SignalTypes, RunnerStates
<1> HIDE DEF e
<1>2. /\ slot'[e] = {} /\ lock'[e] = h
      /\ \A s \in Slots \ {e} : slot'[s] = slot[s] /\ lock'[s] = lock[s]
  BY <1>0 DEF SignalTypes
<1>3. \A k \in Listeners :
        /\ listener'[k].pc = listener[k].pc /\ listener'[k].seen = listener[k].seen
        /\ listener'[k].owed = listener[k].owed
        /\ ~listener'[k].awake => ~listener[k].awake /\ k \notin slot[e]
  BY <1>0 DEF Awaken, SignalTypes, ListenerStates
<1>4. LocksHeld'
  <2>0. \A k \in Listeners : SlotOf(k)' = SlotOf(k) BY <1>0 DEF SlotOf
  <2>1. \A g \in Handlers : runner'[g].pc = "held" => lock'[runner'[g].at] = g
    BY <1>0, <1>1, <1>2, SignalNames DEF LocksHeld, RunnersExact
  <2>2. \A k \in Listeners : listener'[k].pc = "unlock" => lock'[SlotOf(k)'] = k
    BY <1>0, <1>2, <1>3, <2>0, SlotOfType, SignalNames DEF LocksHeld
  <2>3. ASSUME NEW s \in Slots, lock'[s] # None
        PROVE  \/ \E g \in Handlers : lock'[s] = g /\ runner'[g].pc = "held" /\ runner'[g].at = s
               \/ \E k \in Listeners : lock'[s] = k /\ listener'[k].pc = "unlock" /\ SlotOf(k)' = s
    <3>1. CASE s = e BY <3>1, <1>1, <1>2
    <3>2. CASE s # e
      <4>1. lock'[s] = lock[s] BY <3>2, <1>2
      <4>2. \/ \E g \in Handlers : lock[s] = g /\ runner[g].pc = "held" /\ runner[g].at = s
            \/ \E k \in Listeners : lock[s] = k /\ listener[k].pc = "unlock" /\ SlotOf(k) = s
        BY <2>3, <4>1 DEF LocksHeld
      <4> QED BY <4>1, <4>2, <1>0, <1>1, <1>3, <2>0
    <3> QED BY <3>1, <3>2
  <2> QED BY <2>1, <2>2, <2>3 DEF LocksHeld
<1>5. ASSUME NEW k \in Listeners PROVE Served(k)'
  <2>0. SlotOf(k)' = SlotOf(k) /\ SlotOf(k) \in Slots BY <1>0, SlotOfType DEF SlotOf
  <2>1. InWoken(k)' <=> InWoken(k) BY <1>0, <1>1 DEF InWoken
  <2>2. SlotOf(k) # e => (Trying(k) => Trying(k)') BY <1>1, <2>0 DEF Trying, e
  <2>3. Ahead(k)' <=> Ahead(k) BY <1>1, <2>0 DEF Ahead
  <2>4. Behind(k)' <=> Behind(k) BY <1>0, <1>3, <2>0 DEF Behind
  <2>5. Served(k) OBVIOUS
  <2>6. WakerKept(k)' BY <1>2, <1>3, <2>0, <2>1, <2>5 DEF Served, WakerKept
  <2>7. ~ InWoken(k) BY DEF InWoken, RunnersExact
  <2>8. HeldWoke(k)'
    <3>1. CASE SlotOf(k) = e
      BY <1>1, <1>3, <2>0, <2>5, <2>7, <3>1 DEF Served, HeldWoke, WakerKept
    <3>2. CASE SlotOf(k) # e
      <4>1. listener[k].awake => listener'[k].awake BY <1>3
      <4> QED BY <1>1, <1>3, <2>0, <2>5, <3>2, <4>1 DEF Served, HeldWoke
    <3> QED BY <3>1, <3>2
  <2>9. Owing(k)' BY <1>0, <1>3, <2>0, <2>3, <2>4, <2>5 DEF Served, Owing, Listening
  <2>10. Reached(k)'
    <3>1. CASE SlotOf(k) = e
      BY <1>3, <2>1, <2>5, <2>7, <3>1 DEF Served, Reached, WakerKept
    <3>2. CASE SlotOf(k) # e
      BY <1>3, <2>1, <2>2, <2>4, <2>5, <3>2 DEF Served, Reached
    <3> QED BY <3>1, <3>2
  <2> QED BY <2>6, <2>8, <2>9, <2>10 DEF Served
<1> QED BY <1>4, <1>5

\* The handler of Windows takes the whole list and wakes it later.
LEMMA TakeWindows ==
  ASSUME SignalInv, NEW h \in Handlers, TakeWaker(h), platform = "windows"
  PROVE  LocksHeld' /\ \A k \in Listeners : Served(k)'
<1> USE DEF SignalInv
<1> DEFINE e == runner[h].at
<1>0. /\ runner[h].pc = "try" /\ e \in Slots
      /\ slot' = [slot EXCEPT ![e] = {}]
      /\ runner' = [runner EXCEPT ![h].pc = "wake", ![h].woken = slot[e]]
      /\ UNCHANGED <<platform, counter, lock, listener>>
  BY DEF TakeWaker, RunnersExact
<1>1. /\ \A g \in Handlers \ {h} : runner'[g] = runner[g]
      /\ runner'[h].pc = "wake" /\ runner'[h].woken = slot[e] /\ runner'[h].todo = runner[h].todo
  BY <1>0 DEF SignalTypes, RunnerStates
<1>2. slot'[e] = {} /\ \A s \in Slots \ {e} : slot'[s] = slot[s]
  BY <1>0 DEF SignalTypes
<1>3. LocksHeld' BY Zenon, <1>0, <1>1, LocksFrameHandlers
<1>4. ASSUME NEW k \in Listeners PROVE Served(k)'
  <2>0. SlotOf(k)' = SlotOf(k) /\ SlotOf(k) \in Slots BY <1>0, SlotOfType DEF SlotOf
  <2>1. InWoken(k) \/ k \in slot[e] => InWoken(k)'
    BY Zenon, <1>0, <1>1 DEF InWoken
  <2>2. SlotOf(k) # e => (Trying(k) => Trying(k)') BY <1>1, <2>0 DEF Trying
  <2>3. Ahead(k)' <=> Ahead(k) BY <1>1, <2>0 DEF Ahead
  <2>4. Behind(k)' <=> Behind(k) BY <1>0, <2>0 DEF Behind
  <2>5. Served(k) OBVIOUS
  <2> HIDE DEF e
  <2>6. WakerKept(k)' BY <1>0, <1>2, <2>0, <2>1, <2>5 DEF Served, WakerKept
  <2>7. HeldWoke(k)' BY Zenon, <1>0, <1>1, <2>0, <2>5 DEF Served, HeldWoke
  <2>8. Owing(k)' BY <1>0, <2>0, <2>3, <2>4, <2>5 DEF Served, Owing, Listening
  <2>9. Reached(k)'
    <3>1. CASE SlotOf(k) = e
      BY <1>0, <2>1, <2>5, <3>1 DEF Served, Reached, WakerKept
    <3>2. CASE SlotOf(k) # e
      BY <1>0, <2>1, <2>2, <2>4, <2>5, <3>2 DEF Served, Reached
    <3> QED BY <3>1, <3>2
  <2> QED BY <2>6, <2>7, <2>8, <2>9 DEF Served
<1> QED BY <1>3, <1>4

\* The handler of Windows wakes the wakers it took.
LEMMA WakeAllStep ==
  ASSUME SignalInv, NEW h \in Handlers, WakeAll(h)
  PROVE  LocksHeld' /\ \A k \in Listeners : Served(k)'
<1> USE DEF SignalInv
<1>0. /\ runner[h].pc = "wake" /\ UNCHANGED <<platform, counter, slot, lock>>
      /\ listener' = Awaken(runner[h].woken)
      /\ runner' = [runner EXCEPT ![h] = NextEntry(runner[h].todo)]
  BY DEF WakeAll, SignalTypes
<1>1. /\ \A g \in Handlers \ {h} : runner'[g] = runner[g]
      /\ runner'[h].pc \in {"idle", "next"} /\ runner'[h].todo = runner[h].todo
  BY Zenon, <1>0 DEF SignalTypes, NextEntry, NoRunner
<1>2. \A k \in Listeners :
        /\ listener'[k].pc = listener[k].pc /\ listener'[k].seen = listener[k].seen
        /\ listener'[k].owed = listener[k].owed
        /\ ~listener'[k].awake => ~listener[k].awake /\ k \notin runner[h].woken
  BY <1>0 DEF Awaken, SignalTypes, ListenerStates
<1>3. LocksHeld' BY <1>0, <1>1, <1>2, LocksFrameHandlers
<1>4. ASSUME NEW k \in Listeners PROVE Served(k)'
  <2>0. SlotOf(k)' = SlotOf(k) BY <1>0 DEF SlotOf
  <2>1. InWoken(k) /\ k \notin runner[h].woken => InWoken(k)' BY <1>1 DEF InWoken
  <2>2. Trying(k) => Trying(k)' BY <1>0, <1>1, <2>0 DEF Trying
  <2>3. Ahead(k)' <=> Ahead(k) BY <1>1, <2>0 DEF Ahead
  <2>4. Behind(k)' <=> Behind(k) BY <1>0, <1>2, <2>0 DEF Behind
  <2>5. Served(k) /\ (listener[k].awake => listener'[k].awake) BY <1>2
  <2>6. WakerKept(k)' BY <1>0, <1>2, <2>0, <2>1, <2>5 DEF Served, WakerKept
  <2>7. HeldWoke(k)' BY <1>1, <1>2, <2>0, <2>5 DEF Served, HeldWoke
  <2>8. Owing(k)' BY Zenon, <1>0, <1>2, <2>0, <2>3, <2>4, <2>5 DEF Served, Owing, Listening
  <2>9. Reached(k)' BY <1>2, <2>1, <2>2, <2>4, <2>5 DEF Served, Reached
  <2> QED BY <2>6, <2>7, <2>8, <2>9 DEF Served
<1> QED BY <1>3, <1>4

\* A handler that finds the lock taken may leave: the holder is the listener,
\* which will look again, or a handler that has woken it.
LEMMA TryLockFailsStep ==
  ASSUME SignalInv, NEW h \in Handlers, TryLockFails(h)
  PROVE  LocksHeld' /\ \A k \in Listeners : Served(k)'
<1> USE DEF SignalInv
<1> DEFINE e == runner[h].at
<1>0. /\ runner[h].pc = "try" /\ lock[e] # None /\ platform = "unix" /\ e \in Slots
      /\ UNCHANGED <<platform, counter, slot, lock, listener>>
      /\ runner' = [runner EXCEPT ![h] = NextEntry(runner[h].todo)]
  BY DEF TryLockFails, SignalTypes, RunnersExact
<1>1. /\ \A g \in Handlers \ {h} : runner'[g] = runner[g]
      /\ runner'[h].pc \in {"idle", "next"} /\ runner'[h].todo = runner[h].todo
  BY Zenon, <1>0 DEF SignalTypes, NextEntry, NoRunner
<1>2. LocksHeld' BY <1>0, <1>1, LocksFrameHandlers
<1>3. ASSUME NEW k \in Listeners PROVE Served(k)'
  <2>0. SlotOf(k)' = SlotOf(k) BY <1>0 DEF SlotOf
  <2>1. InWoken(k)' <=> InWoken(k) BY <1>0, <1>1 DEF InWoken
  <2>2. SlotOf(k) # e => (Trying(k) => Trying(k)') BY <1>1, <2>0 DEF Trying
  <2>3. Ahead(k)' <=> Ahead(k) BY <1>1, <2>0 DEF Ahead
  <2>4. Behind(k)' <=> Behind(k) BY <1>0, <2>0 DEF Behind
  <2>5. Served(k) OBVIOUS
  <2>6. WakerKept(k)' BY <1>0, <2>0, <2>1, <2>5 DEF Served, WakerKept
  <2>7. HeldWoke(k)' BY <1>0, <1>1, <2>0, <2>5 DEF Served, HeldWoke
  <2>8. Owing(k)' BY <1>0, <2>0, <2>3, <2>4, <2>5 DEF Served, Owing, Listening
  <2>9. SlotOf(k) = e /\ listener[k].pc = "parked" => listener[k].awake
    BY <1>0, <2>5 DEF LocksHeld, SlotOf, Served, HeldWoke
  <2>10. Reached(k)' BY Zenon, <1>0, <2>1, <2>2, <2>4, <2>5, <2>9 DEF Served, Reached
  <2> QED BY <2>6, <2>7, <2>8, <2>10 DEF Served
<1> QED BY <1>2, <1>3

\* A handler releases the lock, having woken the waker.
LEMMA ReleaseStep ==
  ASSUME SignalInv, NEW h \in Handlers, Release(h)
  PROVE  LocksHeld' /\ \A k \in Listeners : Served(k)'
<1> USE DEF SignalInv
<1> DEFINE e == runner[h].at
<1>0. /\ runner[h].pc = "held" /\ lock[e] = h /\ e \in Slots
      /\ UNCHANGED <<platform, counter, slot, listener>>
      /\ lock' = [lock EXCEPT ![e] = None]
      /\ runner' = [runner EXCEPT ![h] = NextEntry(runner[h].todo)]
  BY DEF Release, SignalTypes, RunnersExact, LocksHeld
<1>1. /\ \A g \in Handlers \ {h} : runner'[g] = runner[g]
      /\ runner'[h].pc \in {"idle", "next"} /\ runner'[h].todo = runner[h].todo
  BY Zenon, <1>0 DEF SignalTypes, NextEntry, NoRunner
<1>2. lock'[e] = None /\ \A s \in Slots \ {e} : lock'[s] = lock[s] BY <1>0 DEF SignalTypes
<1>3. LocksHeld'
  <2>0. \A k \in Listeners : SlotOf(k)' = SlotOf(k) BY <1>0 DEF SlotOf
  <2>1. \A g \in Handlers \ {h} : runner[g].pc = "held" => runner[g].at # e
    BY Zenon, <1>0 DEF LocksHeld
  <2>2. \A k \in Listeners : listener[k].pc = "unlock" => SlotOf(k) # e
    BY <1>0, SignalNames DEF LocksHeld
  <2> HIDE DEF e
  <2>3. \A g \in Handlers : runner'[g].pc = "held" => lock'[runner'[g].at] = g
    <3> SUFFICES ASSUME NEW g \in Handlers, runner'[g].pc = "held"
                 PROVE  lock'[runner'[g].at] = g
      OBVIOUS
    <3>1. g # h BY <1>1
    <3>2. runner'[g] = runner[g] BY <1>1, <3>1
    <3>3. runner[g].at \in Slots BY <3>2 DEF RunnersExact
    <3>4. runner[g].at # e BY <2>1, <3>1, <3>2
    <3>5. lock[runner[g].at] = g BY <3>2 DEF LocksHeld
    <3> QED BY <1>2, <3>2, <3>3, <3>4, <3>5
  <2>4. \A k \in Listeners : listener'[k].pc = "unlock" => lock'[SlotOf(k)'] = k
    <3> SUFFICES ASSUME NEW k \in Listeners, listener'[k].pc = "unlock"
                 PROVE  lock'[SlotOf(k)'] = k
      OBVIOUS
    <3>1. listener[k].pc = "unlock" BY <1>0
    <3>2. SlotOf(k) # e /\ SlotOf(k) \in Slots BY <2>2, <3>1, SlotOfType
    <3>3. lock[SlotOf(k)] = k BY <3>1 DEF LocksHeld
    <3> QED BY <1>2, <2>0, <3>2, <3>3
  <2>5. ASSUME NEW s \in Slots, lock'[s] # None
        PROVE  \/ \E g \in Handlers : lock'[s] = g /\ runner'[g].pc = "held" /\ runner'[g].at = s
               \/ \E k \in Listeners : lock'[s] = k /\ listener'[k].pc = "unlock" /\ SlotOf(k)' = s
    <3>1. s # e /\ lock'[s] = lock[s] BY <2>5, <1>2
    <3>2. \/ \E g \in Handlers : lock[s] = g /\ runner[g].pc = "held" /\ runner[g].at = s
          \/ \E k \in Listeners : lock[s] = k /\ listener[k].pc = "unlock" /\ SlotOf(k) = s
      BY <2>5, <3>1 DEF LocksHeld
    <3>3. ASSUME NEW g \in Handlers, lock[s] = g, runner[g].pc = "held", runner[g].at = s
          PROVE  runner'[g] = runner[g]
      BY <3>1, <3>3, <1>1 DEF e
    <3> QED BY <3>1, <3>2, <3>3, <1>0, <2>0
  <2> QED BY <2>3, <2>4, <2>5 DEF LocksHeld
<1>4. ASSUME NEW k \in Listeners PROVE Served(k)'
  <2>0. SlotOf(k)' = SlotOf(k) BY <1>0 DEF SlotOf
  <2>1. InWoken(k)' <=> InWoken(k) BY <1>0, <1>1 DEF InWoken
  <2>2. Trying(k) => Trying(k)' BY <1>0, <1>1, <2>0 DEF Trying
  <2>3. Ahead(k)' <=> Ahead(k) BY <1>1, <2>0 DEF Ahead
  <2>4. Behind(k)' <=> Behind(k) BY <1>0, <2>0 DEF Behind
  <2>5. Served(k) OBVIOUS
  <2>6. WakerKept(k)' BY Zenon, <1>0, <2>0, <2>1, <2>5 DEF Served, WakerKept
  <2>7. HeldWoke(k)' BY <1>0, <1>1, <2>0, <2>5 DEF Served, HeldWoke
  <2>8. Owing(k)' BY Zenon, <1>0, <2>0, <2>3, <2>4, <2>5 DEF Served, Owing, Listening
  <2>9. Reached(k)' BY <1>0, <2>1, <2>2, <2>4, <2>5 DEF Served, Reached
  <2> QED BY <2>6, <2>7, <2>8, <2>9 DEF Served
<1> QED BY <1>3, <1>4

\* The invariant holds of every state.
LEMMA SignalInvariance == SignalSpec => []SignalInv
<1>1. SignalInit => SignalInv
  <2> SUFFICES ASSUME SignalInit PROVE SignalInv OBVIOUS
  <2>1. SignalTypes
    BY Zenon DEF SignalInit, SignalTypes, ListenerStates, RunnerStates, NoListener, NoRunner
  <2>2. /\ \A l \in Listeners : listener[l].pc = "none"
        /\ \A h \in Handlers : runner[h] = NoRunner /\ runner[h].pc = "idle"
        /\ \A s \in Slots : lock[s] = None
    BY DEF SignalInit, NoListener, NoRunner
  <2>3. RegistryExact
    <3>1. Wanted = {} /\ \A l \in Listeners : ~ Registered(l)
      BY <2>2 DEF Wanted, Listening, Registered
    <3> QED BY <2>2, <3>1 DEF SignalInit, RegistryExact
  <2>4. RunnersExact
    <3>1. \A h \in Handlers : runner[h].todo = {} /\ runner[h].at = None BY <2>2 DEF NoRunner
    <3> QED BY <2>2, <3>1 DEF RunnersExact
  <2>5. LocksHeld BY <2>2 DEF LocksHeld
  <2>6. \A l \in Listeners : Served(l)
    BY <2>2 DEF Served, WakerKept, HeldWoke, Owing, Reached, Listening
  <2> QED BY <2>1, <2>3, <2>4, <2>5, <2>6 DEF SignalInv
<1>2. SignalInv /\ [SignalNext]_signalVars => SignalInv'
  <2> SUFFICES ASSUME SignalInv, [SignalNext]_signalVars PROVE SignalInv' OBVIOUS
  <2>1. CASE SignalNext
    <3>1. LocksHeld' /\ \A l \in Listeners : Served(l)'
      BY Zenon, <2>1, RegistrationStep, PollStep, StoreStep, UnlockStep, DeliverStep, BumpStep, TakeUnix,
         TakeWindows, WakeAllStep, TryLockFailsStep, ReleaseStep DEF SignalNext, SignalInv, SignalTypes
    <3> QED BY <2>1, <3>1, SignalTypesStep, RegistryStep, RunnersStep DEF SignalInv
  <2>2. CASE UNCHANGED signalVars
    <3>0. UNCHANGED <<platform, registry, writer, installed, counter, slot, lock, listener, runner,
                      missed>>
      BY <2>2 DEF signalVars
    <3>3. SignalTypes' BY <3>0 DEF SignalInv, SignalTypes
    <3>4. RegistryExact'
      BY <3>0 DEF SignalInv, RegistryExact, Wanted, Listening, Registered
    <3>5. RunnersExact' BY <3>0 DEF SignalInv, RunnersExact
    <3>6. LocksHeld' BY <3>0 DEF SignalInv, LocksHeld, SlotOf
    <3>1. SignalTypes' /\ RegistryExact' /\ RunnersExact' /\ LocksHeld' BY <3>3, <3>4, <3>5, <3>6
    <3>2. \A l \in Listeners : Served(l)' BY Zenon, <2>2, ServedFrame DEF signalVars, SignalInv
    <3> QED BY <3>1, <3>2 DEF SignalInv
  <2> QED BY <2>1, <2>2
<1> QED BY <1>1, <1>2, PTL DEF SignalSpec

\* A listener that is parked and for which a signal came is awake or about to be: a
\* handler that will wake it is still on its way, though handlers only try the lock
\* of a slot and skip it when a poll holds it (recv and the handler of
\* signal/unix.rs and signal/windows.rs).
THEOREM ParkedIsReached == SignalSpec => []NoSignalLost
<1>1. SignalInv => NoSignalLost
  <2> SUFFICES ASSUME SignalInv, NEW l \in Listeners, listener[l].pc = "parked",
                      listener[l].owed \/ counter[SlotOf(l)] # listener[l].seen
               PROVE  listener[l].awake \/ OnItsWay(l)
    BY DEF NoSignalLost
  <2>1. Served(l) BY DEF SignalInv
  <2>2. InWoken(l) => OnItsWay(l)
    BY SignalNames DEF InWoken, OnItsWay, SignalInv, RunnersExact, SlotOf, Slots, None, Shared
  <2>3. Trying(l) \/ Ahead(l) => OnItsWay(l) BY DEF Trying, Ahead, OnItsWay
  <2> QED BY <2>1, <2>2, <2>3 DEF Served, Owing, Reached, Behind, Listening
<1> QED BY <1>1, SignalInvariance, PTL

\* Whoever listens finds the handler installed, none is installed for a signal nobody
\* registered once registration is over, and no signal meets the default action while
\* somebody listens (register and unregister).
THEOREM NeverTheDefaultAction == SignalSpec => []HandlerInstalled
<1>1. SignalInv => HandlerInstalled
  <2> SUFFICES ASSUME SignalInv PROVE HandlerInstalled OBVIOUS
  <2>1. \A l \in Listeners : Listening(l) => SignumOf[l] \in installed
    BY DEF SignalInv, SignalTypes, RegistryExact, Wanted, Signums
  <2>2. ASSUME platform = "unix", writer = None PROVE installed = {SignumOf[l] : l \in registry}
    <3>1. \A l \in Listeners : listener[l].pc \notin {"publish", "retire"}
      BY <2>2, SignalNames DEF SignalInv, RegistryExact
    <3>2. Wanted = registry
      BY <2>2, <3>1 DEF SignalInv, RegistryExact, Wanted, Listening, Registered
    <3> QED BY <2>2, <3>2 DEF SignalInv, RegistryExact
  <2> QED BY <2>1, <2>2 DEF HandlerInstalled, SignalInv, RegistryExact
<1> QED BY <1>1, SignalInvariance, PTL
=============================================================================
