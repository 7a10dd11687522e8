---------------------------- MODULE KernelProofs ----------------------------
(***************************************************************************)
(* Proofs about the two modules that refine Sched, for any number of       *)
(* tasks, slices, sleeps and lockers.  The kernel with its clock           *)
(* implements Sched, so that every theorem of SchedProofs holds of it; a   *)
(* sleeper has one timer; and a slice and a wake-up are as late as the     *)
(* properties of Kernel say, at most.  The lock has one holder at a time   *)
(* whatever the scheduler and its interrupts do, and every behaviour of    *)
(* the lockers, too, is one of Sched.                                      *)
(***************************************************************************)
EXTENDS Kernel, Lock, SchedProofs, FiniteSetTheorems

Timer == [task : Tasks, timeout : Nat]

Ordered(list) ==
  \A i, j \in 1..Len(list) : i < j => list[i].timeout <= list[j].timeout

\* The list is sorted and holds a live, sleeping task once at most. The task on
\* the hart is awake unless it has just asked to be switched: it can neither
\* create a second timer nor exit with one.
TimersInv ==
  /\ timers \in Seq(Timer)
  /\ Ordered(timers)
  /\ \A i, j \in 1..Len(timers) : timers[i].task = timers[j].task => i = j
  /\ \A i \in 1..Len(timers) :
       timers[i].task \in alive /\ state[timers[i].task] = "SLEEPING"
  /\ running \in Tasks /\ ~msip => state[running] # "SLEEPING"

\* The slice counts from no later than the switch: whatever start_tick says of
\* the current task, it bounds the time since that task got the hart.
ClockInv ==
  /\ ticks \in 0..MaxTicks
  /\ start_tick \in 0..ticks /\ run_start \in 0..ticks
  /\ timeslice \in [Tasks -> Nat]
  /\ running \in Tasks => start_tick <= run_start
  /\ SliceBound

KInv == Inv /\ TimersInv /\ ClockInv

-----------------------------------------------------------------------------
(***************************************************************************)
(* The timer list.                                                         *)
(***************************************************************************)

\* Where insert_timer puts x.
TimerPos(q, x) ==
  Min({i \in 1..Len(q) + 1 : i = Len(q) + 1 \/ q[i].timeout > x.timeout})

\* r is q with x at position k.
Inserted(r, q, k, x) ==
  /\ Len(r) = Len(q) + 1 /\ k \in 1..Len(q) + 1
  /\ \A i \in 1..Len(q) + 1 :
       /\ i < k => r[i] = q[i]
       /\ i = k => r[i] = x
       /\ i > k => r[i] = q[i - 1]

\* The timers from position k on are due later than x.
Later(q, k, x) == \A i \in 1..Len(q) : i >= k => q[i].timeout > x.timeout

\* The walk of insert_timer stops behind the timers that are due no later, and
\* the list keeps its order.
LEMMA InsertTimerProperties ==
  ASSUME NEW q \in Seq(Timer), NEW x \in Timer, Ordered(q),
         NEW r, r = InsertTimer(q, x), NEW k, k = TimerPos(q, x)
  PROVE  r \in Seq(Timer) /\ Ordered(r) /\ Inserted(r, q, k, x) /\ Later(q, k, x)
<1> DEFINE S == {i \in 1..Len(q) + 1 : i = Len(q) + 1 \/ q[i].timeout > x.timeout}
<1>1. Len(q) \in Nat /\ \A i \in 1..Len(q) : q[i] \in Timer
  BY LenProperties, ElementOfSeq
<1>2. S \in SUBSET Nat /\ Len(q) + 1 \in S
  BY <1>1
<1>3. k \in S /\ \A i \in S : k <= i
  BY <1>2, MinProperties DEF TimerPos
<1>4. r = InsertAt(q, k, x)
  BY DEF InsertTimer, TimerPos
<1>5. k \in 1..Len(q) + 1
  BY <1>3
<1>6. \A i \in 1..Len(q) : i < k => q[i].timeout <= x.timeout
  BY <1>1, <1>3 DEF Timer
<1>7. k <= Len(q) => q[k].timeout > x.timeout
  BY <1>1, <1>3
<1> HIDE DEF S
<1>8. /\ r \in Seq(Timer) /\ Len(r) = Len(q) + 1
      /\ \A i \in 1..Len(q) + 1 :
           /\ i < k => r[i] = q[i]
           /\ i = k => r[i] = x
           /\ i > k => r[i] = q[i - 1]
  <2>1. /\ InsertAt(q, k, x) \in Seq(Timer) /\ Len(InsertAt(q, k, x)) = Len(q) + 1
        /\ \A i \in 1..Len(q) + 1 :
             InsertAt(q, k, x)[i] = IF i < k THEN q[i] ELSE IF i = k THEN x ELSE q[i - 1]
    BY <1>5, InsertAtProperties
  <2> QED
    BY <1>4, <1>5, <2>1
<1>9. \A i \in 1..Len(q) : q[i].timeout \in Nat
  BY <1>1 DEF Timer
<1>10. \A i \in 1..Len(q) : i >= k => q[i].timeout > x.timeout
  <2> SUFFICES ASSUME NEW i \in 1..Len(q), i >= k PROVE q[i].timeout > x.timeout
    OBVIOUS
  <2>1. k \in 1..Len(q) /\ q[k].timeout > x.timeout
    BY <1>1, <1>5, <1>7
  <2>2. q[k].timeout <= q[i].timeout
    BY <1>1, <1>9, <2>1 DEF Ordered
  <2> QED
    BY <1>9, <2>1, <2>2 DEF Timer
<1>11. Ordered(r)
  <2> SUFFICES ASSUME NEW i \in 1..Len(q) + 1, NEW j \in 1..Len(q) + 1, i < j
               PROVE  r[i].timeout <= r[j].timeout
    BY <1>8 DEF Ordered
  <2> DEFINE i0 == IF i < k THEN i ELSE i - 1
             j0 == IF j < k THEN j ELSE j - 1
  <2>1. CASE i = k
    <3>1. j - 1 \in 1..Len(q) /\ j - 1 >= k /\ j > k
      BY <1>1, <1>5, <2>1
    <3>2. r[i] = x /\ r[j] = q[j - 1]
      BY <1>5, <1>8, <2>1, <3>1
    <3>3. q[j - 1].timeout > x.timeout /\ q[j - 1].timeout \in Nat /\ x.timeout \in Nat
      BY <1>9, <1>10, <3>1 DEF Timer
    <3> QED
      BY <3>2, <3>3
  <2>2. CASE j = k
    <3>1. i \in 1..Len(q) /\ i < k /\ j \in 1..Len(q) + 1
      BY <1>1, <1>5, <2>2
    <3>2. r[i] = q[i] /\ r[j] = x
      BY <1>5, <1>8, <2>2, <3>1
    <3>3. q[i].timeout <= x.timeout
      BY <1>6, <3>1
    <3> QED
      BY <3>2, <3>3
  <2>3. CASE i # k /\ j # k
    <3>1. i0 \in 1..Len(q) /\ j0 \in 1..Len(q) /\ i0 < j0
      BY <1>1, <1>5, <2>3
    <3>2. r[i] = q[i0] /\ r[j] = q[j0]
      BY <1>5, <1>8, <2>3
    <3> QED
      BY <3>1, <3>2 DEF Ordered
  <2> QED
    BY <2>1, <2>2, <2>3
<1> QED
  BY <1>5, <1>8, <1>10, <1>11 DEF Inserted, Later

\* Taking the first timer off the list.
LEMMA AfterWakeProperties ==
  ASSUME timers \in Seq(Timer), timers # <<>>
  PROVE  /\ AfterWake \in Seq(Timer) /\ Len(AfterWake) = Len(timers) - 1
         /\ Len(timers) \in Nat /\ Len(timers) >= 1
         /\ \A i \in 1..Len(timers) - 1 :
              AfterWake[i] = timers[i + 1] /\ i + 1 \in 1..Len(timers)
<1>1. Len(timers) \in Nat /\ Len(timers) >= 1
  BY LenProperties, EmptySeq
<1> QED
  BY <1>1, HeadTailProperties DEF AfterWake

-----------------------------------------------------------------------------
(***************************************************************************)
(* Every step is one of Sched, or invisible to it.                         *)
(***************************************************************************)

\* back_os when the kernel has the hart: it goes on where it was.
LEMMA BackToOsIdle ==
  ASSUME Inv, running = Os, BackToOs
  PROVE  UNCHANGED <<running, exit_at, leaked>>
<1>1. running \notin Tasks
  BY SchedAssumption
<1> QED
  BY <1>1 DEF BackToOs, LeaveHart, Unreachable, Uncounted, At

\* timer_handler wakes a live sleeper, since only such have timers, or ends the
\* slice of the running task, or leaves the scheduler alone.
LEMMA TickMaps ==
  ASSUME Inv, TimersInv, TimerHandler
  PROVE  \/ \E t \in Tasks : TimerWake(t)
         \/ TimerPreempt
         \/ UNCHANGED schedVars
<1>1. /\ CanStep
      /\ UNCHANGED <<queueVars, priority, stack, heap, exit_prev, stale, msip, booting,
                     alive>>
  BY DEF TimerHandler, TickWake, TickIdle, TickSlice, TickRun, Tick
<1>2. running \in Tasks \/ running = Os
  BY DEF Inv, TypeOK
<1>3. CASE TickWake
  <2>1. timers # <<>> /\ 1 \in 1..Len(timers)
    BY <1>3, AfterWakeProperties DEF TickWake, Due, TimersInv
  <2>2. /\ timers[1].task \in Tasks /\ timers[1].task \in alive
        /\ state[timers[1].task] = "SLEEPING"
    BY <2>1 DEF TimersInv, Inv, TypeOK
  <2>3. TimerWake(timers[1].task)
    BY <1>1, <1>3, <2>2 DEF TickWake, TimerWake
  <2> QED
    BY <2>2, <2>3
<1>4. CASE TickIdle
  <2>1. running = Os
    BY <1>2, <1>4, SchedAssumption DEF TickIdle, Inv, RunningIsCurrent
  <2>2. UNCHANGED <<running, exit_at, leaked>>
    BY <1>4, <2>1, BackToOsIdle DEF TickIdle
  <2> QED
    BY <1>1, <1>4, <2>2 DEF TickIdle, schedVars, memVars, exitVars, hartVars
<1>5. CASE TickSlice
  <2>1. CASE running \in Tasks
    BY <1>1, <1>5, <2>1 DEF TickSlice, TimerPreempt, memVars
  <2>2. CASE running = Os
    <3>1. UNCHANGED <<running, exit_at, leaked>>
      BY <1>5, <2>2, BackToOsIdle DEF TickSlice
    <3> QED
      BY <1>1, <1>5, <3>1 DEF TickSlice, schedVars, memVars, exitVars, hartVars
  <2> QED
    BY <1>2, <2>1, <2>2
<1>6. CASE TickRun
  BY <1>1, <1>6 DEF TickRun, schedVars, memVars, exitVars, hartVars
<1> QED
  BY <1>3, <1>4, <1>5, <1>6 DEF TimerHandler

LEMMA KNextMaps ==
  ASSUME Inv, TimersInv, [KNext]_kernelVars
  PROVE  [Next]_schedVars
<1>1. CASE KRun \/ KSchedule \/ \E n \in Sleeps : KSleep(n)
  BY <1>1 DEF KRun, KSchedule, KSleep, Next
<1>2. CASE TimerHandler
  BY <1>2, TickMaps DEF Next
<1>3. ASSUME NEW t \in Tasks, NEW p \in Priorities, NEW s \in StaleStates,
             NEW n \in Timeslices, KTaskCreate(t, p, s, n)
      PROVE  Next
  BY <1>3 DEF KTaskCreate, Next
<1>4. CASE UNCHANGED kernelVars
  BY <1>4 DEF kernelVars
<1> QED
  BY <1>1, <1>2, <1>3, <1>4 DEF KNext

-----------------------------------------------------------------------------
(***************************************************************************)
(* TimersInv is inductive.                                                 *)
(***************************************************************************)

\* A step that leaves the list alone, and the state of the tasks in it.
LEMMA ListKept ==
  ASSUME TimersInv, timers' = timers,
         \A i \in 1..Len(timers) :
           /\ timers[i].task \in alive'
           /\ state'[timers[i].task] = state[timers[i].task],
         running' \in Tasks /\ ~msip' => state'[running'] # "SLEEPING"
  PROVE  TimersInv'
  BY DEF TimersInv, Ordered

LEMMA CreateTimers ==
  ASSUME Inv, TimersInv, NEW t \in Tasks, NEW p, NEW s, NEW n, KTaskCreate(t, p, s, n)
  PROVE  TimersInv'
<1>1. /\ timers' = timers /\ running' = running /\ running = Os
      /\ alive' = alive \union {t} /\ state' = [state EXCEPT ![t] = s]
      /\ t \notin heap
  BY DEF KTaskCreate, TaskCreate, hartVars
<1>2. \A i \in 1..Len(timers) :
        timers[i].task \in alive /\ timers[i].task \in Tasks /\ timers[i].task # t
  BY <1>1 DEF TimersInv, Inv, QueueSound, TypeOK
<1>3. running' \notin Tasks
  BY <1>1, SchedAssumption
<1> QED
  BY <1>1, <1>2, <1>3, ListKept

\* task_exit takes the running task out of alive, which is awake.
LEMMA RunTimers ==
  ASSUME Inv, TimersInv, KRun
  PROVE  TimersInv'
<1>1. /\ UNCHANGED <<timers, state, running>> /\ CanStep
      /\ msip' = msip \/ msip'
      /\ alive' = alive \/ (alive' = alive \ {cur_task} /\ running \in Tasks)
  <2>1. Exiters \subseteq Tasks
    BY SchedAssumption
  <2> QED
    BY <2>1
       DEF KRun, KernelYield, TaskYield, ExitFind, ExitUnlink, ExitFree, ExitCount, ExitYield,
           Exiting, OutsideExit, memVars, exitVars, hartVars
<1>2. \A i \in 1..Len(timers) : timers[i].task \in alive'
  <2> SUFFICES ASSUME running \in Tasks, alive' = alive \ {cur_task},
                      NEW i \in 1..Len(timers)
               PROVE  timers[i].task \in alive'
    BY <1>1 DEF TimersInv
  <2>1. state[running] # "SLEEPING" /\ cur_task = running
    BY <1>1 DEF CanStep, TimersInv, Inv, RunningIsCurrent
  <2> QED
    BY <2>1 DEF TimersInv
<1> QED
  BY <1>1, <1>2, ListKept DEF TimersInv

LEMMA ScheduleTimers ==
  ASSUME Inv, TimersInv, KSchedule
  PROVE  TimersInv'
<1>1. UNCHANGED <<timers, state, alive>>
  BY DEF KSchedule, ScheduleOs, ScheduleFreed, ScheduleTask, memVars
<1>2. running' \in Tasks /\ ~msip' => state'[running'] # "SLEEPING"
  <2>1. CASE ScheduleOs
    BY <2>1, SchedAssumption DEF ScheduleOs
  <2>3. CASE ScheduleFreed
    BY <2>3 DEF ScheduleFreed
  <2>2. CASE ScheduleTask
    <3>1. running' = first_task[Next2Run] /\ Ready # {}
      BY <2>2 DEF ScheduleTask
    <3>2. Next2Run \in Ready
      BY <3>1, Next2RunProperties DEF Inv, TypeOK
    <3> QED
      BY <1>1, <3>1, <3>2 DEF Ready
  <2> QED
    BY <2>1, <2>2, <2>3 DEF KSchedule
<1> QED
  BY <1>1, <1>2, ListKept DEF TimersInv

\* The caller of sleep is alive and awake, so it has no timer yet.
LEMMA SleepTimers ==
  ASSUME Inv, TimersInv, ticks \in Nat, NEW n \in Nat, KSleep(n)
  PROVE  TimersInv'
<1> DEFINE x == [task |-> cur_task, timeout |-> ticks + n]
<1>1. /\ running \in Tasks /\ ~msip /\ cur_task = running /\ cur_task \in alive
      /\ state' = [state EXCEPT ![cur_task] = "SLEEPING"] /\ msip' = TRUE
      /\ alive' = alive /\ timers' = InsertTimer(timers, x)
  BY DEF KSleep, Sleep, OutsideExit, CanStep, At, ExitPoints, Inv, RunningIsCurrent
<1>2. x \in Timer /\ x.task = cur_task
  BY <1>1 DEF Timer
<1>3. timers \in Seq(Timer) /\ Len(timers) \in Nat /\ Ordered(timers)
      /\ \A i \in 1..Len(timers) : timers[i].task \in alive /\ timers[i].task \in Tasks
                                   /\ timers[i].task # cur_task
  BY <1>1, LenProperties DEF TimersInv, Inv, TypeOK
<1> HIDE DEF x
<1>4. PICK k : k = TimerPos(timers, x)
  OBVIOUS
<1>5. timers' \in Seq(Timer) /\ Ordered(timers') /\ Inserted(timers', timers, k, x)
  BY <1>1, <1>2, <1>3, <1>4, InsertTimerProperties
<1>6. \A i \in 1..Len(timers)' :
        \/ i = k /\ timers'[i] = x
        \/ /\ i < k /\ i \in 1..Len(timers) /\ timers'[i] = timers[i]
        \/ /\ i > k /\ i - 1 \in 1..Len(timers) /\ timers'[i] = timers[i - 1]
  BY <1>3, <1>5 DEF Inserted
<1>7. \A i \in 1..Len(timers)' : timers'[i].task \in alive'
                                 /\ state'[timers'[i].task] = "SLEEPING"
  <2> SUFFICES ASSUME NEW i \in 1..Len(timers)'
               PROVE  timers'[i].task \in alive' /\ state'[timers'[i].task] = "SLEEPING"
    OBVIOUS
  <2>1. cur_task \in Tasks /\ state \in [Tasks -> States]
    BY <1>1 DEF Inv, TypeOK
  <2>2. CASE i = k
    BY <1>1, <1>2, <1>6, <2>1, <2>2
  <2>3. ASSUME NEW m \in 1..Len(timers), timers'[i] = timers[m]
        PROVE  timers'[i].task \in alive' /\ state'[timers'[i].task] = "SLEEPING"
    <3>1. state[timers[m].task] = "SLEEPING"
      BY DEF TimersInv
    <3> QED
      BY <1>1, <1>3, <2>1, <2>3, <3>1
  <2> QED
    BY <1>6, <2>2, <2>3
<1>8. ASSUME NEW i \in 1..Len(timers)', NEW j \in 1..Len(timers)',
             timers'[i].task = timers'[j].task
      PROVE  i = j
  <2>1. CASE i = k \/ j = k
    <3>1. \A m \in 1..Len(timers)' : m # k => timers'[m].task # cur_task
      BY <1>3, <1>6
    <3>2. timers'[k].task = cur_task /\ k \in 1..Len(timers)'
      BY <1>2, <1>3, <1>5, <1>6 DEF Inserted
    <3> QED
      BY <1>8, <2>1, <3>1, <3>2
  <2>2. CASE i # k /\ j # k
    <3> DEFINE i0 == IF i < k THEN i ELSE i - 1
               j0 == IF j < k THEN j ELSE j - 1
    <3>1. /\ i0 \in 1..Len(timers) /\ j0 \in 1..Len(timers)
          /\ timers'[i] = timers[i0] /\ timers'[j] = timers[j0]
      BY <1>3, <1>5, <1>6, <2>2 DEF Inserted
    <3>2. i0 = j0
      BY <1>8, <3>1 DEF TimersInv
    <3> QED
      BY <1>3, <1>5, <2>2, <3>2 DEF Inserted
  <2> QED
    BY <2>1, <2>2
<1> QED
  BY <1>1, <1>5, <1>7, <1>8 DEF TimersInv

\* The task that is woken leaves the list; the others sleep on.
LEMMA WakeTimers ==
  ASSUME Inv, TimersInv, TickWake
  PROVE  TimersInv'
<1>2. /\ timers # <<>> /\ timers \in Seq(Timer) /\ alive' = alive
  BY DEF TickWake, Tick, Due, TimersInv
<1>3. /\ AfterWake \in Seq(Timer) /\ Len(AfterWake) = Len(timers) - 1
      /\ Len(timers) \in Nat /\ Len(timers) >= 1
      /\ \A i \in 1..Len(timers) - 1 :
           AfterWake[i] = timers[i + 1] /\ i + 1 \in 1..Len(timers)
  BY <1>2, AfterWakeProperties
<1>4. state[timers[1].task] = "SLEEPING"
  BY <1>3 DEF TimersInv
<1>5. /\ state' = [state EXCEPT ![timers[1].task] = "RUNNABLE"]
      /\ timers' = AfterWake /\ running' = Os
  BY <1>4 DEF TickWake, BackToOs
<1>6. \A i \in 1..Len(timers)' : /\ i \in 1..Len(timers) - 1 /\ timers'[i] = timers[i + 1]
                                 /\ i + 1 \in 1..Len(timers)
  BY <1>3, <1>5 DEF Inserted
<1>7. Ordered(timers')
  BY <1>3, <1>6 DEF TimersInv, Ordered
<1>8. \A i, j \in 1..Len(timers)' : timers'[i].task = timers'[j].task => i = j
  <2> SUFFICES ASSUME NEW i \in 1..Len(timers)', NEW j \in 1..Len(timers)',
                      timers'[i].task = timers'[j].task
               PROVE  i = j
    OBVIOUS
  <2>1. i + 1 = j + 1
    BY <1>6 DEF TimersInv
  <2> QED
    BY <1>3, <1>6, <2>1
<1>9. \A i \in 1..Len(timers)' :
        timers'[i].task \in alive' /\ state'[timers'[i].task] = "SLEEPING"
  <2> SUFFICES ASSUME NEW i \in 1..Len(timers)'
               PROVE  timers'[i].task \in alive' /\ state'[timers'[i].task] = "SLEEPING"
    OBVIOUS
  <2>1. timers'[i] = timers[i + 1] /\ i + 1 \in 1..Len(timers) /\ 1 \in 1..Len(timers) /\ i + 1 # 1
    BY <1>3, <1>6
  <2>2. timers[i + 1].task # timers[1].task
    BY <2>1 DEF TimersInv
  <2>3. timers[i + 1].task \in alive /\ timers[i + 1].task \in Tasks
        /\ state[timers[i + 1].task] = "SLEEPING"
    BY <2>1 DEF TimersInv, Inv, TypeOK
  <2> QED
    BY <1>2, <1>5, <2>1, <2>2, <2>3 DEF Inv, TypeOK
<1> QED
  BY <1>3, <1>5, <1>7, <1>8, <1>9, SchedAssumption DEF TimersInv

LEMMA TickTimers ==
  ASSUME Inv, TimersInv, TickIdle \/ TickSlice \/ TickRun
  PROVE  TimersInv'
<1>1. UNCHANGED <<timers, state, alive, msip>> /\ (running' = Os \/ running' = running)
  BY DEF TickIdle, TickSlice, TickRun, Tick, BackToOs
<1> QED
  BY <1>1, ListKept, SchedAssumption DEF TimersInv

-----------------------------------------------------------------------------
(***************************************************************************)
(* ClockInv is inductive.                                                  *)
(***************************************************************************)

\* The bound of SliceBound: at least 1, and at least the slice.
LEMMA SliceMax ==
  ASSUME NEW n \in Nat
  PROVE  Max({1, n}) \in Nat /\ Max({1, n}) >= 1 /\ Max({1, n}) >= n
<1>1. \E m \in {1, n} : \A y \in {1, n} : m >= y
  <2>1. CASE n <= 1
    BY <2>1
  <2>2. CASE n > 1
    BY <2>2
  <2> QED
    BY <2>1, <2>2
<1>2. Max({1, n}) \in {1, n} /\ \A y \in {1, n} : Max({1, n}) >= y
  BY <1>1 DEF Max
<1> QED
  BY <1>2

\* No task has the hart after the step, or the same one has it and no time has passed.
LEMMA ClockKept ==
  ASSUME ClockInv, UNCHANGED <<clockVars, timeslice, run_start>>,
         running' = running \/ running' = Os
  PROVE  ClockInv'
<1>1. CASE running' = running
  BY <1>1 DEF ClockInv, SliceBound, clockVars
<1>2. CASE running' = Os
  BY <1>2, SchedAssumption DEF ClockInv, SliceBound, clockVars
<1> QED
  BY <1>1, <1>2

LEMMA CreateClock ==
  ASSUME ClockInv, NEW t \in Tasks, NEW p, NEW s, NEW n \in Nat, KTaskCreate(t, p, s, n)
  PROVE  ClockInv'
<1>1. /\ running = Os /\ running' = Os /\ timeslice' = [timeslice EXCEPT ![t] = n]
      /\ UNCHANGED <<ticks, start_tick, run_start>>
  BY DEF KTaskCreate, TaskCreate, hartVars, clockVars
<1> QED
  BY <1>1, SchedAssumption DEF ClockInv, SliceBound

LEMMA RunClock ==
  ASSUME ClockInv, KRun \/ \E n \in Sleeps : KSleep(n)
  PROVE  ClockInv'
<1>1. UNCHANGED <<clockVars, timeslice, run_start, running>>
  BY DEF KRun, KSleep, KernelYield, TaskYield, Sleep, ExitFind, ExitUnlink, ExitFree, ExitCount,
         ExitYield, hartVars
<1> QED
  BY <1>1, ClockKept

\* A task that gets the hart has had none of its time yet.
LEMMA ScheduleClock ==
  ASSUME Inv, ClockInv, KSchedule
  PROVE  ClockInv'
<1>1. CASE ScheduleOs /\ UNCHANGED run_start
  BY <1>1, ClockKept DEF KSchedule, ScheduleOs
<1>2. CASE ScheduleTask /\ run_start' = ticks
  <2>1. UNCHANGED <<ticks, start_tick, timeslice>> /\ run_start' = ticks
    BY <1>2 DEF KSchedule, clockVars
  <2>2. ASSUME running' \in Tasks PROVE ticks - ticks < Max({1, timeslice[running']})
    BY <2>2, SliceMax DEF ClockInv
  <2> QED
    BY <2>1, <2>2 DEF ClockInv, SliceBound
<1>3. CASE ScheduleFreed /\ UNCHANGED run_start
  BY <1>3, ClockKept DEF KSchedule, ScheduleFreed
<1> QED
  BY <1>1, <1>2, <1>3 DEF KSchedule

\* A task that keeps the hart at a tick has not used up its slice.
LEMMA TickClock ==
  ASSUME Inv, TimersInv, ClockInv, TimerHandler
  PROVE  ClockInv'
<1>1. /\ ticks' = ticks + 1 /\ ticks' \in 0..MaxTicks
      /\ UNCHANGED <<timeslice, run_start>> /\ run_start' \in 0..ticks'
  BY KernelAssumption
     DEF TimerHandler, TickWake, TickIdle, TickSlice, TickRun, Tick, ClockInv
<1>2. start_tick' \in 0..ticks'
  BY <1>1
     DEF TimerHandler, TickWake, TickIdle, TickSlice, TickRun, SliceStart, ClockInv
<1>3. CASE running' = Os
  BY <1>1, <1>2, <1>3, SchedAssumption DEF ClockInv, SliceBound
<1>4. CASE TickRun /\ running \in Tasks
  <2>0. cur_task = running
    BY <1>4 DEF Inv, RunningIsCurrent
  <2>1. /\ running' = running /\ start_tick' = start_tick
        /\ ~((ticks + 1) - start_tick >= timeslice[running])
    BY <1>4, <2>0 DEF TickRun, SliceOver
  <2>2. /\ timeslice[running] \in Nat /\ start_tick <= run_start
        /\ ticks \in Nat /\ start_tick \in Nat /\ run_start \in Nat
    BY <1>4 DEF ClockInv
  <2>3. (ticks + 1) - run_start < timeslice[running]
    BY <2>1, <2>2
  <2>4. /\ Max({1, timeslice[running]}) \in Nat
        /\ Max({1, timeslice[running]}) >= timeslice[running]
    BY <2>2, SliceMax
  <2>5. (ticks + 1) - run_start < Max({1, timeslice[running]})
    BY <2>2, <2>3, <2>4
  <2>6. SliceBound'
    BY <1>1, <2>1, <2>5 DEF SliceBound
  <2> QED
    BY <1>1, <1>2, <2>1, <2>2, <2>6 DEF ClockInv
<1>5. CASE TickRun /\ running = Os
  BY <1>3, <1>5 DEF TickRun
<1>6. CASE TickWake
  <2>1. timers # <<>>
    BY <1>6 DEF TickWake, Due
  <2>2. state[timers[1].task] = "SLEEPING"
    BY <2>1, AfterWakeProperties DEF TimersInv
  <2> QED
    BY <1>3, <1>6, <2>2 DEF TickWake, BackToOs
<1>7. CASE TickIdle \/ TickSlice
  BY <1>3, <1>7 DEF TickIdle, TickSlice, BackToOs
<1>8. running \in Tasks \/ running = Os
  BY DEF Inv, TypeOK
<1> QED
  BY <1>4, <1>5, <1>6, <1>7, <1>8 DEF TimerHandler

-----------------------------------------------------------------------------
LEMMA KInitInv == KInit => KInv
<1> SUFFICES ASSUME KInit PROVE KInv
  OBVIOUS
<1>1. Inv
  BY InitInv DEF KInit
<1>2. timers = <<>> /\ Len(timers) = 0 /\ timers \in Seq(Timer)
  BY EmptySeq DEF KInit
<1>3. running = Os
  BY DEF KInit, Init
<1>4. TimersInv
  BY <1>2, <1>3, SchedAssumption DEF TimersInv, Ordered
<1>5. ClockInv
  BY <1>3, SchedAssumption, KernelAssumption DEF ClockInv, SliceBound, KInit
<1> QED
  BY <1>1, <1>4, <1>5 DEF KInv

LEMMA KNextInv == KInv /\ [KNext]_kernelVars => KInv'
<1> SUFFICES ASSUME KInv, [KNext]_kernelVars PROVE KInv'
  OBVIOUS
<1> USE DEF KInv
<1>1. Inv'
  BY KNextMaps, NextInv
<1>2. ticks \in Nat
  BY DEF ClockInv
<1>3. ASSUME NEW t \in Tasks, NEW p \in Priorities, NEW s \in StaleStates,
             NEW n \in Timeslices, KTaskCreate(t, p, s, n)
      PROVE  TimersInv' /\ ClockInv'
  <2>1. n \in Nat
    BY KernelAssumption
  <2> QED
    BY <1>3, <2>1, CreateTimers, CreateClock
<1>4. CASE KRun
  BY <1>1, <1>4, RunTimers, RunClock
<1>5. CASE KSchedule
  BY <1>1, <1>5, ScheduleTimers, ScheduleClock
<1>6. ASSUME NEW n \in Sleeps, KSleep(n)
      PROVE  TimersInv' /\ ClockInv'
  BY <1>2, <1>6, KernelAssumption, SleepTimers, RunClock
<1>7. CASE TimerHandler
  <2>1. TimersInv'
    BY <1>7, WakeTimers, TickTimers DEF TimerHandler
  <2> QED
    BY <1>1, <1>7, <2>1, TickClock
<1>8. CASE UNCHANGED kernelVars
  <2>1. TimersInv'
    BY <1>8 DEF kernelVars, schedVars, memVars, hartVars, TimersInv, Ordered
  <2>2. ClockInv'
    BY <1>8, ClockKept DEF kernelVars, schedVars, hartVars
  <2> QED
    BY <1>1, <2>1, <2>2
<1> QED
  BY <1>1, <1>3, <1>4, <1>5, <1>6, <1>7, <1>8 DEF KNext

THEOREM KInvariance == KSpec => []KInv
  BY KInitInv, KNextInv, PTL DEF KSpec

\* The kernel implements the scheduler: what timer_handler and sleep do to it is
\* what Sched allows, so that all theorems of SchedProofs hold of the kernel.
\* timer_check wakes a task that is alive and asleep, and never calls NULL.
THEOREM KernelImplementsSched == KSpec => RefinesSched
<1>1. KInit => Init
  BY DEF KInit
<1>2. KInv /\ [KNext]_kernelVars => [Next]_schedVars
  BY KNextMaps DEF KInv
<1> QED
  BY <1>1, <1>2, KInvariance, PTL DEF KSpec, Spec, RefinesSched

\* The clock, the slices and the timers keep their types (timer.c).
THEOREM ClockTypeCorrect == KSpec => []KTypeOK
<1>1. KInv => KTypeOK
  <2> SUFFICES ASSUME KInv PROVE KTypeOK
    OBVIOUS
  <2>1. ASSUME NEW i \in 1..Len(timers) PROVE timers[i] \in Timer
    BY ElementOfSeq DEF KInv, TimersInv
  <2> QED
    BY <2>1 DEF KInv, ClockInv, KTypeOK, Timer
<1> QED
  BY <1>1, KInvariance, PTL

\* A task is preempted before it has had more than its time slice, although
\* _cur_task_start_tick is not reset when it gets the hart (timer_handler).
THEOREM SlicesBounded == KSpec => []SliceBound
<1>1. KInv => SliceBound
  BY DEF KInv, ClockInv
<1> QED
  BY <1>1, KInvariance, PTL

-----------------------------------------------------------------------------
(***************************************************************************)
(* Sleepers.                                                               *)
(***************************************************************************)

\* Only a task that is alive sleeps: an exited one was awake when it exited.
AwakeInv == \A t \in Tasks \ alive : state[t] # "SLEEPING"

\* Whoever sleeps has a timer.
QueuedInv ==
  \A t \in Tasks : state[t] = "SLEEPING" => \E i \in 1..Len(timers) : timers[i].task = t

LEMMA AwakeNext == KInv /\ AwakeInv /\ [KNext]_kernelVars => AwakeInv'
<1> SUFFICES ASSUME KInv, AwakeInv, [KNext]_kernelVars PROVE AwakeInv'
  OBVIOUS
<1> USE DEF KInv
<1>0. state \in [Tasks -> States] /\ alive \subseteq Tasks
  BY DEF Inv, TypeOK
<1>1. ASSUME NEW t \in Tasks, NEW p, NEW s, NEW n, KTaskCreate(t, p, s, n)
      PROVE  AwakeInv'
  BY <1>0, <1>1 DEF KTaskCreate, TaskCreate, AwakeInv
<1>2. CASE KRun
  <2>1. /\ state' = state /\ CanStep
        /\ alive' = alive \/ (alive' = alive \ {cur_task} /\ running \in Exiters)
    BY <1>2
       DEF KRun, KernelYield, TaskYield, ExitFind, ExitUnlink, ExitFree, ExitCount, ExitYield,
           Exiting, OutsideExit, memVars, exitVars, hartVars
  <2>2. running \in Tasks => cur_task = running /\ state[running] # "SLEEPING"
    BY <2>1 DEF CanStep, TimersInv, Inv, RunningIsCurrent
  <2> QED
    BY <2>1, <2>2, SchedAssumption DEF AwakeInv
<1>3. CASE KSchedule
  BY <1>3 DEF KSchedule, ScheduleOs, ScheduleFreed, ScheduleTask, memVars, AwakeInv
<1>4. ASSUME NEW n \in Sleeps, KSleep(n)
      PROVE  AwakeInv'
  <2>1. cur_task \in alive /\ alive' = alive /\ state' = [state EXCEPT ![cur_task] = "SLEEPING"]
    BY <1>4 DEF KSleep, Sleep, OutsideExit, CanStep, At, ExitPoints, Inv, RunningIsCurrent
  <2> QED
    BY <1>0, <2>1 DEF AwakeInv
<1>5. CASE TimerHandler
  <2>1. alive' = alive
    BY <1>5 DEF TimerHandler, TickWake, TickIdle, TickSlice, TickRun, Tick
  <2>2. \A t \in Tasks : state'[t] = state[t] \/ state'[t] = "RUNNABLE"
    BY <1>0, <1>5 DEF TimerHandler, TickWake, TickIdle, TickSlice, TickRun
  <2> QED
    BY <2>1, <2>2 DEF AwakeInv
<1>6. CASE UNCHANGED kernelVars
  BY <1>6 DEF kernelVars, schedVars, memVars, AwakeInv
<1> QED
  BY <1>1, <1>2, <1>3, <1>4, <1>5, <1>6 DEF KNext

\* Only timer_handler makes a sleeper runnable, and it takes the first timer of a
\* list that is in order.
THEOREM AlwaysWakesEarliest == KSpec => WakesEarliest
<1> DEFINE Earliest ==
      \A t \in Tasks :
        (state[t] = "SLEEPING" /\ state'[t] = "RUNNABLE") =>
          \E i \in 1..Len(timers) :
            /\ timers[i].task = t /\ timers[i].timeout <= ticks'
            /\ \A j \in 1..Len(timers) : timers[i].timeout <= timers[j].timeout
<1>1. KInit => AwakeInv
  BY DEF KInit, Init, AwakeInv
<1>2. KSpec => []AwakeInv
  BY <1>1, AwakeNext, KInvariance, PTL DEF KSpec
<1>3. ASSUME KInv, AwakeInv, KNext PROVE Earliest
  <2>0. /\ state \in [Tasks -> States] /\ alive \subseteq heap
        /\ timers \in Seq(Timer) /\ Ordered(timers)
    BY <1>3 DEF KInv, TimersInv, Inv, TypeOK, QueueSound
  <2>1. ASSUME NEW t \in Tasks, NEW p, NEW s, NEW n, KTaskCreate(t, p, s, n)
        PROVE  Earliest
    <3>1. t \notin heap /\ state' = [state EXCEPT ![t] = s]
      BY <2>1 DEF KTaskCreate, TaskCreate
    <3>2. state[t] # "SLEEPING"
      BY <1>3, <2>0, <3>1 DEF AwakeInv
    <3> QED
      BY <2>0, <3>1, <3>2
  <2>2. CASE KRun \/ KSchedule \/ \E n \in Sleeps : KSleep(n)
    <3>1. state' = state \/ state' = [state EXCEPT ![cur_task] = "SLEEPING"]
      BY <2>2
         DEF KRun, KernelYield, TaskYield, ExitFind, ExitUnlink, ExitFree, ExitCount, ExitYield,
             KSchedule, ScheduleOs, ScheduleFreed, ScheduleTask, KSleep, Sleep, memVars
    <3> QED
      BY <2>0, <3>1
  <2>3. CASE TickWake
    <3>1. /\ timers # <<>> /\ timers[1].timeout <= ticks'
          /\ state' = state \/ state' = [state EXCEPT ![timers[1].task] = "RUNNABLE"]
      BY <2>3 DEF TickWake, Tick, Due
    <3>2. /\ Len(timers) \in Nat /\ Len(timers) >= 1
          /\ \A j \in 1..Len(timers) : timers[j] \in Timer
      BY <2>0, <3>1, AfterWakeProperties, ElementOfSeq
    <3>3. \A j \in 1..Len(timers) : timers[1].timeout <= timers[j].timeout
      <4> SUFFICES ASSUME NEW j \in 1..Len(timers)
                   PROVE  timers[1].timeout <= timers[j].timeout
        OBVIOUS
      <4>1. CASE j = 1
        BY <3>2, <4>1 DEF Timer
      <4>2. CASE j # 1
        BY <2>0, <3>2, <4>2 DEF Ordered
      <4> QED
        BY <4>1, <4>2
    <3>4. ASSUME NEW t \in Tasks, state[t] = "SLEEPING", state'[t] = "RUNNABLE"
          PROVE  t = timers[1].task
      BY <2>0, <3>1, <3>4
    <3>5. 1 \in 1..Len(timers)
      BY <3>2
    <3> QED
      BY <3>1, <3>3, <3>4, <3>5
  <2>4. CASE TickIdle \/ TickSlice \/ TickRun
    BY <2>4 DEF TickIdle, TickSlice, TickRun
  <2> QED
    BY <1>3, <2>1, <2>2, <2>3, <2>4 DEF KNext, TimerHandler
<1>4. KInv /\ AwakeInv /\ [KNext]_kernelVars => [Earliest]_kernelVars
  BY <1>3
<1>5. KSpec => [][Earliest]_kernelVars
  BY <1>2, <1>4, KInvariance, PTL DEF KSpec
<1> QED
  BY <1>5 DEF WakesEarliest

LEMMA QueuedNext ==
  ASSUME "SLEEPING" \notin StaleStates, KInv, QueuedInv, [KNext]_kernelVars
  PROVE  QueuedInv'
<1> USE DEF KInv
<1>0. state \in [Tasks -> States] /\ timers \in Seq(Timer) /\ Len(timers) \in Nat /\ ticks \in Nat
  BY LenProperties DEF Inv, TypeOK, TimersInv, ClockInv
<1>1. ASSUME NEW t \in Tasks, NEW p, NEW s \in StaleStates, NEW n, KTaskCreate(t, p, s, n)
      PROVE  QueuedInv'
  BY <1>0, <1>1 DEF KTaskCreate, TaskCreate, QueuedInv
<1>2. CASE KRun \/ KSchedule
  BY <1>2
     DEF KRun, KernelYield, TaskYield, ExitFind, ExitUnlink, ExitFree, ExitCount, ExitYield,
         KSchedule, ScheduleOs, ScheduleFreed, ScheduleTask, memVars, QueuedInv
<1>3. ASSUME NEW n \in Sleeps, KSleep(n)
      PROVE  QueuedInv'
  <2>1. PICK x : x = [task |-> cur_task, timeout |-> ticks + n]
    OBVIOUS
  <2>2. /\ cur_task = running /\ running \in Tasks
        /\ state' = [state EXCEPT ![cur_task] = "SLEEPING"]
        /\ timers' = InsertTimer(timers, x)
    BY <1>3, <2>1 DEF KSleep, Sleep, OutsideExit, Inv, RunningIsCurrent
  <2>3. x \in Timer /\ x.task = cur_task
    BY <1>0, <2>1, <2>2, KernelAssumption DEF Timer
  <2>4. PICK k : k = TimerPos(timers, x)
    OBVIOUS
  <2>5. Inserted(timers', timers, k, x)
    BY <1>0, <2>2, <2>3, <2>4, InsertTimerProperties DEF TimersInv
  <2> SUFFICES ASSUME NEW t \in Tasks, state'[t] = "SLEEPING"
               PROVE  \E i \in 1..Len(timers') : timers'[i].task = t
    BY DEF QueuedInv
  <2>6. CASE t = cur_task
    <3>1. k \in 1..Len(timers') /\ timers'[k] = x
      BY <1>0, <2>5 DEF Inserted
    <3> QED
      BY <2>3, <2>6, <3>1
  <2>7. CASE t # cur_task
    <3>1. PICK i \in 1..Len(timers) : timers[i].task = t
      BY <1>0, <2>2, <2>7 DEF QueuedInv
    <3> DEFINE m == IF i < k THEN i ELSE i + 1
    <3>2. m \in 1..Len(timers') /\ timers'[m] = timers[i]
      BY <1>0, <2>5 DEF Inserted
    <3> QED
      BY <3>1, <3>2
  <2> QED
    BY <2>6, <2>7
<1>4. CASE TickWake
  <2>1. timers # <<>>
    BY <1>4 DEF TickWake, Due
  <2>2. /\ Len(AfterWake) = Len(timers) - 1 /\ Len(timers) >= 1
        /\ \A i \in 1..Len(timers) - 1 : AfterWake[i] = timers[i + 1]
    BY <1>0, <2>1, AfterWakeProperties
  <2>3. state[timers[1].task] = "SLEEPING" /\ timers[1].task \in Tasks
    BY <1>0, <2>2 DEF TimersInv, Inv, TypeOK
  <2>4. state' = [state EXCEPT ![timers[1].task] = "RUNNABLE"] /\ timers' = AfterWake
    BY <1>4, <2>3 DEF TickWake
  <2> SUFFICES ASSUME NEW t \in Tasks, state'[t] = "SLEEPING"
               PROVE  \E i \in 1..Len(timers') : timers'[i].task = t
    BY DEF QueuedInv
  <2>5. t # timers[1].task /\ state[t] = "SLEEPING"
    BY <1>0, <2>3, <2>4
  <2>6. PICK i \in 1..Len(timers) : timers[i].task = t
    BY <2>5 DEF QueuedInv
  <2>7. i # 1
    BY <2>5, <2>6
  <2>8. i - 1 \in 1..Len(timers') /\ timers'[i - 1] = timers[i]
    BY <1>0, <2>2, <2>4, <2>7
  <2> QED
    BY <2>6, <2>8
<1>5. CASE TickIdle \/ TickSlice \/ TickRun \/ UNCHANGED kernelVars
  BY <1>5 DEF TickIdle, TickSlice, TickRun, kernelVars, schedVars, memVars, QueuedInv
<1> QED
  BY <1>1, <1>2, <1>3, <1>4, <1>5 DEF KNext, TimerHandler

\* A task sleeps exactly when the list holds one timer for it, provided that no
\* task is created asleep, in memory that was not cleared (sched.c:227).
THEOREM SleepersAlwaysQueued ==
  ASSUME "SLEEPING" \notin StaleStates
  PROVE  KSpec => []SleepersQueued
<1>1. KInit => QueuedInv
  BY DEF KInit, Init, QueuedInv
<1>2. KInv /\ QueuedInv /\ [KNext]_kernelVars => QueuedInv'
  BY QueuedNext
<1>3. KInv /\ QueuedInv => SleepersQueued
  <2> SUFFICES ASSUME KInv, QueuedInv, NEW t \in alive
               PROVE  state[t] = "SLEEPING" <=>
                        Cardinality({i \in 1..Len(timers) : timers[i].task = t}) = 1
    BY DEF SleepersQueued, KInv, TimersInv
  <2> DEFINE I == {i \in 1..Len(timers) : timers[i].task = t}
  <2>1. t \in Tasks
    BY DEF KInv, Inv, TypeOK
  <2>2. ASSUME state[t] = "SLEEPING" PROVE Cardinality(I) = 1
    <3>1. PICK i \in 1..Len(timers) : timers[i].task = t
      BY <2>1, <2>2 DEF QueuedInv
    <3>2. I = {i}
      BY <3>1 DEF KInv, TimersInv
    <3> QED
      BY <3>2, FS_Singleton
  <2>3. ASSUME state[t] # "SLEEPING" PROVE Cardinality(I) # 1
    <3>1. I = {}
      BY <2>3 DEF KInv, TimersInv
    <3>2. Cardinality({}) = 0
      BY FS_EmptySet
    <3> HIDE DEF I
    <3>3. Cardinality(I) = 0
      BY <3>1, <3>2
    <3> QED
      BY <3>3
  <2> QED
    BY <2>2, <2>3
<1> QED
  BY <1>1, <1>2, <1>3, KInvariance, PTL DEF KSpec

-----------------------------------------------------------------------------
\* There are no more timers than tasks.
LEMMA TimersFit ==
  ASSUME IsFiniteSet(Tasks), NEW q \in Seq(Timer),
         \A i, j \in 1..Len(q) : q[i].task = q[j].task => i = j
  PROVE  Len(q) \in Nat /\ Cardinality(Tasks) \in Nat /\ Len(q) <= Cardinality(Tasks)
<1> DEFINE f == [i \in 1..Len(q) |-> q[i].task]
<1>1. Len(q) \in Nat /\ \A i \in 1..Len(q) : q[i].task \in Tasks
  <2>1. Len(q) \in Nat /\ \A i \in 1..Len(q) : q[i] \in Timer
    BY LenProperties, ElementOfSeq
  <2> QED
    BY <2>1 DEF Timer
<1>2. f \in Injection(1..Len(q), Tasks)
  BY <1>1 DEF Injection, IsInjective
<1>3. Cardinality(1..Len(q)) <= Cardinality(Tasks)
  BY <1>2, FS_Injection
<1>4. Cardinality(1..Len(q)) = Len(q)
  <2>1. 1 \in Int /\ Len(q) \in Int
    BY <1>1
  <2>2. Cardinality(1..Len(q)) = IF 1 > Len(q) THEN 0 ELSE Len(q) - 1 + 1
    BY <2>1, FS_Interval
  <2> QED
    BY <1>1, <2>2
<1> QED
  BY <1>1, <1>3, <1>4, FS_CardinalityType

\* Each tick takes the first timer off the list if any is due, and a timer that
\* is due is never overtaken: what a timer gains in lateness it loses in position.
LEMMA LateNext ==
  ASSUME IsFiniteSet(Tasks), KInv, LatenessBound, [KNext]_kernelVars
  PROVE  LatenessBound'
<1> USE DEF KInv
<1> DEFINE C == Cardinality(Tasks)
<1>0. /\ timers \in Seq(Timer) /\ Len(timers) \in Nat /\ ticks \in Nat /\ Ordered(timers)
      /\ \A i \in 1..Len(timers) : timers[i].timeout \in Nat
  <2>1. timers \in Seq(Timer) /\ ticks \in Nat /\ Ordered(timers)
    BY DEF TimersInv, ClockInv
  <2>2. Len(timers) \in Nat /\ \A i \in 1..Len(timers) : timers[i] \in Timer
    BY <2>1, LenProperties, ElementOfSeq
  <2> QED
    BY <2>1, <2>2 DEF Timer
<1>1. C \in Nat /\ Len(timers') \in Nat /\ Len(timers') <= C
  <2>1. KInv'
    BY KNextInv
  <2> QED
    BY <2>1, TimersFit DEF TimersInv
<1> HIDE DEF C
<1>2. LatenessBound = \A i \in 1..Len(timers) :
                        timers[i].timeout <= ticks => (ticks - timers[i].timeout) + i <= C
  BY DEF LatenessBound, C
<1>3. LatenessBound' = \A i \in 1..Len(timers') :
                         timers'[i].timeout <= ticks' => (ticks' - timers'[i].timeout) + i <= C
  BY DEF LatenessBound, C
<1>4. CASE UNCHANGED <<timers, ticks>>
  BY <1>2, <1>3, <1>4
<1>5. ASSUME NEW n \in Sleeps, KSleep(n)
      PROVE  LatenessBound'
  <2>1. PICK x : x = [task |-> cur_task, timeout |-> ticks + n]
    OBVIOUS
  <2>2. cur_task \in Tasks /\ timers' = InsertTimer(timers, x) /\ ticks' = ticks
    BY <1>5, <2>1 DEF KSleep, Sleep, OutsideExit, clockVars, Inv, RunningIsCurrent
  <2>3. x \in Timer /\ x.timeout = ticks + n /\ n \in Nat
    BY <1>0, <2>1, <2>2, KernelAssumption DEF Timer
  <2>4. PICK k : k = TimerPos(timers, x)
    OBVIOUS
  <2>5. Inserted(timers', timers, k, x) /\ Later(timers, k, x)
    BY <1>0, <2>2, <2>3, <2>4, InsertTimerProperties
  <2> SUFFICES ASSUME NEW i \in 1..Len(timers'), timers'[i].timeout <= ticks
               PROVE  (ticks - timers'[i].timeout) + i <= C
    BY <1>3, <2>2
  <2>6. i \in 1..Len(timers) + 1 /\ i \in Nat /\ k \in Nat /\ i <= C
    BY <1>0, <1>1, <2>5 DEF Inserted
  <2>7. CASE i < k
    <3>1. timers'[i] = timers[i] /\ i \in 1..Len(timers)
      BY <1>0, <2>5, <2>6, <2>7 DEF Inserted
    <3> QED
      BY <1>2, <3>1
  <2>8. CASE i = k
    <3>1. timers'[i].timeout = ticks + n
      BY <2>3, <2>5, <2>6, <2>8 DEF Inserted
    <3> QED
      BY <1>0, <1>1, <2>3, <2>6, <3>1
  <2>9. CASE i > k
    <3>1. timers'[i] = timers[i - 1] /\ i - 1 \in 1..Len(timers) /\ i - 1 >= k
      BY <1>0, <2>5, <2>6, <2>9 DEF Inserted
    <3>2. timers[i - 1].timeout > ticks + n
      BY <2>3, <2>5, <3>1 DEF Later
    <3> QED
      BY <1>0, <2>3, <3>1, <3>2
  <2> QED
    BY <2>6, <2>7, <2>8, <2>9
<1>6. CASE TickWake
  <2>1. timers # <<>> /\ ticks' = ticks + 1
    BY <1>6 DEF TickWake, Due, Tick
  <2>2. /\ Len(AfterWake) = Len(timers) - 1 /\ Len(timers) >= 1
        /\ \A i \in 1..Len(timers) - 1 : AfterWake[i] = timers[i + 1]
    BY <1>0, <2>1, AfterWakeProperties
  <2>3. timers' = AfterWake
    BY <1>6, <2>2 DEF TickWake, TimersInv
  <2> SUFFICES ASSUME NEW i \in 1..Len(timers'), timers'[i].timeout <= ticks + 1
               PROVE  ((ticks + 1) - timers'[i].timeout) + i <= C
    BY <1>3, <2>1
  <2>4. /\ timers'[i] = timers[i + 1] /\ i + 1 \in 1..Len(timers) /\ i \in Nat /\ i <= C
        /\ timers'[i].timeout \in Nat
    BY <1>0, <1>1, <2>2, <2>3
  <2>5. CASE timers'[i].timeout <= ticks
    <3>1. (ticks - timers'[i].timeout) + (i + 1) <= C
      BY <1>2, <2>4, <2>5
    <3> QED
      BY <1>0, <1>1, <2>4, <3>1
  <2>6. CASE timers'[i].timeout = ticks + 1
    BY <1>0, <1>1, <2>4, <2>6
  <2> QED
    BY <1>0, <2>4, <2>5, <2>6
<1>7. CASE TickIdle \/ TickSlice \/ TickRun
  <2>1. timers' = timers /\ ticks' = ticks + 1 /\ ~Due(ticks + 1)
    BY <1>7 DEF TickIdle, TickSlice, TickRun, Tick
  <2>2. \A i \in 1..Len(timers) : timers[i].timeout > ticks + 1
    <3> SUFFICES ASSUME NEW i \in 1..Len(timers)
                 PROVE  timers[i].timeout > ticks + 1
      OBVIOUS
    <3>1. timers # <<>> /\ 1 \in 1..Len(timers)
      BY <1>0, EmptySeq
    <3>2. timers[1].timeout > ticks + 1
      BY <1>0, <2>1, <3>1 DEF Due
    <3>3. timers[1].timeout <= timers[i].timeout
      BY <1>0, <3>1 DEF Ordered
    <3> QED
      BY <1>0, <3>1, <3>2, <3>3
  <2> QED
    BY <1>0, <1>3, <2>1, <2>2
<1>8. CASE KRun \/ KSchedule \/ UNCHANGED kernelVars
      \/ \E t \in Tasks, p \in Priorities, s \in StaleStates, n \in Timeslices :
           KTaskCreate(t, p, s, n)
  BY <1>4, <1>8 DEF KRun, KSchedule, KTaskCreate, clockVars, kernelVars
<1> QED
  BY <1>5, <1>6, <1>7, <1>8 DEF KNext, TimerHandler

\* A wake-up is late by fewer ticks than there are tasks (timer_check).
THEOREM LatenessBounded ==
  ASSUME IsFiniteSet(Tasks)
  PROVE  KSpec => []LatenessBound
<1>1. KInit => LatenessBound
  BY EmptySeq DEF KInit, LatenessBound
<1>2. KInv /\ LatenessBound /\ [KNext]_kernelVars => LatenessBound'
  BY LateNext
<1> QED
  BY <1>1, <1>2, KInvariance, PTL DEF KSpec

-----------------------------------------------------------------------------
(***************************************************************************)
(* The lock.                                                               *)
(***************************************************************************)

\* What is inductive: the types and MutualExclusion. That the word is set while
\* someone holds the lock is what makes the swap of a second one return 1.
LockInv == LockTypeOK /\ MutualExclusion

LEMMA LockInit == LInit => LockInv
  BY DEF LInit, LockInv, LockTypeOK, MutualExclusion, Holds, Points

\* The swap makes its task the holder when the word was 0, and changes nothing
\* about who holds the lock when it was 1.
LEMMA SwapKeeps ==
  ASSUME LockInv, NEW t \in Lockers, AtomicSwap(t)
  PROVE  LockInv'
<1> USE DEF AtomicSwap, Runs, LockInv, LockTypeOK, MutualExclusion, Points
<1>1. LockTypeOK'
  OBVIOUS
<1>2. \A u \in Lockers : u # t => (Holds(u)' <=> Holds(u))
  BY DEF Holds
<1>3. ~Holds(t) /\ (Holds(t)' <=> locked = 0)
  BY DEF Holds
<1>4. \A u, v \in Lockers : Holds(u)' /\ Holds(v)' => u = v
  BY <1>2, <1>3
<1>5. (locked = 1 <=> \E u \in Lockers : Holds(u))'
  BY <1>2, <1>3
<1> QED
  BY <1>1, <1>4, <1>5

LEMMA AcquireKeeps ==
  ASSUME LockInv, NEW t \in Lockers, Acquire(t)
  PROVE  LockInv'
<1> USE DEF Acquire, Runs, LockInv, LockTypeOK, MutualExclusion, Points
<1>1. LockTypeOK'
  OBVIOUS
<1>2. \A u \in Lockers : Holds(u)' <=> Holds(u)
  BY DEF Holds
<1> QED
  BY <1>1, <1>2

\* The holder puts the 0 back: since it was the only one, nobody holds the lock.
LEMMA FreeKeeps ==
  ASSUME LockInv, NEW t \in Lockers, LockFree(t)
  PROVE  LockInv'
<1> USE DEF LockFree, Runs, LockInv, LockTypeOK, MutualExclusion, Points
<1>1. LockTypeOK'
  OBVIOUS
<1>2. Holds(t) /\ ~Holds(t)'
  BY DEF Holds
<1>3. \A u \in Lockers : u # t => (Holds(u)' <=> Holds(u))
  BY DEF Holds
<1>4. \A u \in Lockers : ~Holds(u)'
  BY <1>2, <1>3
<1> QED
  BY <1>1, <1>4

LEMMA SleepKeeps ==
  ASSUME LockInv, NEW t \in Lockers, LockerSleep(t)
  PROVE  LockInv'
<1> USE DEF LockerSleep, Runs, LockInv, LockTypeOK, MutualExclusion, Points
<1>1. LockTypeOK'
  OBVIOUS
<1>2. \A u \in Lockers : Holds(u)' <=> Holds(u)
  BY DEF Holds
<1> QED
  BY <1>1, <1>2

LEMMA LockNext == LockInv /\ [LNext]_allVars => LockInv'
<1> SUFFICES ASSUME LockInv, [LNext]_allVars PROVE LockInv'
  OBVIOUS
<1>1. CASE UNCHANGED lockVars
  BY <1>1 DEF lockVars, LockInv, LockTypeOK, MutualExclusion, Holds
<1>2. CASE OtherStep
  BY <1>1, <1>2 DEF OtherStep
<1>3. ASSUME NEW t \in Lockers, LockerStep(t) PROVE LockInv'
  BY <1>3, SwapKeeps, AcquireKeeps, FreeKeeps, SleepKeeps DEF LockerStep
<1>4. CASE UNCHANGED allVars
  BY <1>1, <1>4 DEF allVars
<1> QED
  BY <1>2, <1>3, <1>4 DEF LNext

\* One task at most is between lock_acquire and lock_free, and the word is set
\* exactly while one is (lock.c, atomic_swap of entry.S).
THEOREM OneHolder == LSpec => []MutualExclusion
<1>1. LSpec => []LockInv
  BY LockInit, LockNext, PTL DEF LSpec
<1>2. LockInv => MutualExclusion
  BY DEF LockInv
<1> QED
  BY <1>1, <1>2, PTL

\* The word is 0 or 1, and every locker somewhere in the loop of user_task2.
THEOREM LockTypeCorrect == LSpec => []LockTypeOK
<1>1. LSpec => []LockInv
  BY LockInit, LockNext, PTL DEF LSpec
<1>2. LockInv => LockTypeOK
  BY DEF LockInv
<1> QED
  BY <1>1, <1>2, PTL

\* The lockers do nothing to the scheduler that it does not allow: Lock
\* implements Sched, the spinning being invisible to it.
THEOREM LockImplementsSched == LSpec => Spec
<1>1. LInit => Init
  BY DEF LInit
<1>2. [LNext]_allVars => [Next]_schedVars
  <2> SUFFICES ASSUME LNext PROVE Next \/ UNCHANGED schedVars
    BY DEF allVars
  <2>1. CASE OtherStep
    BY <2>1 DEF OtherStep, Next
  <2>2. ASSUME NEW t \in Lockers, LockerStep(t) PROVE Next \/ UNCHANGED schedVars
    BY <2>2 DEF LockerStep, AtomicSwap, Acquire, LockFree, LockerSleep, Next
  <2> QED
    BY <2>1, <2>2 DEF LNext
<1> QED
  BY <1>1, <1>2, PTL DEF LSpec, Spec

=============================================================================
