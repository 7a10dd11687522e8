------------------------------- MODULE Kernel -------------------------------
(***************************************************************************)
(* The running kernel: the scheduler of Sched with the tick counter, the   *)
(* time slices and the list of sleep timers of os/timer.c.  One timer      *)
(* interrupt is one tick, and timer_handler decides what Sched leaves      *)
(* open: whether it wakes a task, ends a slice or changes nothing.         *)
(*                                                                         *)
(* The timers here are those that sleep creates (func = NULL).  They are   *)
(* inserted in the system call and deleted in timer_handler, both inside a *)
(* trap, so their list operations are atomic.  Module Timers adds those    *)
(* that tasks create and delete with interrupts on.                        *)
(***************************************************************************)
EXTENDS Sched

CONSTANTS
  Timeslices,  \* the time slices callers pass to task_create, in ticks
  Sleeps,      \* the arguments of sleep, in ticks
  MaxTicks     \* bound: the ticks after which the model's clock stops

ASSUME KernelAssumption ==
  /\ Timeslices \subseteq Nat /\ Sleeps \subseteq Nat
  /\ MaxTicks \in Nat

VARIABLES
  ticks,       \* _ticks
  start_tick,  \* _cur_task_start_tick
  timers,      \* the list from first_timer, a sequence of [task, timeout]
  timeslice,   \* task->timeslice
  run_start    \* history: ticks when schedule last gave the hart to a task

clockVars  == <<ticks, start_tick>>
kernelVars == <<schedVars, clockVars, timers, timeslice, run_start>>

KInit ==
  /\ Init
  /\ ticks = 0 /\ start_tick = 0 /\ timers = <<>>
  /\ timeslice = [t \in Tasks |-> 0]
  /\ run_start = 0

-----------------------------------------------------------------------------
(***************************************************************************)
(* The timer list.                                                         *)
(***************************************************************************)

\* t->next is left NULL: what followed the new timer is lost.
Bug_InsertTimerCut(list, x) ==
  LET k == Min({i \in 1..Len(list) + 1 :
                  i = Len(list) + 1 \/ list[i].timeout > x.timeout})
  IN  Append(SubSeq(list, 1, k - 1), x)

\* The list is kept in the order of creation.
Bug_InsertTimerLast(list, x) == Append(list, x)

\* insert_timer: behind the timers that are due no later.
InsertTimer(list, x) ==
  InsertAt(list, Min({i \in 1..Len(list) + 1 :
                        i = Len(list) + 1 \/ list[i].timeout > x.timeout}), x)

\* timer_check: the first timer is due at tick now.
Due(now) == timers # <<>> /\ timers[1].timeout <= now

\* The timer stays in the list.
Bug_AfterWake == timers

\* timer_delete of the timer that woke its task, always the first.
AfterWake == Tail(timers)

Bug_SliceOver(now) == now - start_tick > timeslice[cur_task]

\* cur_task may be freed memory: nothing has overwritten its time slice yet.
SliceOver(now) == now - start_tick >= timeslice[cur_task]

Bug_SliceStart(now) == now + 1

SliceStart(now) == now

-----------------------------------------------------------------------------
(***************************************************************************)
(* The scheduler's actions, with what they do to the timers and slices.    *)
(***************************************************************************)

KTaskCreate(t, p, s, slice) ==
  /\ TaskCreate(t, p, s)
  /\ timeslice' = [timeslice EXCEPT ![t] = slice]
  /\ UNCHANGED <<clockVars, timers, run_start>>

\* The steps of the hart between two interrupts, sleep apart.
KRun ==
  /\ \/ KernelYield \/ TaskYield
     \/ ExitFind \/ ExitUnlink \/ ExitFree \/ ExitCount \/ ExitYield
  /\ UNCHANGED <<clockVars, timers, timeslice, run_start>>

\* do_syscall, task_delay and timer_create, in one trap.
KSleep(n) ==
  /\ Sleep
  /\ timers' = InsertTimer(timers, [task |-> cur_task, timeout |-> ticks + n])
  /\ UNCHANGED <<clockVars, timeslice, run_start>>

\* The software interrupt. _cur_task_start_tick is not touched by a switch.
KSchedule ==
  /\ \/ (ScheduleOs \/ ScheduleFreed) /\ UNCHANGED run_start
     \/ ScheduleTask /\ run_start' = ticks
  /\ UNCHANGED <<clockVars, timers, timeslice>>

-----------------------------------------------------------------------------
(***************************************************************************)
(* timer_handler.                                                          *)
(***************************************************************************)

Tick ==
  /\ CanStep /\ ticks < MaxTicks
  /\ ticks' = ticks + 1
  /\ UNCHANGED <<queueVars, priority, stack, heap, exit_prev, stale, msip,
                 booting, alive, timeslice, run_start>>

\* The first timer is due. One task is woken per tick: timer_check returns it
\* at once. Were it not asleep, timer_check would call func, which is NULL.
TickWake ==
  /\ Tick /\ Due(ticks + 1)
  /\ LET t == timers[1].task IN
       IF state[t] = "SLEEPING"
       THEN /\ state' = [state EXCEPT ![t] = "RUNNABLE"]
            /\ cur_task' = t
            /\ timers' = AfterWake
            /\ BackToOs
            /\ UNCHANGED fault
       ELSE /\ fault' = "null"
            /\ UNCHANGED <<state, cur_task, timers, running, exit_at, leaked>>
  /\ UNCHANGED start_tick

\* No task has the hart: back_os resumes the kernel where it was.
TickIdle ==
  /\ Tick /\ ~Due(ticks + 1)
  /\ cur_task = NoTask
  /\ BackToOs
  /\ UNCHANGED <<state, cur_task, timers, fault, start_tick>>

TickSlice ==
  /\ Tick /\ ~Due(ticks + 1)
  /\ cur_task # NoTask /\ SliceOver(ticks + 1)
  /\ start_tick' = SliceStart(ticks + 1)
  /\ BackToOs
  /\ UNCHANGED <<state, cur_task, timers, fault>>

TickRun ==
  /\ Tick /\ ~Due(ticks + 1)
  /\ cur_task # NoTask /\ ~SliceOver(ticks + 1)
  /\ UNCHANGED <<state, cur_task, timers, fault, start_tick, running, exit_at,
                 leaked>>

TimerHandler == TickWake \/ TickIdle \/ TickSlice \/ TickRun

KNext ==
  \/ \E t \in Tasks, p \in Priorities, s \in StaleStates, n \in Timeslices :
       KTaskCreate(t, p, s, n)
  \/ KRun \/ KSchedule
  \/ \E n \in Sleeps : KSleep(n)
  \/ TimerHandler

KSpec == KInit /\ [][KNext]_kernelVars

-----------------------------------------------------------------------------
(***************************************************************************)
(* Properties.                                                             *)
(***************************************************************************)

\* The types of the variables of this module; the clock never runs backwards
\* past the start of a slice.
KTypeOK ==
  /\ ticks \in 0..MaxTicks
  /\ start_tick \in 0..ticks /\ run_start \in 0..ticks
  /\ \A i \in 1..Len(timers) :
       timers[i].task \in Tasks /\ timers[i].timeout \in Nat
  /\ timeslice \in [Tasks -> Nat]

\* A task sleeps exactly when one timer is going to wake it: none sleeps for
\* ever, none is woken twice, no timer outlives the task it points to.
SleepersQueued ==
  /\ \A t \in alive : state[t] = "SLEEPING" <=>
       Cardinality({i \in 1..Len(timers) : timers[i].task = t}) = 1
  /\ \A i \in 1..Len(timers) :
       timers[i].task \in alive /\ state[timers[i].task] = "SLEEPING"

\* timer_check wakes one task per tick and sleepers may be due together, yet
\* none is kept longer than the number of tasks: a timer that is due is never
\* overtaken, so its position bounds the ticks it still has to wait.
LatenessBound ==
  \A i \in 1..Len(timers) :
    timers[i].timeout <= ticks =>
      ticks - timers[i].timeout + i <= Cardinality(Tasks)

\* No task keeps the hart longer than its time slice, though the slice is
\* measured from a tick that no switch resets. A slice of 0 acts like 1.
SliceBound ==
  running \in Tasks =>
    ticks - run_start < Max({1, timeslice[running]})

\* A task is woken no earlier than it asked for, and before every task that
\* asked for a later tick.
WakesEarliest ==
  [][\A t \in Tasks :
       (state[t] = "SLEEPING" /\ state'[t] = "RUNNABLE") =>
         \E i \in 1..Len(timers) :
           /\ timers[i].task = t /\ timers[i].timeout <= ticks'
           /\ \A j \in 1..Len(timers) :
                timers[i].timeout <= timers[j].timeout]_kernelVars

\* Every step of timer_handler and of the system calls is one that Sched
\* allows: in particular timer_check never calls the NULL function.
RefinesSched == Spec

=============================================================================
