-------------------------------- MODULE Lock --------------------------------
(***************************************************************************)
(* The spin lock of os/lock.c and the tasks of os/user.c that share it,    *)
(* under the preemptive scheduler of Sched.  A locker runs the loop of     *)
(* user_task2: lock_acquire, what the lock protects, lock_free, sleep.     *)
(* lock_acquire spins on atomic_swap: the amoswap is one step, the test of *)
(* its result another, and the hart may be taken away between any two.     *)
(***************************************************************************)
EXTENDS Sched

CONSTANT Lockers  \* the tasks that run user_task2 and user_task3

ASSUME LockAssumption == Lockers \subseteq Tasks /\ Lockers \cap Exiters = {}

VARIABLES
  locked,  \* lock.locked
  a5,      \* the register of each locker that the amoswap returns into
  at       \* where each locker is in its loop

lockVars == <<locked, a5, at>>
allVars  == <<schedVars, lockVars>>

Points == {"swap", "test", "critical", "sleep"}

LInit ==
  /\ Init
  /\ locked = 0
  /\ a5 = [t \in Lockers |-> 0]
  /\ at = [t \in Lockers |-> "swap"]

-----------------------------------------------------------------------------
\* The next instruction of the running task is a locker's, at this point.
Runs(t, point) == CanStep /\ running = t /\ at[t] = point

\* A load and a store: an interrupt may come between the two.
Bug_AtomicSwap(t) ==
  \/ /\ Runs(t, "swap")
     /\ a5' = [a5 EXCEPT ![t] = locked]
     /\ at' = [at EXCEPT ![t] = "store"]
     /\ UNCHANGED <<schedVars, locked>>
  \/ /\ Runs(t, "store")
     /\ locked' = 1
     /\ at' = [at EXCEPT ![t] = "test"]
     /\ UNCHANGED <<schedVars, a5>>

\* amoadd instead of amoswap.
Bug_AtomicAdd(t) ==
  /\ Runs(t, "swap")
  /\ a5' = [a5 EXCEPT ![t] = locked]
  /\ locked' = locked + 1
  /\ at' = [at EXCEPT ![t] = "test"]
  /\ UNCHANGED schedVars

\* atomic_swap: one amoswap of 1 with the word.
AtomicSwap(t) ==
  /\ Runs(t, "swap")
  /\ a5' = [a5 EXCEPT ![t] = locked]
  /\ locked' = 1
  /\ at' = [at EXCEPT ![t] = "test"]
  /\ UNCHANGED schedVars

\* The loop of lock_acquire: again, for as long as the word was set.
Acquire(t) ==
  /\ Runs(t, "test")
  /\ at' = [at EXCEPT ![t] = IF a5[t] = 0 THEN "critical" ELSE "swap"]
  /\ UNCHANGED <<schedVars, locked, a5>>

LockFree(t) ==
  /\ Runs(t, "critical")
  /\ locked' = 0
  /\ at' = [at EXCEPT ![t] = "sleep"]
  /\ UNCHANGED <<schedVars, a5>>

LockerSleep(t) ==
  /\ Runs(t, "sleep")
  /\ Sleep
  /\ at' = [at EXCEPT ![t] = "swap"]
  /\ UNCHANGED <<locked, a5>>

LockerStep(t) == AtomicSwap(t) \/ Acquire(t) \/ LockFree(t) \/ LockerSleep(t)

\* What the scheduler, its interrupts and the other tasks do.
OtherStep ==
  /\ \/ \E t \in Tasks, p \in Priorities, s \in StaleStates : TaskCreate(t, p, s)
     \/ KernelYield
     \/ running \notin Lockers /\ (TaskYield \/ Sleep)
     \/ ScheduleOs \/ ScheduleTask \/ ScheduleFreed
     \/ ExitFind \/ ExitUnlink \/ ExitFree \/ ExitCount \/ ExitYield
     \/ TimerPreempt
     \/ \E t \in Tasks : TimerWake(t)
  /\ UNCHANGED lockVars

LNext == OtherStep \/ \E t \in Lockers : LockerStep(t)

LSpec == LInit /\ [][LNext]_allVars

\* Pending interrupts are taken, kernel() loops, and mtimecmp is always rearmed, so
\* that a running task is interrupted sooner or later. A task that has the hart
\* again and again executes again and again: ticks are a second apart.
LFairSpec ==
  /\ LSpec
  /\ WF_allVars(KernelYield /\ UNCHANGED lockVars)
  /\ WF_allVars(ScheduleOs /\ UNCHANGED lockVars)
  /\ WF_allVars(ScheduleTask /\ UNCHANGED lockVars)
  /\ WF_allVars(TimerPreempt /\ UNCHANGED lockVars)
  /\ \A t \in Lockers : SF_allVars(LockerStep(t))

-----------------------------------------------------------------------------
(***************************************************************************)
(* Properties.                                                             *)
(***************************************************************************)

\* The word is 0 or 1 and every locker is somewhere in its loop.
LockTypeOK ==
  /\ locked \in {0, 1}
  /\ a5 \in [Lockers -> {0, 1}]
  /\ at \in [Lockers -> Points]

\* t has swapped the 0 out of the word and not yet put it back.
Holds(t) == at[t] = "critical" \/ (at[t] = "test" /\ a5[t] = 0)

\* One task at most is between lock_acquire and lock_free, and the word is set
\* exactly while one is: no spinner can set it, or miss its reset, for good.
MutualExclusion ==
  /\ \A t, u \in Lockers : Holds(t) /\ Holds(u) => t = u
  /\ locked = 1 <=> \E t \in Lockers : Holds(t)

\* A holder that was preempted gets to free the lock, though tasks of higher
\* priority spin for it: each of their slices lowers their priority.
LockReleased ==
  \A t \in Lockers : at[t] = "critical" ~> at[t] = "sleep"

=============================================================================
