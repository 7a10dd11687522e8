------------------------------- MODULE Sched -------------------------------
(***************************************************************************)
(* The preemptive scheduler of os/sched.c on its single hart: the run      *)
(* queue, the count of tasks, the current task, and the entries that       *)
(* change them (task_create, the software interrupt, sleep, task_exit, the *)
(* timer interrupt).                                                       *)
(*                                                                         *)
(* Code that runs inside a trap runs with mstatus.MIE clear, so each trap  *)
(* is one action.  task_exit runs in the task itself and a timer interrupt *)
(* may take the hart away between any two of its statements: its search,   *)
(* its unlinking, its free, its decrement and its yield are five actions.  *)
(* Time is abstract here: a timer interrupt preempts or wakes at any       *)
(* moment.  Module Kernel adds ticks, slices and deadlines.                *)
(***************************************************************************)
EXTENDS Integers, Sequences, FiniteSets, SequencesExt

CONSTANTS
  Tasks,        \* addresses at which malloc may place a struct taskInfo
  Os,           \* the kernel's own context, os_task.ctx
  NoTask,       \* the NULL struct taskInfo pointer
  MaxTaskNum,   \* MAX_TASK_NUM, also the number of task stacks
  MaxPriority,  \* 256, where pop_task stops lowering a priority
  Priorities,   \* the priorities callers pass to task_create
  StaleStates,  \* what malloc'ed memory may hold where task->state lies
  Exiters       \* the tasks whose function ends with task_exit

States == {"RUNNING", "RUNNABLE", "SLEEPING"}

ASSUME SchedAssumption ==
  /\ Os \notin Tasks /\ NoTask \notin Tasks /\ Os # NoTask
  /\ MaxTaskNum \in Nat \ {0}
  /\ MaxPriority \in Int
  /\ Priorities \subseteq Int
  /\ StaleStates \subseteq States
  /\ Exiters \subseteq Tasks

VARIABLES
  first_task,  \* the run queue, from the first_task pointer along ->next
  tasks_num,   \* _tasks_num
  cur_task,    \* the cur_task pointer
  priority,    \* task->priority
  state,       \* task->state
  stack,       \* the index in task_stack that task->ctx.sp started in
  heap,        \* the addresses that hold a malloc'ed, not yet freed taskInfo
  running,     \* whose context mscratch points to: Os or a task
  msip,        \* the software interrupt is pending
  booting,     \* the kernel is still inside user_init
  exit_at,     \* how far each task is in task_exit
  exit_prev,   \* its prev there, NoTask when it found itself to be first
  fault,       \* "null": a NULL pointer was followed, panic() spins forever;
               \* "cycle": the queue is a list no more, a walk may never end;
               \* "freed": a freed taskInfo was to be read or written.
               \* The model stops at each of them
  alive,       \* history: created tasks that have not started to unlink
  leaked,      \* history: tasks preempted after unlinking, before --_tasks_num
  stale        \* history: the store of some task_exit was not the unlinking of
               \* its task, because the queue had changed since the search

memVars   == <<priority, state, stack, heap>>
queueVars == <<first_task, tasks_num>>
exitVars  == <<exit_at, exit_prev, stale>>
hartVars  == <<running, msip, booting, fault>>
schedVars == <<queueVars, cur_task, memVars, exitVars, hartVars, alive, leaked>>

ExitPoints == {"none", "found", "unlinked", "freed", "counted"}

\* The running task is at this point of task_exit.
At(points) == running \in Tasks /\ exit_at[running] \in points

\* It is past the store of its unlinking, before --_tasks_num.
Uncounted == At({"unlinked", "freed"})

-----------------------------------------------------------------------------
(***************************************************************************)
(* The queue operations, insert_task and pop_task.  An operator Bug_X is   *)
(* X with a mistake that a programmer could have made: TLC must find with  *)
(* it the violation that the property it is paired with speaks of.         *)
(***************************************************************************)

Bug_InsertPosLifo(queue, prio, p) ==
  Min({k \in 1..Len(queue) + 1 : k = Len(queue) + 1 \/ prio[queue[k]] >= p})

Bug_InsertPosLast(queue, prio, p) == Len(queue) + 1

\* Before the first task of lower priority (a larger number): FIFO among equals.
InsertPos(queue, prio, p) ==
  Min({k \in 1..Len(queue) + 1 : k = Len(queue) + 1 \/ prio[queue[k]] > p})

\* The head case forgets to count.
Bug_InsertTaskHead(queue, num, prio, t) ==
  LET k == InsertPos(queue, prio, prio[t])
  IN  [queue |-> InsertAt(queue, k, t),
       num   |-> IF k = 1 /\ queue # <<>> THEN num ELSE num + 1]

\* insert_task: an empty queue with a non-zero count refuses the task.
InsertTask(queue, num, prio, t) ==
  IF queue = <<>> /\ num # 0
  THEN [queue |-> queue, num |-> num]
  ELSE [queue |-> InsertAt(queue, InsertPos(queue, prio, prio[t]), t),
        num   |-> num + 1]

Bug_Aged(p) == p

Aged(p) == IF p < MaxPriority THEN p + 1 ELSE p

\* The positions pop_task does not skip, and the one it stops at.
Ready == {k \in 1..Len(first_task) : state[first_task[k]] # "SLEEPING"}

Bug_Next2Run == Max(Ready)

Next2Run == Min(Ready)

\* The last task of the list is never unlinked.
Bug_Unlinked(queue, k) == IF k = Len(queue) THEN queue ELSE RemoveAt(queue, k)

Unlinked(queue, k) == RemoveAt(queue, k)

\* The count is lowered only after the task is queued again.
Bug_PopTask(prio) ==
  LET r == InsertTask(Unlinked(first_task, Next2Run), tasks_num, prio,
                      first_task[Next2Run])
  IN  [queue |-> r.queue, num |-> r.num - 1]

\* pop_task, once it has found a task and lowered its priority to prio.
PopTask(prio) ==
  InsertTask(Unlinked(first_task, Next2Run), tasks_num - 1, prio,
             first_task[Next2Run])

Bug_HasRoom == tasks_num <= MaxTaskNum

HasRoom == tasks_num < MaxTaskNum

-----------------------------------------------------------------------------
Init ==
  /\ first_task = <<>> /\ tasks_num = 0 /\ cur_task = NoTask
  /\ priority = [t \in Tasks |-> 0]
  /\ state = [t \in Tasks |-> "RUNNING"]
  /\ stack = [t \in Tasks |-> 0]
  /\ heap = {} /\ alive = {} /\ leaked = 0
  /\ exit_at = [t \in Tasks |-> "none"]
  /\ exit_prev = [t \in Tasks |-> NoTask] /\ stale = FALSE
  /\ running = Os /\ msip = FALSE /\ booting = TRUE /\ fault = "none"

\* An instruction of a context executes only when no interrupt is pending.
CanStep == ~msip /\ fault = "none"

\* A context that is outside of task_exit.
OutsideExit == CanStep /\ ~At(ExitPoints \ {"none"})

\* task_create, which only user_init calls. state is not initialised: it keeps whatever malloc returned.
TaskCreate(t, p, s) ==
  /\ CanStep /\ running = Os /\ booting
  /\ HasRoom
  /\ t \notin heap
  /\ first_task # <<>> \/ tasks_num = 0     \* else free(new_task), return -1
  /\ priority' = [priority EXCEPT ![t] = p]
  /\ state' = [state EXCEPT ![t] = s]
  /\ stack' = [stack EXCEPT ![t] = tasks_num]
  /\ LET r == InsertTask(first_task, tasks_num, priority', t)
     IN  first_task' = r.queue /\ tasks_num' = r.num
  /\ heap' = heap \union {t}
  /\ alive' = alive \union {t}
  /\ UNCHANGED <<cur_task, exitVars, hartVars, leaked>>

\* The loop of kernel(), after user_init: task_yield raises the interrupt.
KernelYield ==
  /\ CanStep /\ running = Os
  /\ msip' = TRUE /\ booting' = FALSE
  /\ UNCHANGED <<queueVars, cur_task, memVars, exitVars, running, fault,
                 alive, leaked>>

\* A task that gives up the hart with task_yield.
TaskYield ==
  /\ OutsideExit /\ running \in Tasks
  /\ msip' = TRUE
  /\ UNCHANGED <<queueVars, cur_task, memVars, exitVars, running, booting,
                 fault, alive, leaked>>

\* The sleep system call: task_delay marks cur_task and asks to be switched.
Sleep ==
  /\ OutsideExit /\ running \in Tasks
  /\ state' = [state EXCEPT ![cur_task] = "SLEEPING"]
  /\ msip' = TRUE
  /\ UNCHANGED <<queueVars, cur_task, priority, stack, heap, exitVars, running,
                 booting, fault, alive, leaked>>

\* The running task is past its unlinking and out of the queue.
Unreachable ==
  At({"unlinked", "freed", "counted"}) /\ running \notin ToSet(first_task)

\* A task that leaves the hart is resumed where it stopped if schedule finds it
\* in the queue, and never again if not.
LeaveHart ==
  exit_at' = IF Unreachable THEN [exit_at EXCEPT ![running] = "none"] ELSE exit_at

\* The tasks whose taskInfo pop_task reads: as far as the one it takes, and in
\* the rest as far as insert_task's walk goes.
PopReads ==
  IF Ready = {} THEN ToSet(first_task)
  ELSE LET t    == first_task[Next2Run]
           rest == Unlinked(first_task, Next2Run)
       IN  {first_task[k] : k \in 1..Next2Run} \union
           {rest[k] : k \in 1..Min({Len(rest),
                                  InsertPos(rest, priority, Aged(priority[t]))})}

\* pop_task meets a freed task that a stale unlink left in the queue.
ScheduleFreed ==
  /\ msip /\ fault = "none"
  /\ tasks_num > 0 /\ ~ PopReads \subseteq heap
  /\ fault' = "freed"
  /\ UNCHANGED <<queueVars, cur_task, memVars, exitVars, running, msip, booting,
                 alive, leaked>>

\* schedule, out of software_interrupt_handler, when pop_task finds no task.
ScheduleOs ==
  /\ msip /\ fault = "none"
  /\ tasks_num <= 0 \/ (Ready = {} /\ PopReads \subseteq heap)
  /\ msip' = FALSE
  /\ running' = Os
  /\ LeaveHart
  /\ cur_task' = IF tasks_num <= 0 THEN cur_task ELSE NoTask
  /\ UNCHANGED <<queueVars, memVars, exit_prev, stale, booting, fault, alive,
                 leaked>>

\* schedule when pop_task returns a task: it is aged and queued again.
ScheduleTask ==
  /\ msip /\ fault = "none"
  /\ tasks_num > 0 /\ Ready # {} /\ PopReads \subseteq heap
  /\ msip' = FALSE
  /\ LET t == first_task[Next2Run] IN
       /\ priority' = [priority EXCEPT ![t] = Aged(@)]
       /\ LET r == PopTask(priority')
          IN  first_task' = r.queue /\ tasks_num' = r.num
       /\ cur_task' = t /\ running' = t
  /\ LeaveHart
  /\ UNCHANGED <<state, stack, heap, exit_prev, stale, booting, fault, alive,
                 leaked>>

-----------------------------------------------------------------------------
(***************************************************************************)
(* task_exit.                                                              *)
(***************************************************************************)

Exiting(at) == CanStep /\ running \in Exiters /\ exit_at[running] = at

\* Where the walk from first_task meets t, or falls off the end.
PositionOf(t) == Min({k \in 1..Len(first_task) + 1 :
                        k = Len(first_task) + 1 \/ first_task[k] = t})

FoundAt == PositionOf(cur_task)

\* The comparison with first_task->task_id, and the walk that finds prev.
ExitFind ==
  /\ Exiting("none") /\ cur_task # NoTask
  /\ IF first_task = <<>>
     THEN fault' = "null" /\ UNCHANGED exitVars
     ELSE IF \E k \in 1..Len(first_task) :
                k <= FoundAt /\ first_task[k] \notin heap
     THEN fault' = "freed" /\ UNCHANGED exitVars
     ELSE /\ exit_at' = [exit_at EXCEPT ![running] = "found"]
          /\ exit_prev' = [exit_prev EXCEPT ![running] =
               IF FoundAt = 1 THEN NoTask ELSE first_task[FoundAt - 1]]
          /\ UNCHANGED <<fault, stale>>
  /\ UNCHANGED <<queueVars, cur_task, memVars, running, msip, booting, alive,
                 leaked>>

\* Is prev, found earlier, still what comes before t in the queue?
StillBefore(queue, prev, t) ==
  \E k \in 1..Len(queue) :
    /\ queue[k] = t
    /\ prev = IF k = 1 THEN NoTask ELSE queue[k - 1]

\* What the store goes through: first_task->next, or prev->next.
UnlinkFault(prev) ==
  CASE prev = NoTask /\ first_task = <<>> -> "null"
    [] (IF prev = NoTask THEN first_task[1] ELSE prev) \notin heap -> "freed"
    [] PositionOf(prev) \in FoundAt..Len(first_task) -> "cycle"
    [] OTHER -> "none"

\* The queue after first_task = first_task->next, or after prev->next =
\* cur_task->next: what lies between prev and cur_task is dropped with it.
Spliced(prev) ==
  CASE prev = NoTask -> Unlinked(first_task, 1)
    [] prev \in ToSet(first_task) ->
         SubSeq(first_task, 1, PositionOf(prev)) \o
         SubSeq(first_task, FoundAt + 1, Len(first_task))
    [] OTHER -> first_task

\* The store, whatever the queue has become since ExitFind: when it has changed,
\* cur_task may stay in the queue and other tasks may leave it.
ExitUnlink ==
  /\ Exiting("found")
  /\ LET prev == exit_prev[running] IN
       /\ fault' = UnlinkFault(prev)
       /\ stale' = (stale \/ ~StillBefore(first_task, prev, cur_task))
       /\ IF fault' = "none"
          THEN /\ first_task' = Spliced(prev)
               /\ exit_at' = [exit_at EXCEPT ![running] = "unlinked"]
               /\ alive' = alive \ {cur_task}
          ELSE UNCHANGED <<first_task, exit_at, alive>>
  /\ UNCHANGED <<tasks_num, cur_task, memVars, exit_prev, running, msip,
                 booting, leaked>>

ExitFree ==
  /\ Exiting("unlinked")
  /\ heap' = heap \ {cur_task}
  /\ exit_at' = [exit_at EXCEPT ![running] = "freed"]
  /\ UNCHANGED <<queueVars, cur_task, priority, state, stack, exit_prev, stale,
                 hartVars, alive, leaked>>

ExitCount ==
  /\ Exiting("freed")
  /\ tasks_num' = tasks_num - 1
  /\ exit_at' = [exit_at EXCEPT ![running] = "counted"]
  /\ UNCHANGED <<first_task, cur_task, memVars, exit_prev, stale, hartVars, alive,
                 leaked>>

ExitYield ==
  /\ Exiting("counted")
  /\ msip' = TRUE
  /\ UNCHANGED <<queueVars, cur_task, memVars, exitVars, running, booting,
                 fault, alive, leaked>>

-----------------------------------------------------------------------------
(***************************************************************************)
(* What a timer interrupt does to the scheduler (timer_handler).           *)
(***************************************************************************)

\* The tick that wakes a task, or ends a slice, returns into the same task.
Bug_BackToOs == running' = running /\ UNCHANGED <<exit_at, leaked>>

BackToOs ==
  /\ running' = Os
  /\ LeaveHart
  /\ leaked' = IF Uncounted /\ Unreachable THEN leaked + 1 ELSE leaked

\* The slice is over: back_os.
TimerPreempt ==
  /\ CanStep /\ running \in Tasks
  /\ BackToOs
  /\ UNCHANGED <<queueVars, cur_task, memVars, exit_prev, stale, msip, booting,
                 fault, alive>>

\* The sleep of t is over.
TimerWake(t) ==
  /\ CanStep /\ t \in alive /\ state[t] = "SLEEPING"
  /\ state' = [state EXCEPT ![t] = "RUNNABLE"]
  /\ cur_task' = t
  /\ BackToOs
  /\ UNCHANGED <<queueVars, priority, stack, heap, exit_prev, stale, msip,
                 booting, fault, alive>>

Next ==
  \/ \E t \in Tasks, p \in Priorities, s \in StaleStates : TaskCreate(t, p, s)
  \/ KernelYield \/ TaskYield \/ Sleep
  \/ ScheduleOs \/ ScheduleTask \/ ScheduleFreed
  \/ ExitFind \/ ExitUnlink \/ ExitFree \/ ExitCount \/ ExitYield
  \/ TimerPreempt
  \/ \E t \in Tasks : TimerWake(t)

Spec == Init /\ [][Next]_schedVars

-----------------------------------------------------------------------------
(***************************************************************************)
(* Properties.                                                             *)
(***************************************************************************)

\* Every variable has its type; _tasks_num stays within the task stacks. It may
\* fall below 0 only after a stale unlink, see CounterDrift.
TypeOK ==
  /\ first_task \in Seq(Tasks)
  /\ tasks_num \in Int /\ tasks_num <= MaxTaskNum
  /\ cur_task \in Tasks \union {NoTask}
  /\ priority \in [Tasks -> Int]
  /\ state \in [Tasks -> States]
  /\ stack \in [Tasks -> 0..MaxTaskNum - 1]
  /\ heap \subseteq Tasks /\ alive \subseteq Tasks
  /\ exit_at \in [Tasks -> ExitPoints]
  /\ exit_prev \in [Tasks -> Tasks \union {NoTask}]
  /\ running \in Tasks \union {Os}
  /\ msip \in BOOLEAN /\ booting \in BOOLEAN
  /\ fault \in {"none", "null", "cycle", "freed"}
  /\ leaked \in Nat /\ stale \in BOOLEAN

\* The queue is ordered by priority whatever was inserted, aged and removed:
\* pop_task takes the first task it may run for the best one.
QueueSorted ==
  \A i, j \in 1..Len(first_task) :
    i < j => priority[first_task[i]] <= priority[first_task[j]]

\* The queue holds a task once at most, and, as long as no unlink was stale, only
\* tasks that have not exited: then pop_task never returns freed memory. A stale
\* unlink may leave its own task in the queue, to be freed there.
QueueSound ==
  /\ \A i, j \in 1..Len(first_task) :
       first_task[i] = first_task[j] => i = j
  /\ ~stale => ToSet(first_task) \subseteq alive
  /\ alive \subseteq heap

\* As long as no unlink was stale, _tasks_num is the length of the queue, but for
\* a task between its unlinking and its decrement, and for every task that a
\* timer interrupt took off the hart there: those are counted for ever.
CounterDrift ==
  ~stale =>
    tasks_num = Len(first_task) + leaked + (IF Uncounted THEN 1 ELSE 0)

\* As long as no unlink was stale, there is one way to lose a live task from the
\* queue: a leaked count makes insert_task refuse the last task that pop_task
\* has just unlinked.
LostOnlyAfterDrift ==
  ~stale /\ alive # ToSet(first_task) =>
    first_task = <<>> /\ leaked > 0 /\ \E t \in Tasks : alive = {t}

\* While a task has the hart cur_task is that task, and until its own free it
\* is a live one: task_delay and task_exit act on the caller and a trap saves
\* registers into a struct that nobody else may get from malloc.
RunningIsCurrent ==
  running \in Tasks =>
    /\ cur_task = running
    /\ running \in heap \/ At({"freed", "counted"})
    /\ running \in alive \/ At({"unlinked", "freed", "counted"})

\* Each task has a stack of its own (sched.h:73), though the index of its stack
\* is read from a counter: the tasks are all created before one can exit.
StacksDistinct ==
  \A t, u \in alive : t # u => stack[t] # stack[u]

\* schedule has just given the hart to a task.
Switched == msip /\ ~msip' /\ running' \in Tasks

\* schedule never gives the hart to a sleeping task, nor to one of lower
\* priority than a task that could run.
PicksHighest ==
  [][Switched =>
       /\ state[running'] # "SLEEPING"
       /\ \A u \in ToSet(first_task) :
            state[u] = "SLEEPING" \/ priority[running'] <= priority[u]]_schedVars

\* The chosen task goes behind every task of equal or higher priority, and the
\* others keep their order: tasks of equal priority take turns.
TurnsRotate ==
  [][Switched =>
       /\ \A i, j \in 1..Len(first_task') :
            /\ first_task'[i] = running'
            /\ priority'[first_task'[j]] <= priority'[running']
            => j <= i
       /\ RemoveFirst(first_task, running') = RemoveFirst(first_task', running')
    ]_schedVars

\* A task that is ready is given the hart sooner or later, or put to sleep:
\* pop_task lowers the priority of whatever it picks.
StarvationFree ==
  \A t \in Tasks :
    (t \in alive /\ state[t] # "SLEEPING") ~>
      (running = t \/ state[t] = "SLEEPING")

\* sched.c:158: the neighbours of cur_task are found and linked to each other.
\* Not so when a timer interrupt changes the queue between the two.
UnlinkLinksNeighbours == ~stale

=============================================================================
