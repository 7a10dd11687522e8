---------------------------- MODULE SchedProofs ----------------------------
(***************************************************************************)
(* The safety properties of Sched for any number of tasks, stacks and      *)
(* priorities.  None of them is inductive alone: the queue stays complete  *)
(* only because the count drifts in one direction, the count is exact only *)
(* because the points of task_exit at which a task leaves the hart are     *)
(* known, and those because cur_task is the running task.  Inv is their    *)
(* conjunction with the phases of task_exit.  A stale unlink of task_exit  *)
(* ends what is said of the members of the queue and of the count, but not *)
(* the order of the queue nor the identity of the task that runs.  That    *)
(* stacks are distinct needs more, the count at each creation; that tasks  *)
(* take turns needs what a whole call of schedule does to the order of the *)
(* queue.                                                                  *)
(***************************************************************************)
EXTENDS Sched, ListLemmas

PastUnlink == {"unlinked", "freed", "counted"}

\* A task past its unlinking is dead, and it asks for the software interrupt
\* after its decrement. Only a stale unlink leaves such a task in the queue and
\* lets it be more than the task on the hart.
ExitPhases ==
  /\ \A t \in Tasks : exit_at[t] \in PastUnlink => t \notin alive
  /\ ~stale => \A t \in Tasks : exit_at[t] \in PastUnlink => running = t
  /\ \A t \in ToSet(first_task) : t \in alive \/ exit_at[t] \in PastUnlink
  /\ msip => ~At({"found", "unlinked", "freed"})
  /\ booting => running = Os /\ ~msip /\ ~stale

Inv ==
  /\ TypeOK /\ QueueSorted /\ QueueSound /\ CounterDrift
  /\ LostOnlyAfterDrift /\ RunningIsCurrent /\ ExitPhases

-----------------------------------------------------------------------------
(***************************************************************************)
(* The queue operations.                                                   *)
(***************************************************************************)

Sorted(q, prio) ==
  \A i, j \in 1..Len(q) : i < j => prio[q[i]] <= prio[q[j]]

\* The walk of insert_task stops between the tasks that are at least as urgent
\* and the first one that is less urgent.
LEMMA InsertPosProperties ==
  ASSUME NEW q \in Seq(Tasks), NEW prio \in [Tasks -> Int], NEW p \in Int
  PROVE  LET k == InsertPos(q, prio, p) IN
         /\ k \in 1..Len(q) + 1
         /\ \A i \in 1..Len(q) : i < k => prio[q[i]] <= p
         /\ k <= Len(q) => prio[q[k]] > p
<1> DEFINE S == {k \in 1..Len(q) + 1 : k = Len(q) + 1 \/ prio[q[k]] > p}
<1>1. Len(q) \in Nat /\ \A i \in 1..Len(q) : q[i] \in Tasks
  BY LenProperties, ElementOfSeq
<1>2. S \in SUBSET Nat /\ Len(q) + 1 \in S
  BY <1>1
<1>3. Min(S) \in S /\ \A x \in S : Min(S) <= x
  BY <1>2, MinProperties
<1>4. ASSUME NEW i \in 1..Len(q), i < Min(S)
      PROVE  prio[q[i]] <= p
  <2>1. i \notin S
    BY <1>1, <1>3, <1>4
  <2> QED
    BY <1>1, <2>1
<1> QED
  BY <1>1, <1>3, <1>4 DEF InsertPos

\* Inserting at that position keeps the order.
LEMMA InsertSorted ==
  ASSUME NEW q \in Seq(Tasks), NEW prio \in [Tasks -> Int], NEW t \in Tasks,
         Sorted(q, prio)
  PROVE  Sorted(InsertAt(q, InsertPos(q, prio, prio[t]), t), prio)
<1> DEFINE k == InsertPos(q, prio, prio[t])
           r == InsertAt(q, k, t)
<1>1. /\ k \in 1..Len(q) + 1
      /\ \A i \in 1..Len(q) : i < k => prio[q[i]] <= prio[t]
      /\ k <= Len(q) => prio[q[k]] > prio[t]
  BY InsertPosProperties
<1> HIDE DEF k
<1>2. /\ Len(r) = Len(q) + 1
      /\ \A i \in 1..Len(q) + 1 :
           r[i] = IF i < k THEN q[i] ELSE IF i = k THEN t ELSE q[i - 1]
  BY <1>1, InsertAtProperties
<1>3. Len(q) \in Nat /\ \A i \in 1..Len(q) : q[i] \in Tasks /\ prio[q[i]] \in Int
  BY LenProperties, ElementOfSeq
<1>4. \A i \in 1..Len(q) : k <= i => prio[q[i]] > prio[t]
  <2> SUFFICES ASSUME NEW i \in 1..Len(q), k <= i
               PROVE  prio[q[i]] > prio[t]
    OBVIOUS
  <2>1. k \in 1..Len(q) /\ prio[q[k]] > prio[t]
    BY <1>1, <1>3
  <2>2. prio[q[k]] <= prio[q[i]]
    BY <1>1, <1>3, <2>1 DEF Sorted
  <2> QED
    BY <1>3, <2>1, <2>2
<1> HIDE DEF r
<1>5. Sorted(r, prio)
  <2> SUFFICES ASSUME NEW i \in 1..Len(q) + 1, NEW j \in 1..Len(q) + 1, i < j
               PROVE  prio[r[i]] <= prio[r[j]]
    BY <1>2 DEF Sorted
  <2>1. CASE j < k
    <3>1. i \in 1..Len(q) /\ j \in 1..Len(q) /\ r[i] = q[i] /\ r[j] = q[j]
      BY <1>1, <1>2, <1>3, <2>1
    <3> QED
      BY <3>1 DEF Sorted
  <2>2. CASE j = k
    <3>1. i \in 1..Len(q) /\ i < k /\ r[i] = q[i] /\ r[j] = t
      BY <1>1, <1>2, <1>3, <2>2
    <3> QED
      BY <1>1, <3>1
  <2>3. CASE j > k
    <3>1. j - 1 \in 1..Len(q) /\ k <= j - 1 /\ r[j] = q[j - 1]
      BY <1>1, <1>2, <1>3, <2>3
    <3>2. CASE i < k
      <4>1. i \in 1..Len(q) /\ i < j - 1 /\ r[i] = q[i]
        BY <1>1, <1>2, <1>3, <2>3, <3>2
      <4> QED
        BY <3>1, <4>1 DEF Sorted
    <3>3. CASE i = k
      <4>1. r[i] = t /\ prio[q[j - 1]] > prio[t]
        BY <1>1, <1>2, <1>4, <3>1, <3>3
      <4> QED
        BY <1>3, <3>1, <4>1
    <3>4. CASE i > k
      <4>1. i - 1 \in 1..Len(q) /\ i - 1 < j - 1 /\ r[i] = q[i - 1]
        BY <1>1, <1>2, <1>3, <3>4
      <4> QED
        BY <3>1, <4>1 DEF Sorted
    <3> QED
      BY <1>1, <3>2, <3>3, <3>4
  <2> QED
    BY <1>1, <2>1, <2>2, <2>3
<1> QED
  BY <1>5 DEF k, r

\* Unlinking keeps the order.
LEMMA RemoveSorted ==
  ASSUME NEW q \in Seq(Tasks), NEW prio, NEW k \in 1..Len(q), Sorted(q, prio)
  PROVE  Sorted(RemoveAt(q, k), prio)
<1> DEFINE r == RemoveAt(q, k)
<1>1. /\ Len(q) \in Nat /\ Len(r) = Len(q) - 1
      /\ \A i \in 1..Len(q) - 1 : r[i] = IF i < k THEN q[i] ELSE q[i + 1]
  BY LenProperties, RemoveAtProperties
<1> HIDE DEF r
<1>2. Sorted(r, prio)
  <2> SUFFICES ASSUME NEW i \in 1..Len(q) - 1, NEW j \in 1..Len(q) - 1, i < j
               PROVE  prio[r[i]] <= prio[r[j]]
    BY <1>1 DEF Sorted
  <2>1. PICK m \in 1..Len(q) : r[i] = q[m] /\ m = (IF i < k THEN i ELSE i + 1)
    BY <1>1
  <2>2. PICK n \in 1..Len(q) : r[j] = q[n] /\ n = (IF j < k THEN j ELSE j + 1)
    BY <1>1
  <2>3. m < n
    BY <1>1, <2>1, <2>2
  <2> QED
    BY <2>1, <2>2, <2>3 DEF Sorted
<1> QED
  BY <1>2 DEF r

\* The error case of insert_task.
Refuses(q, num) == q = <<>> /\ num # 0

\* insert_task either refuses the task, when a list that should not be empty
\* is, or queues it and counts it.
LEMMA InsertTaskProperties ==
  ASSUME NEW q \in Seq(Tasks), NEW num \in Int, NEW prio \in [Tasks -> Int],
         NEW t \in Tasks, Sorted(q, prio), Distinct(q), t \notin ToSet(q),
         NEW r, r = InsertTask(q, num, prio, t)
  PROVE  /\ r.queue \in Seq(Tasks)
         /\ Sorted(r.queue, prio)
         /\ Distinct(r.queue)
         /\ Refuses(q, num) => r.queue = q /\ r.num = num
         /\ ~Refuses(q, num) =>
              /\ Len(r.queue) = Len(q) + 1
              /\ ToSet(r.queue) = ToSet(q) \union {t}
              /\ r.num = num + 1
<1>1. CASE Refuses(q, num)
  BY <1>1 DEF InsertTask, Refuses
<1>2. CASE ~Refuses(q, num)
  <2> DEFINE k == InsertPos(q, prio, prio[t])
             s == InsertAt(q, k, t)
  <2>1. k \in 1..Len(q) + 1
    BY InsertPosProperties
  <2>2. Sorted(s, prio)
    BY InsertSorted
  <2> HIDE DEF k
  <2>3. s \in Seq(Tasks) /\ Len(s) = Len(q) + 1
    BY <2>1, InsertAtProperties
  <2>4. ToSet(s) = ToSet(q) \union {t} /\ Distinct(s)
    BY <2>1, InsertAtMembers
  <2> HIDE DEF s
  <2>5. r = [queue |-> s, num |-> num + 1]
    BY <1>2 DEF InsertTask, Refuses, s, k
  <2>6. r.queue = s /\ r.num = num + 1
    BY <2>5
  <2> QED
    BY <1>2, <2>2, <2>3, <2>4, <2>6
<1> QED
  BY <1>1, <1>2

\* What schedule's loop finds: a position of the queue.
LEMMA Next2RunProperties ==
  ASSUME first_task \in Seq(Tasks), Ready # {}
  PROVE  /\ Next2Run \in 1..Len(first_task)
         /\ Next2Run \in Ready
         /\ \A k \in Ready : Next2Run <= k
<1>1. Len(first_task) \in Nat
  BY LenProperties
<1>2. Ready \in SUBSET Nat
  BY <1>1 DEF Ready
<1>3. Next2Run \in Ready /\ \A k \in Ready : Next2Run <= k
  BY <1>2, MinProperties DEF Next2Run
<1> QED
  BY <1>3 DEF Ready

\* pop_task followed by its insert_task: the queue keeps its members and its
\* order, or it loses its only task because the count says it was not alone.
LEMMA PopTaskProperties ==
  ASSUME TypeOK, QueueSorted, QueueSound, Ready # {},
         NEW t \in Tasks, t = first_task[Next2Run],
         NEW prio \in [Tasks -> Int],
         \A u \in Tasks \ {t} : prio[u] = priority[u],
         NEW r, r = PopTask(prio)
  PROVE  /\ r.queue \in Seq(Tasks)
         /\ Sorted(r.queue, prio) /\ Distinct(r.queue)
         /\ Len(first_task) = 1 /\ tasks_num # 1 =>
              r.queue = <<>> /\ r.num = tasks_num - 1
         /\ ~(Len(first_task) = 1 /\ tasks_num # 1) =>
              /\ Len(r.queue) = Len(first_task)
              /\ ToSet(r.queue) = ToSet(first_task)
              /\ r.num = tasks_num
<1> DEFINE k == Next2Run
           q == RemoveAt(first_task, k)
<1>1. first_task \in Seq(Tasks) /\ tasks_num \in Int /\ priority \in [Tasks -> Int]
  BY SchedAssumption DEF TypeOK
<1>2. k \in 1..Len(first_task) /\ first_task[k] = t /\ Len(first_task) \in Nat
  BY <1>1, Next2RunProperties, LenProperties
<1>3. Distinct(first_task) /\ Sorted(first_task, priority)
  BY DEF QueueSound, Distinct, QueueSorted, Sorted
<1> HIDE DEF k
<1>4. /\ q \in Seq(Tasks) /\ Len(q) = Len(first_task) - 1
      /\ ToSet(q) = ToSet(first_task) \ {t} /\ Distinct(q)
      /\ Sorted(q, priority)
  <2>1. q \in Seq(Tasks) /\ Len(q) = Len(first_task) - 1
    BY <1>1, <1>2, RemoveAtProperties
  <2>2. ToSet(q) = ToSet(first_task) \ {t} /\ Distinct(q)
    BY <1>1, <1>2, <1>3, RemoveAtMembers
  <2>3. Sorted(q, priority)
    BY <1>1, <1>2, <1>3, RemoveSorted
  <2> QED
    BY <2>1, <2>2, <2>3
<1> HIDE DEF q
<1>5. Sorted(q, prio)
  <2>1. \A i \in 1..Len(q) : q[i] \in Tasks \ {t}
    <3>1. ToSet(q) = {q[i] : i \in 1..Len(q)} /\ ToSet(q) \subseteq Tasks
      BY <1>4, ToSetElements
    <3> QED
      BY <1>4, <3>1
  <2> QED
    BY <1>4, <2>1 DEF Sorted
<1>6. t \in ToSet(first_task)
  BY <1>1, <1>2, ToSetElements
<1>7. Refuses(q, tasks_num - 1) <=> (Len(first_task) = 1 /\ tasks_num # 1)
  <2>1. (q = <<>>) <=> (Len(first_task) = 1)
    BY <1>2, <1>4, EmptySeq
  <2> QED
    BY <1>1, <2>1 DEF Refuses
<1>8. r = InsertTask(q, tasks_num - 1, prio, t) /\ tasks_num - 1 \in Int
  BY <1>1, <1>2 DEF PopTask, Unlinked, q, k
<1>9. /\ r.queue \in Seq(Tasks)
      /\ Sorted(r.queue, prio) /\ Distinct(r.queue)
      /\ Refuses(q, tasks_num - 1) => r.queue = q /\ r.num = tasks_num - 1
      /\ ~Refuses(q, tasks_num - 1) =>
           /\ Len(r.queue) = Len(q) + 1
           /\ ToSet(r.queue) = ToSet(q) \union {t}
           /\ r.num = (tasks_num - 1) + 1
  <2>1. t \notin ToSet(q)
    BY <1>4
  <2> QED
    BY <1>4, <1>5, <1>8, <2>1, InsertTaskProperties
<1>10. CASE Len(first_task) = 1 /\ tasks_num # 1
  <2>1. Refuses(q, tasks_num - 1) /\ q = <<>>
    BY <1>7, <1>10 DEF Refuses
  <2> QED
    BY <1>9, <1>10, <2>1
<1>11. CASE ~(Len(first_task) = 1 /\ tasks_num # 1)
  <2>1. ~Refuses(q, tasks_num - 1)
    BY <1>7, <1>11
  <2>2. ToSet(q) \union {t} = ToSet(first_task) /\ Len(q) + 1 = Len(first_task)
    BY <1>2, <1>4, <1>6
  <2>3. /\ Len(r.queue) = Len(q) + 1
        /\ ToSet(r.queue) = ToSet(q) \union {t}
        /\ r.num = (tasks_num - 1) + 1
    BY <1>9, <2>1
  <2>4. (tasks_num - 1) + 1 = tasks_num
    BY <1>1
  <2> QED
    BY <1>9, <1>11, <2>2, <2>3, <2>4
<1> QED
  BY <1>10, <1>11

-----------------------------------------------------------------------------
(***************************************************************************)
(* Inv is inductive, action by action.                                     *)
(***************************************************************************)

LEMMA InitInv == Init => Inv
<1> SUFFICES ASSUME Init PROVE Inv
  OBVIOUS
<1> USE SchedAssumption DEF Init
<1>1. first_task \in Seq(Tasks) /\ Len(first_task) = 0 /\ ToSet(first_task) = {}
  BY EmptySeq, ToSetElements
<1>2. TypeOK
  <2>1. tasks_num \in Int /\ tasks_num <= MaxTaskNum /\ 0 \in 0..MaxTaskNum - 1
    OBVIOUS
  <2>2. /\ priority \in [Tasks -> Int] /\ state \in [Tasks -> States]
        /\ stack \in [Tasks -> 0..MaxTaskNum - 1]
    BY <2>1 DEF States
  <2>3. exit_at \in [Tasks -> ExitPoints]
    BY DEF ExitPoints
  <2>4. exit_prev \in [Tasks -> Tasks \union {NoTask}]
    OBVIOUS
  <2>5. leaked \in Nat /\ heap \subseteq Tasks /\ alive \subseteq Tasks
    OBVIOUS
  <2>6. /\ cur_task \in Tasks \union {NoTask} /\ running \in Tasks \union {Os}
        /\ msip \in BOOLEAN /\ booting \in BOOLEAN /\ stale \in BOOLEAN
        /\ fault \in {"none", "null", "cycle", "freed"}
    OBVIOUS
  <2> QED
    BY <1>1, <2>1, <2>2, <2>3, <2>4, <2>5, <2>6 DEF TypeOK
<1>3. QueueSorted /\ QueueSound
  BY <1>1 DEF QueueSorted, QueueSound
<1>4. CounterDrift
  BY <1>1 DEF CounterDrift, Uncounted, At
<1>5. LostOnlyAfterDrift
  BY <1>1 DEF LostOnlyAfterDrift
<1>6. RunningIsCurrent /\ ExitPhases
  BY <1>1 DEF RunningIsCurrent, ExitPhases, At, PastUnlink
<1> QED
  BY <1>2, <1>3, <1>4, <1>5, <1>6 DEF Inv

\* The parts of Inv that speak of the queue survive whatever leaves its members,
\* its order and the count in place.
LEMMA TaskCreateInv ==
  ASSUME Inv, NEW t \in Tasks, NEW p \in Priorities, NEW s \in StaleStates,
         TaskCreate(t, p, s)
  PROVE  Inv'
<1>0. /\ booting /\ ~stale /\ running = Os
      /\ ~Uncounted /\ tasks_num = Len(first_task) + leaked
  <2>1. booting /\ ~stale /\ running = Os
    BY DEF Inv, TaskCreate, ExitPhases
  <2>2. ~Uncounted
    BY <2>1, SchedAssumption DEF Uncounted, At
  <2>3. leaked \in Nat /\ Len(first_task) \in Nat
    BY LenProperties DEF Inv, TypeOK
  <2> QED
    BY <2>1, <2>2, <2>3 DEF Inv, CounterDrift
<1>1. /\ first_task \in Seq(Tasks) /\ tasks_num \in 0..MaxTaskNum - 1
      /\ priority' \in [Tasks -> Int] /\ Len(first_task) \in Nat
      /\ priority' = [priority EXCEPT ![t] = p]
  <2>1. first_task \in Seq(Tasks) /\ Len(first_task) \in Nat /\ leaked \in Nat
    BY LenProperties DEF Inv, TypeOK
  <2>2. tasks_num \in Nat /\ tasks_num < MaxTaskNum
    BY <1>0, <2>1 DEF TaskCreate, HasRoom
  <2> QED
    BY <2>1, <2>2, SchedAssumption DEF Inv, TypeOK, TaskCreate
<1>2. t \notin alive /\ t \notin ToSet(first_task) /\ Distinct(first_task)
  BY <1>0 DEF Inv, TaskCreate, QueueSound, Distinct
<1>3. Sorted(first_task, priority')
  <2>1. \A i \in 1..Len(first_task) : first_task[i] \in Tasks \ {t}
    BY <1>1, <1>2, ElementOfSeq, ToSetElements
  <2>2. \A i \in 1..Len(first_task) :
          priority'[first_task[i]] = priority[first_task[i]]
    BY <1>1, <2>1 DEF Inv, TypeOK
  <2> QED
    BY <2>2 DEF Inv, Sorted, QueueSorted
<1>4. ~Refuses(first_task, tasks_num)
  BY DEF TaskCreate, Refuses
<1> DEFINE r == InsertTask(first_task, tasks_num, priority', t)
<1> HIDE DEF r
<1>5. /\ r.queue \in Seq(Tasks) /\ Sorted(r.queue, priority') /\ Distinct(r.queue)
      /\ Len(r.queue) = Len(first_task) + 1
      /\ ToSet(r.queue) = ToSet(first_task) \union {t}
      /\ r.num = tasks_num + 1
  <2>1. /\ r = InsertTask(first_task, tasks_num, priority', t)
        /\ first_task \in Seq(Tasks) /\ tasks_num \in Int
        /\ priority' \in [Tasks -> Int]
    BY <1>1 DEF r
  <2>2. /\ r.queue \in Seq(Tasks) /\ Sorted(r.queue, priority') /\ Distinct(r.queue)
    BY <1>2, <1>3, <2>1, InsertTaskProperties
  <2>3. ~Refuses(first_task, tasks_num) =>
           /\ Len(r.queue) = Len(first_task) + 1
           /\ ToSet(r.queue) = ToSet(first_task) \union {t}
           /\ r.num = tasks_num + 1
    BY <1>2, <1>3, <2>1, InsertTaskProperties
  <2> QED
    BY <1>4, <2>2, <2>3
<1> USE SchedAssumption DEF Inv
<1>6. first_task' = r.queue /\ tasks_num' = r.num
  BY DEF TaskCreate, r
<1>7. ~At(ExitPoints \ {"none"}) /\ UNCHANGED <<cur_task, exitVars, hartVars, leaked>>
  BY DEF TaskCreate, OutsideExit, At
<1>8. TypeOK'
  <2>1. tasks_num' \in Int /\ tasks_num' <= MaxTaskNum
    BY <1>1, <1>5, <1>6, SchedAssumption
  <2>2. /\ state' \in [Tasks -> States]
        /\ stack' \in [Tasks -> 0..MaxTaskNum - 1]
        /\ heap' \subseteq Tasks /\ alive' \subseteq Tasks
    BY <1>1 DEF TypeOK, TaskCreate
  <2> QED
    BY <1>1, <1>5, <1>6, <1>7, <2>1, <2>2 DEF TypeOK, exitVars, hartVars
<1>9. QueueSorted'
  BY <1>5, <1>6 DEF QueueSorted, Sorted
<1>10. QueueSound'
  BY <1>0, <1>5, <1>6 DEF QueueSound, Distinct, TaskCreate
<1>11. CounterDrift'
  <2>1. ~Uncounted /\ ~Uncounted' /\ ~stale
    BY <1>0, <1>7 DEF Uncounted, At, ExitPoints, exitVars, hartVars
  <2>2. Len(first_task') = Len(first_task) + 1 /\ tasks_num' = tasks_num + 1
    BY <1>5, <1>6
  <2>3. leaked' = leaked /\ leaked \in Nat /\ tasks_num = Len(first_task) + leaked
    BY <1>7, <2>1 DEF TypeOK, CounterDrift
  <2> QED
    BY <1>1, <2>1, <2>2, <2>3 DEF CounterDrift
<1>12. alive = ToSet(first_task)
  <2>1. SUFFICES ASSUME alive # ToSet(first_task) PROVE FALSE
    OBVIOUS
  <2>2. first_task = <<>> /\ leaked > 0
    BY <1>0, <2>1 DEF LostOnlyAfterDrift
  <2>3. tasks_num = 0 /\ Len(first_task) = 0
    BY <1>4, <2>2 DEF Refuses
  <2> QED
    BY <1>0, <2>2, <2>3 DEF TypeOK
<1>13. LostOnlyAfterDrift'
  BY <1>5, <1>6, <1>12 DEF LostOnlyAfterDrift, TaskCreate
<1>14. RunningIsCurrent'
  BY <1>7 DEF RunningIsCurrent, TaskCreate, At, exitVars, hartVars
<1>15. ExitPhases'
  <2>1. /\ exit_at' = exit_at /\ stale' = stale /\ running' = running
        /\ msip' = msip /\ booting' = booting /\ alive' = alive \union {t}
    BY <1>7 DEF TaskCreate, exitVars, hartVars
  <2>2. \A u \in Tasks : exit_at[u] \notin PastUnlink
    BY <1>0 DEF ExitPhases
  <2>3. ToSet(first_task') \subseteq alive'
    BY <1>5, <1>6, <1>12, <2>1
  <2> QED
    BY <1>0, <2>1, <2>2, <2>3 DEF ExitPhases, At
<1> QED
  BY <1>8, <1>9, <1>10, <1>11, <1>13, <1>14, <1>15

\* The steps that only raise the software interrupt.
LEMMA RaiseInv ==
  ASSUME Inv, KernelYield \/ TaskYield \/ ExitYield
  PROVE  Inv'
<1> USE SchedAssumption DEF Inv
<1>1. /\ UNCHANGED <<queueVars, cur_task, memVars, exitVars, running, fault,
                     alive, leaked>>
      /\ msip' \in BOOLEAN /\ booting' \in BOOLEAN
  BY DEF KernelYield, TaskYield, ExitYield, TypeOK
<1>2. ~At({"found", "unlinked", "freed"})
  BY DEF KernelYield, TaskYield, ExitYield, OutsideExit, Exiting, At, ExitPoints
<1>3. TypeOK'
  BY <1>1 DEF TypeOK, queueVars, memVars, exitVars
<1>4. QueueSorted' /\ QueueSound' /\ LostOnlyAfterDrift'
  BY <1>1 DEF QueueSorted, QueueSound, LostOnlyAfterDrift, queueVars, memVars, exitVars
<1>5. CounterDrift' /\ RunningIsCurrent'
  BY <1>1 DEF CounterDrift, RunningIsCurrent, Uncounted, At, queueVars, memVars, exitVars
<1>6. ExitPhases'
  <2>1. /\ first_task' = first_task /\ exit_at' = exit_at /\ stale' = stale
        /\ running' = running /\ alive' = alive
    BY <1>1 DEF exitVars, queueVars
  <2>2. ~booting'
    BY DEF KernelYield, TaskYield, ExitYield, Exiting, ExitPhases
  <2> QED
    BY <1>2, <2>1, <2>2 DEF ExitPhases, At
<1> QED
  BY <1>3, <1>4, <1>5, <1>6

\* task_delay marks the caller, nothing else.
LEMMA SleepInv ==
  ASSUME Inv, Sleep
  PROVE  Inv'
<1> USE SchedAssumption DEF Inv
<1>1. /\ UNCHANGED <<queueVars, cur_task, priority, stack, heap, exitVars,
                     running, booting, fault, alive, leaked>>
      /\ state' \in [Tasks -> States] /\ msip' = TRUE
  BY DEF Sleep, TypeOK, States
<1>2. ~At({"found", "unlinked", "freed"})
  BY DEF Sleep, OutsideExit, At, ExitPoints
<1>3. TypeOK'
  BY <1>1 DEF TypeOK, queueVars, exitVars
<1>4. QueueSorted' /\ QueueSound' /\ LostOnlyAfterDrift'
  BY <1>1 DEF QueueSorted, QueueSound, LostOnlyAfterDrift, queueVars, exitVars
<1>5. CounterDrift' /\ RunningIsCurrent'
  BY <1>1 DEF CounterDrift, RunningIsCurrent, Uncounted, At, queueVars, exitVars
<1>6. ExitPhases'
  <2>1. ~booting'
    BY <1>1 DEF Sleep, ExitPhases
  <2> QED
    BY <1>1, <1>2, <2>1 DEF ExitPhases, At, exitVars, queueVars
<1> QED
  BY <1>3, <1>4, <1>5, <1>6

\* A task that leaves the hart keeps its place in task_exit while it is in the
\* queue; it is out of the queue past its unlinking, as long as none was stale.
LEMMA LeaveHartProperties ==
  ASSUME TypeOK, QueueSound, ExitPhases, LeaveHart
  PROVE  /\ exit_at' \in [Tasks -> ExitPoints]
         /\ \A t \in Tasks : exit_at'[t] \in PastUnlink => exit_at[t] \in PastUnlink
         /\ \A t \in ToSet(first_task) : exit_at'[t] = exit_at[t]
         /\ ~stale => \A t \in Tasks : exit_at'[t] \notin PastUnlink
<1>1. CASE Unreachable
  <2>1. running \in Tasks /\ running \notin ToSet(first_task)
    BY <1>1 DEF Unreachable, At
  <2>2. exit_at' = [exit_at EXCEPT ![running] = "none"]
    BY <1>1 DEF LeaveHart
  <2> QED
    BY <2>1, <2>2, ToSetElements DEF TypeOK, ExitPhases, ExitPoints, PastUnlink
<1>2. CASE ~Unreachable
  <2>1. exit_at' = exit_at
    BY <1>2 DEF LeaveHart
  <2>2. ASSUME ~stale, NEW t \in Tasks PROVE exit_at[t] \notin PastUnlink
    BY <1>2, <2>2 DEF Unreachable, At, PastUnlink, ExitPhases, QueueSound
  <2> QED
    BY <2>1, <2>2 DEF TypeOK
<1> QED
  BY <1>1, <1>2

\* schedule without a task: the queue is as it was.
LEMMA ScheduleOsInv ==
  ASSUME Inv, ScheduleOs
  PROVE  Inv'
<1> USE SchedAssumption DEF Inv
<1>1. /\ UNCHANGED <<queueVars, memVars, exit_prev, stale, booting, fault, alive,
                     leaked>>
      /\ msip /\ msip' = FALSE /\ running' = Os
      /\ cur_task' \in Tasks \union {NoTask}
  BY DEF ScheduleOs, TypeOK
<1>2. /\ exit_at' \in [Tasks -> ExitPoints]
      /\ \A t \in Tasks : exit_at'[t] \in PastUnlink => exit_at[t] \in PastUnlink
      /\ \A t \in ToSet(first_task) : exit_at'[t] = exit_at[t]
      /\ ~stale => \A t \in Tasks : exit_at'[t] \notin PastUnlink
  BY LeaveHartProperties DEF ScheduleOs
<1>3. TypeOK'
  BY <1>1, <1>2 DEF TypeOK, queueVars, memVars
<1>4. QueueSorted' /\ QueueSound' /\ LostOnlyAfterDrift'
  BY <1>1 DEF QueueSorted, QueueSound, LostOnlyAfterDrift, queueVars, memVars
<1>5. CounterDrift'
  <2>1. ~Uncounted /\ ~Uncounted'
    BY <1>1 DEF ExitPhases, Uncounted, At
  <2> QED
    BY <1>1, <2>1 DEF CounterDrift, queueVars
<1>6. RunningIsCurrent' /\ ExitPhases'
  BY <1>1, <1>2 DEF RunningIsCurrent, ExitPhases, queueVars
<1> QED
  BY <1>3, <1>4, <1>5, <1>6

\* schedule stops at freed memory.
LEMMA ScheduleFreedInv ==
  ASSUME Inv, ScheduleFreed
  PROVE  Inv'
<1> USE SchedAssumption DEF Inv
<1>1. /\ UNCHANGED <<queueVars, cur_task, memVars, exitVars, running, msip,
                     booting, alive, leaked>>
      /\ fault' = "freed"
  BY DEF ScheduleFreed
<1>2. TypeOK' /\ QueueSorted' /\ QueueSound'
  BY <1>1 DEF TypeOK, QueueSorted, QueueSound, queueVars, memVars, exitVars
<1>3. CounterDrift' /\ LostOnlyAfterDrift'
  BY <1>1 DEF CounterDrift, LostOnlyAfterDrift, Uncounted, At, queueVars, exitVars
<1>4. RunningIsCurrent' /\ ExitPhases'
  BY <1>1 DEF RunningIsCurrent, ExitPhases, At, queueVars, memVars, exitVars
<1> QED
  BY <1>2, <1>3, <1>4

\* schedule with a task: it is queued again, unless it was alone and the count
\* says otherwise; that count is a leaked one.
LEMMA ScheduleTaskInv ==
  ASSUME Inv, ScheduleTask
  PROVE  Inv'
<1> USE SchedAssumption DEF Inv
<1> DEFINE t == first_task[Next2Run]
           r == PopTask(priority')
<1>1. /\ UNCHANGED <<state, stack, heap, exit_prev, stale, booting, fault, alive,
                     leaked>>
      /\ msip /\ msip' = FALSE /\ cur_task' = t /\ running' = t
      /\ tasks_num > 0 /\ Ready # {} /\ PopReads \subseteq heap
      /\ priority' = [priority EXCEPT ![t] = Aged(priority[t])]
      /\ first_task' = r.queue /\ tasks_num' = r.num
  BY DEF ScheduleTask
<1>2. /\ first_task \in Seq(Tasks) /\ Len(first_task) \in Nat
      /\ priority \in [Tasks -> Int] /\ tasks_num \in Int
      /\ tasks_num <= MaxTaskNum /\ MaxTaskNum \in Nat /\ leaked \in Nat
  BY LenProperties DEF TypeOK
<1>3. Next2Run \in 1..Len(first_task)
  BY <1>1, <1>2, Next2RunProperties
<1>4. t \in Tasks /\ t \in ToSet(first_task)
  BY <1>2, <1>3, ElementOfSeq, ToSetElements
<1>5. first_task # <<>>
  BY <1>2, <1>3, EmptySeq
<1>6. ~stale => alive = ToSet(first_task)
  BY <1>5 DEF LostOnlyAfterDrift
<1>15. t \in heap
  BY <1>1, <1>3 DEF PopReads
<1>16. /\ exit_at' \in [Tasks -> ExitPoints]
       /\ \A u \in Tasks : exit_at'[u] \in PastUnlink => exit_at[u] \in PastUnlink
       /\ \A u \in ToSet(first_task) : exit_at'[u] = exit_at[u]
       /\ ~stale => \A u \in Tasks : exit_at'[u] \notin PastUnlink
  BY LeaveHartProperties DEF ScheduleTask
<1>7. priority' \in [Tasks -> Int] /\ \A u \in Tasks \ {t} : priority'[u] = priority[u]
  <2>1. priority[t] \in Int
    BY <1>2, <1>4
  <2>2. Aged(priority[t]) \in Int
    BY <2>1 DEF Aged
  <2> QED
    BY <1>1, <1>2, <1>4, <2>2
<1> HIDE DEF t, r
<1>8. /\ r.queue \in Seq(Tasks)
      /\ Sorted(r.queue, priority') /\ Distinct(r.queue)
      /\ Len(first_task) = 1 /\ tasks_num # 1 =>
           r.queue = <<>> /\ r.num = tasks_num - 1
      /\ ~(Len(first_task) = 1 /\ tasks_num # 1) =>
           /\ Len(r.queue) = Len(first_task)
           /\ ToSet(r.queue) = ToSet(first_task)
           /\ r.num = tasks_num
  <2>1. t = first_task[Next2Run] /\ r = PopTask(priority')
    BY DEF t, r
  <2> QED
    BY <1>1, <1>4, <1>7, <2>1, PopTaskProperties
<1>9. ASSUME ~stale
      PROVE  ~Uncounted /\ ~Uncounted' /\ tasks_num = Len(first_task) + leaked
  <2>1. ~Uncounted
    BY <1>1 DEF ExitPhases, Uncounted, At
  <2>2. ~Uncounted'
    BY <1>1, <1>4, <1>9, <1>16 DEF Uncounted, At, PastUnlink
  <2> QED
    BY <1>2, <1>9, <2>1, <2>2 DEF CounterDrift
<1>17. ToSet(first_task') \subseteq ToSet(first_task)
  BY <1>1, <1>8, EmptySeq, ToSetElements
<1>10. ASSUME ~stale
       PROVE  CounterDrift' /\ LostOnlyAfterDrift' /\ ToSet(first_task') \subseteq alive
  <2>1. CASE Len(first_task) = 1 /\ tasks_num # 1
    <3>1. r.queue = <<>> /\ r.num = tasks_num - 1
      BY <1>8, <2>1
    <3>2. first_task' = <<>> /\ Len(first_task') = 0 /\ ToSet(first_task') = {}
      BY <1>1, <3>1, EmptySeq, ToSetElements
    <3>3. tasks_num' = leaked' /\ leaked' > 0
      <4>1. tasks_num' = tasks_num - 1 /\ leaked' = leaked
        BY <1>1, <3>1
      <4>2. tasks_num \in Int /\ Len(first_task) = 1 /\ tasks_num # 1
        BY <1>2, <2>1
      <4>3. leaked \in Nat /\ tasks_num = 1 + leaked
        BY <1>2, <1>9, <1>10, <4>2
      <4> QED
        BY <4>1, <4>2, <4>3
    <3>4. alive' = {t}
      <4>1. ToSet(first_task) = {first_task[i] : i \in 1..1}
        BY <1>2, <2>1, ToSetElements
      <4> QED
        BY <1>1, <1>4, <1>6, <1>10, <4>1
    <3>5. LostOnlyAfterDrift'
      BY <1>4, <3>2, <3>3, <3>4 DEF LostOnlyAfterDrift
    <3>6. CounterDrift'
      <4>1. leaked' \in Nat
        BY <1>1, <1>2
      <4>2. \A m \in Nat : m = 0 + m + 0
        OBVIOUS
      <4>3. tasks_num' = Len(first_task') + leaked' + 0
        BY <3>2, <3>3, <4>1, <4>2
      <4> QED
        BY <1>9, <1>10, <4>3 DEF CounterDrift
    <3>7. ToSet(first_task') \subseteq alive
      BY <3>2
    <3> QED
      BY <3>5, <3>6, <3>7
  <2>2. CASE ~(Len(first_task) = 1 /\ tasks_num # 1)
    <3>1. /\ Len(first_task') = Len(first_task)
          /\ ToSet(first_task') = ToSet(first_task)
          /\ tasks_num' = tasks_num
      BY <1>1, <1>8, <2>2
    <3> QED
      BY <1>1, <1>2, <1>6, <1>10, <1>9, <1>10, <3>1 DEF CounterDrift, LostOnlyAfterDrift
  <2> QED
    BY <2>1, <2>2
<1>11. TypeOK'
  <2>1. tasks_num' \in Int /\ tasks_num' <= MaxTaskNum
    BY <1>1, <1>2, <1>8
  <2> QED
    BY <1>1, <1>4, <1>7, <1>8, <1>16, <2>1 DEF TypeOK
<1>12. QueueSorted' /\ QueueSound'
  BY <1>1, <1>8, <1>10 DEF QueueSorted, QueueSound, Sorted, Distinct
<1>13. RunningIsCurrent'
  <2>1. t \in alive \/ exit_at'[t] \in PastUnlink
    BY <1>4, <1>16 DEF ExitPhases
  <2> QED
    BY <1>1, <1>4, <1>15, <2>1 DEF RunningIsCurrent, At, PastUnlink
<1>14. ExitPhases'
  <2>1. \A u \in ToSet(first_task') : u \in alive' \/ exit_at'[u] \in PastUnlink
    BY <1>1, <1>16, <1>17 DEF ExitPhases
  <2>2. ~booting'
    BY <1>1 DEF ExitPhases
  <2> QED
    BY <1>1, <1>16, <2>1, <2>2 DEF ExitPhases
<1>18. CounterDrift' /\ LostOnlyAfterDrift'
  BY <1>1, <1>10 DEF CounterDrift, LostOnlyAfterDrift
<1> QED
  BY <1>11, <1>12, <1>13, <1>14, <1>18

\* Where a walk from first_task meets t.
LEMMA PositionOfProperties ==
  ASSUME first_task \in Seq(Tasks), NEW t
  PROVE  /\ PositionOf(t) \in 1..Len(first_task) + 1
         /\ PositionOf(t) \in 1..Len(first_task) => first_task[PositionOf(t)] = t
         /\ \A k \in 1..Len(first_task) :
              first_task[k] = t => PositionOf(t) \in 1..Len(first_task)
<1> DEFINE S == {k \in 1..Len(first_task) + 1 :
                   k = Len(first_task) + 1 \/ first_task[k] = t}
<1>1. Len(first_task) \in Nat
  BY LenProperties
<1>2. S \in SUBSET Nat /\ Len(first_task) + 1 \in S
  BY <1>1
<1>3. PositionOf(t) \in S /\ \A x \in S : PositionOf(t) <= x
  BY <1>2, MinProperties DEF PositionOf
<1>4. ASSUME NEW k \in 1..Len(first_task), first_task[k] = t
      PROVE  PositionOf(t) \in 1..Len(first_task)
  <2>1. k \in S
    BY <1>1, <1>4
  <2>2. PositionOf(t) <= k
    BY <1>3, <2>1
  <2> QED
    BY <1>1, <1>3, <2>2
<1>5. PositionOf(t) \in 1..Len(first_task) => first_task[PositionOf(t)] = t
  BY <1>1, <1>3
<1> QED
  BY <1>3, <1>4, <1>5

\* The search changes only what task_exit remembers.
LEMMA ExitFindInv ==
  ASSUME Inv, ExitFind
  PROVE  Inv'
<1> USE SchedAssumption DEF Inv
<1>1. /\ UNCHANGED <<queueVars, cur_task, memVars, running, msip, booting,
                     alive, leaked>>
      /\ ~msip /\ running \in Tasks /\ exit_at[running] = "none"
  BY DEF ExitFind, Exiting, CanStep
<1>2. /\ exit_at' \in [Tasks -> ExitPoints]
      /\ exit_prev' \in [Tasks -> Tasks \union {NoTask}]
      /\ fault' \in {"none", "null", "cycle", "freed"} /\ stale' = stale
      /\ \A u \in Tasks : u # running => exit_at'[u] = exit_at[u]
      /\ exit_at'[running] \in {"none", "found"}
  <2>1. CASE UNCHANGED exitVars
    <3>1. fault' \in {"none", "null", "cycle", "freed"}
      BY DEF ExitFind, TypeOK
    <3> QED
      BY <1>1, <2>1, <3>1 DEF TypeOK, exitVars
  <2>2. CASE ~UNCHANGED exitVars
    <3>1. /\ exit_at' = [exit_at EXCEPT ![running] = "found"]
          /\ exit_prev' = [exit_prev EXCEPT ![running] =
               IF FoundAt = 1 THEN NoTask ELSE first_task[FoundAt - 1]]
          /\ fault' = fault /\ stale' = stale
      BY <2>2 DEF ExitFind
    <3>2. FoundAt \in 1..Len(first_task) + 1 /\ Len(first_task) \in Nat
      BY PositionOfProperties, LenProperties DEF TypeOK, FoundAt
    <3>3. ASSUME FoundAt # 1 PROVE first_task[FoundAt - 1] \in Tasks
      <4>1. FoundAt - 1 \in 1..Len(first_task)
        BY <3>2, <3>3
      <4> QED
        BY <4>1, ElementOfSeq DEF TypeOK
    <3>4. exit_prev' \in [Tasks -> Tasks \union {NoTask}]
      BY <1>1, <3>1, <3>3 DEF TypeOK
    <3> QED
      BY <1>1, <3>1, <3>4 DEF TypeOK, ExitPoints
  <2> QED
    BY <2>1, <2>2
<1>3. TypeOK'
  BY <1>1, <1>2 DEF TypeOK, queueVars, memVars
<1>4. QueueSorted' /\ QueueSound' /\ LostOnlyAfterDrift'
  BY <1>1, <1>2 DEF QueueSorted, QueueSound, LostOnlyAfterDrift, queueVars, memVars
<1>5. CounterDrift'
  <2>1. ~Uncounted /\ ~Uncounted'
    BY <1>1, <1>2 DEF Uncounted, At
  <2> QED
    BY <1>1, <1>2, <2>1 DEF CounterDrift, queueVars
<1>6. RunningIsCurrent'
  BY <1>1 DEF RunningIsCurrent, At, memVars
<1>7. ExitPhases'
  <2>1. \A u \in Tasks : exit_at'[u] \in PastUnlink <=> exit_at[u] \in PastUnlink
    BY <1>1, <1>2 DEF PastUnlink
  <2>2. ToSet(first_task) \subseteq Tasks
    BY ToSetElements DEF TypeOK
  <2> QED
    BY <1>1, <1>2, <2>1, <2>2 DEF ExitPhases, queueVars
<1> QED
  BY <1>3, <1>4, <1>5, <1>6, <1>7

\* The store of task_exit, stale or not, leaves a part of the queue in order.
LEMMA SplicedProperties ==
  ASSUME TypeOK, QueueSorted, QueueSound, SchedAssumption,
         NEW prev \in Tasks \union {NoTask}, UnlinkFault(prev) = "none",
         NEW q, q = Spliced(prev)
  PROVE  /\ q \in Seq(Tasks) /\ ToSet(q) \subseteq ToSet(first_task)
         /\ Distinct(q) /\ Sorted(q, priority)
<1>1. /\ first_task \in Seq(Tasks) /\ Len(first_task) \in Nat
      /\ Distinct(first_task) /\ Sorted(first_task, priority)
  BY LenProperties DEF TypeOK, QueueSound, Distinct, QueueSorted, Sorted
<1>2. CASE prev = NoTask
  <2>1. first_task # <<>>
    BY <1>2 DEF UnlinkFault
  <2>2. 1 \in 1..Len(first_task)
    BY <1>1, <2>1, EmptySeq
  <2>3. q = RemoveAt(first_task, 1)
    BY <1>1, <1>2, SchedAssumption, ToSetElements DEF Spliced, Unlinked
  <2>4. q \in Seq(Tasks) /\ ToSet(q) \subseteq ToSet(first_task) /\ Distinct(q)
    BY <1>1, <2>2, <2>3, RemoveAtProperties, RemoveAtMembers
  <2>5. Sorted(q, priority)
    BY <1>1, <2>2, <2>3, RemoveSorted
  <2> QED
    BY <2>4, <2>5
<1>3. CASE prev # NoTask /\ prev \in ToSet(first_task)
  <2>0. PICK i, j : i = PositionOf(prev) /\ j = FoundAt
    OBVIOUS
  <2>1. i \in 1..Len(first_task)
    BY <1>1, <1>3, <2>0, PositionOfProperties, ToSetElements
  <2>2. j \in 1..Len(first_task) + 1
    BY <1>1, <2>0, PositionOfProperties DEF FoundAt
  <2>3. i \notin j..Len(first_task)
    BY <1>3, <2>0 DEF UnlinkFault
  <2>4. q = Splice(first_task, i, j)
    BY <1>3, <2>0 DEF Spliced, Splice
  <2>5. i \in 0..Len(first_task) /\ j \in i + 1..Len(first_task) + 1
    BY <1>1, <2>1, <2>2, <2>3
  <2>6. /\ q \in Seq(Tasks)
        /\ \A m \in 1..Len(q) :
             \E n \in 1..Len(first_task) :
               q[m] = first_task[n] /\ n = (IF m <= i THEN m ELSE m + (j - i))
    BY <1>1, <2>4, <2>5, SpliceProperties
  <2>7. /\ Len(q) \in Nat /\ ToSet(q) = {q[m] : m \in 1..Len(q)}
        /\ ToSet(first_task) = {first_task[m] : m \in 1..Len(first_task)}
    BY <1>1, <2>6, LenProperties, ToSetElements
  <2>8. ASSUME NEW m \in 1..Len(q)
        PROVE  \E n \in 1..Len(first_task) :
                 q[m] = first_task[n] /\ n = (IF m <= i THEN m ELSE m + (j - i))
    BY <2>6
  <2>9. ASSUME NEW m \in 1..Len(q), NEW o \in 1..Len(q)
        PROVE  /\ q[m] = q[o] => m = o
               /\ m < o => priority[q[m]] <= priority[q[o]]
    <3>1. PICK n \in 1..Len(first_task) :
            q[m] = first_task[n] /\ n = (IF m <= i THEN m ELSE m + (j - i))
      BY <2>8
    <3>2. PICK p \in 1..Len(first_task) :
            q[o] = first_task[p] /\ p = (IF o <= i THEN o ELSE o + (j - i))
      BY <2>8
    <3>3. (n = p => m = o) /\ (m < o => n < p)
      BY <1>1, <2>1, <2>2, <2>5, <2>7, <3>1, <3>2
    <3> QED
      BY <1>1, <3>1, <3>2, <3>3 DEF Distinct, Sorted
  <2>10. ToSet(q) \subseteq ToSet(first_task)
    BY <2>7, <2>8
  <2> QED
    BY <2>6, <2>9, <2>10 DEF Distinct, Sorted
<1>4. CASE prev # NoTask /\ prev \notin ToSet(first_task)
  BY <1>1, <1>4 DEF Spliced
<1> QED
  BY <1>2, <1>3, <1>4

\* With a prev that is not stale it takes out exactly the caller.
LEMMA SplicedNeighbours ==
  ASSUME TypeOK, QueueSound, SchedAssumption,
         NEW prev \in Tasks \union {NoTask},
         StillBefore(first_task, prev, cur_task)
  PROVE  /\ FoundAt \in 1..Len(first_task) /\ first_task[FoundAt] = cur_task
         /\ Spliced(prev) = RemoveAt(first_task, FoundAt)
<1>1. /\ first_task \in Seq(Tasks) /\ Len(first_task) \in Nat
      /\ Distinct(first_task)
      /\ \A i \in 1..Len(first_task) : first_task[i] \in Tasks
  BY LenProperties, ElementOfSeq DEF TypeOK, QueueSound, Distinct
<1>2. PICK k \in 1..Len(first_task) :
        /\ first_task[k] = cur_task
        /\ prev = IF k = 1 THEN NoTask ELSE first_task[k - 1]
  BY DEF StillBefore
<1>3. FoundAt \in 1..Len(first_task) /\ first_task[FoundAt] = cur_task
  BY <1>1, <1>2, PositionOfProperties DEF FoundAt
<1>4. FoundAt = k
  BY <1>1, <1>2, <1>3 DEF Distinct
<1>5. CASE k = 1
  BY <1>1, <1>2, <1>3, <1>4, <1>5, SchedAssumption, ToSetElements
     DEF Spliced, Unlinked
<1>6. CASE k # 1
  <2>1. k - 1 \in 1..Len(first_task) /\ prev = first_task[k - 1] /\ prev \in Tasks
    BY <1>1, <1>2, <1>6
  <2>2. prev # NoTask /\ prev \in ToSet(first_task)
    BY <1>1, <2>1, ToSetElements
  <2>3. /\ PositionOf(prev) \in 1..Len(first_task)
        /\ first_task[PositionOf(prev)] = prev
    BY <1>1, <2>1, PositionOfProperties
  <2>4. PositionOf(prev) = k - 1
    BY <1>1, <2>1, <2>3 DEF Distinct
  <2> QED
    BY <1>3, <1>4, <2>2, <2>4 DEF Spliced, RemoveAt
<1> QED
  BY <1>5, <1>6

\* Unlinking ends the life of the caller; when it is not stale it takes exactly
\* the caller out of the queue.
LEMMA ExitUnlinkInv ==
  ASSUME Inv, ExitUnlink
  PROVE  Inv'
<1> USE SchedAssumption DEF Inv
<1> DEFINE prev == exit_prev[running]
<1>1. /\ UNCHANGED <<tasks_num, cur_task, memVars, exit_prev, running, msip,
                     booting, leaked>>
      /\ ~msip /\ running \in Tasks /\ exit_at[running] = "found"
      /\ fault' = UnlinkFault(prev)
      /\ stale' = (stale \/ ~StillBefore(first_task, prev, cur_task))
  BY DEF ExitUnlink, Exiting, CanStep
<1>2. cur_task = running /\ ~booting
  BY <1>1 DEF RunningIsCurrent, ExitPhases
<1>3. prev \in Tasks \union {NoTask} /\ stale' \in BOOLEAN
      /\ fault' \in {"none", "null", "cycle", "freed"}
  BY <1>1 DEF TypeOK, UnlinkFault
<1>4. stale \in BOOLEAN /\ (~stale' => ~stale /\ StillBefore(first_task, prev, cur_task))
  BY <1>1 DEF TypeOK
<1>5. CASE fault' # "none"
  <2>1. UNCHANGED <<first_task, exit_at, alive>>
    BY <1>5 DEF ExitUnlink
  <2>2. TypeOK'
    BY <1>1, <1>3, <2>1 DEF TypeOK, memVars
  <2>3. QueueSorted' /\ QueueSound' /\ LostOnlyAfterDrift'
    BY <1>1, <1>4, <2>1 DEF QueueSorted, QueueSound, LostOnlyAfterDrift, memVars
  <2>4. CounterDrift' /\ RunningIsCurrent'
    BY <1>1, <1>4, <2>1 DEF CounterDrift, RunningIsCurrent, Uncounted, At, memVars
  <2>5. ExitPhases'
    BY <1>1, <1>2, <1>4, <2>1 DEF ExitPhases
  <2> QED
    BY <2>2, <2>3, <2>4, <2>5
<1>6. CASE fault' = "none"
  <2>1. /\ first_task' = Spliced(prev)
        /\ exit_at' = [exit_at EXCEPT ![running] = "unlinked"]
        /\ alive' = alive \ {running}
    BY <1>2, <1>6 DEF ExitUnlink
  <2>2. /\ first_task' \in Seq(Tasks) /\ ToSet(first_task') \subseteq ToSet(first_task)
        /\ Distinct(first_task') /\ Sorted(first_task', priority)
    BY <1>1, <1>3, <1>6, <2>1, SplicedProperties
  <2>3. TypeOK'
    BY <1>1, <1>3, <2>1, <2>2 DEF TypeOK, memVars, ExitPoints
  <2>4. QueueSorted'
    BY <1>1, <2>2 DEF QueueSorted, Sorted, memVars
  <2>5. ASSUME ~stale'
        PROVE  /\ ToSet(first_task') = alive' /\ alive = ToSet(first_task)
               /\ Len(first_task') = Len(first_task) - 1
    <3>1. /\ FoundAt \in 1..Len(first_task) /\ first_task[FoundAt] = running
          /\ first_task' = RemoveAt(first_task, FoundAt)
      BY <1>2, <1>3, <1>4, <2>1, <2>5, SplicedNeighbours
    <3>2. first_task \in Seq(Tasks) /\ Distinct(first_task)
      BY DEF TypeOK, QueueSound, Distinct
    <3>3. /\ Len(first_task') = Len(first_task) - 1
          /\ ToSet(first_task') = ToSet(first_task) \ {running}
      BY <3>1, <3>2, RemoveAtProperties, RemoveAtMembers
    <3>4. first_task # <<>>
      BY <3>1, <3>2, EmptySeq, LenProperties
    <3>5. alive = ToSet(first_task)
      BY <1>4, <2>5, <3>4 DEF LostOnlyAfterDrift
    <3> QED
      BY <2>1, <3>3, <3>5
  <2>6. QueueSound' /\ LostOnlyAfterDrift'
    BY <1>1, <2>1, <2>2, <2>5 DEF QueueSound, LostOnlyAfterDrift, Distinct, memVars
  <2>7. CounterDrift'
    <3> SUFFICES ASSUME ~stale'
                 PROVE  tasks_num' = Len(first_task') + leaked'
                                       + (IF Uncounted' THEN 1 ELSE 0)
      BY DEF CounterDrift
    <3>1. ~Uncounted /\ Uncounted'
      BY <1>1, <2>1 DEF Uncounted, At, TypeOK
    <3>2. /\ tasks_num = Len(first_task) + leaked
          /\ leaked \in Nat /\ Len(first_task) \in Nat
      BY <1>4, <3>1, LenProperties DEF CounterDrift, TypeOK
    <3>3. Len(first_task') = Len(first_task) - 1
      BY <2>5
    <3>4. tasks_num' = tasks_num /\ leaked' = leaked
      BY <1>1
    <3>5. tasks_num = (Len(first_task) - 1) + leaked + 1
      BY <3>2
    <3> QED
      BY <3>1, <3>3, <3>4, <3>5
  <2>8. RunningIsCurrent'
    BY <1>1, <1>2, <2>1 DEF RunningIsCurrent, At, TypeOK, memVars
  <2>9. ExitPhases'
    <3>1. \A t \in Tasks :
            exit_at'[t] \in PastUnlink <=> exit_at[t] \in PastUnlink \/ t = running
      BY <1>1, <2>1 DEF PastUnlink, TypeOK
    <3>2. ToSet(first_task) \subseteq Tasks
      BY ToSetElements DEF TypeOK
    <3> QED
      BY <1>1, <1>2, <1>4, <2>1, <2>2, <3>1, <3>2 DEF ExitPhases
  <2> QED
    BY <2>3, <2>4, <2>6, <2>7, <2>8, <2>9
<1> QED
  BY <1>5, <1>6

\* What is freed is dead.
LEMMA ExitFreeInv ==
  ASSUME Inv, ExitFree
  PROVE  Inv'
<1> USE SchedAssumption DEF Inv
<1>1. /\ UNCHANGED <<queueVars, cur_task, priority, state, stack, exit_prev, stale,
                     hartVars, alive, leaked>>
      /\ ~msip /\ running \in Tasks /\ exit_at[running] = "unlinked"
      /\ heap' = heap \ {cur_task}
      /\ exit_at' = [exit_at EXCEPT ![running] = "freed"]
  BY DEF ExitFree, Exiting, CanStep
<1>2. cur_task = running /\ running \notin alive
  BY <1>1 DEF RunningIsCurrent, ExitPhases, PastUnlink
<1>3. TypeOK'
  BY <1>1 DEF TypeOK, queueVars, hartVars, ExitPoints
<1>4. QueueSorted' /\ QueueSound' /\ LostOnlyAfterDrift'
  BY <1>1, <1>2 DEF QueueSorted, QueueSound, LostOnlyAfterDrift, queueVars
<1>5. CounterDrift'
  <2>1. Uncounted /\ Uncounted'
    BY <1>1 DEF Uncounted, At, TypeOK, hartVars
  <2> QED
    BY <1>1, <2>1 DEF CounterDrift, queueVars
<1>6. RunningIsCurrent'
  BY <1>1, <1>2 DEF RunningIsCurrent, At, TypeOK, hartVars
<1>7. ExitPhases'
  <2>1. \A u \in Tasks : exit_at'[u] \in PastUnlink <=> exit_at[u] \in PastUnlink
    BY <1>1 DEF PastUnlink, TypeOK
  <2>2. ToSet(first_task) \subseteq Tasks
    BY ToSetElements DEF TypeOK
  <2> QED
    BY <1>1, <1>2, <2>1, <2>2 DEF ExitPhases, hartVars, queueVars
<1> QED
  BY <1>3, <1>4, <1>5, <1>6, <1>7

\* The decrement brings the count back to the length of the queue.
LEMMA ExitCountInv ==
  ASSUME Inv, ExitCount
  PROVE  Inv'
<1> USE SchedAssumption DEF Inv
<1>1. /\ UNCHANGED <<first_task, cur_task, memVars, exit_prev, stale, hartVars,
                     alive, leaked>>
      /\ ~msip /\ running \in Tasks /\ exit_at[running] = "freed"
      /\ tasks_num' = tasks_num - 1
      /\ exit_at' = [exit_at EXCEPT ![running] = "counted"]
  BY DEF ExitCount, Exiting, CanStep
<1>2. Uncounted /\ ~Uncounted'
  BY <1>1 DEF Uncounted, At, TypeOK, hartVars
<1>3. /\ ~stale => tasks_num = Len(first_task) + leaked + 1
      /\ Len(first_task) \in Nat /\ leaked \in Nat
      /\ tasks_num \in Int /\ tasks_num <= MaxTaskNum /\ MaxTaskNum \in Nat
  BY <1>2, LenProperties DEF CounterDrift, TypeOK
<1>4. TypeOK'
  <2>1. tasks_num - 1 \in Int /\ tasks_num - 1 <= MaxTaskNum
    BY <1>3
  <2> QED
    BY <1>1, <2>1 DEF TypeOK, memVars, hartVars, ExitPoints
<1>5. QueueSorted' /\ QueueSound' /\ LostOnlyAfterDrift'
  BY <1>1 DEF QueueSorted, QueueSound, LostOnlyAfterDrift, memVars
<1>6. CounterDrift'
  <2>1. ~stale => tasks_num - 1 = Len(first_task) + leaked + 0
    BY <1>3
  <2>2. first_task' = first_task /\ leaked' = leaked /\ stale' = stale
    BY <1>1
  <2> QED
    BY <1>1, <1>2, <2>1, <2>2 DEF CounterDrift
<1>7. RunningIsCurrent'
  BY <1>1 DEF RunningIsCurrent, At, TypeOK, memVars, hartVars
<1>8. ExitPhases'
  <2>1. \A u \in Tasks : exit_at'[u] \in PastUnlink <=> exit_at[u] \in PastUnlink
    BY <1>1 DEF PastUnlink, TypeOK
  <2>2. ToSet(first_task) \subseteq Tasks
    BY ToSetElements DEF TypeOK
  <2> QED
    BY <1>1, <2>1, <2>2 DEF ExitPhases, hartVars
<1> QED
  BY <1>4, <1>5, <1>6, <1>7, <1>8

\* A timer interrupt between the unlinking and the decrement turns the one the
\* count is ahead by into a leaked one.
LEMMA BackToOsProperties ==
  ASSUME Inv, BackToOs, UNCHANGED <<queueVars, alive, stale, msip, booting>>
  PROVE  /\ running' = Os
         /\ exit_at' \in [Tasks -> ExitPoints]
         /\ leaked' \in Nat
         /\ CounterDrift' /\ LostOnlyAfterDrift' /\ ExitPhases'
<1> USE SchedAssumption DEF Inv
<1>1. /\ running' = Os
      /\ exit_at' \in [Tasks -> ExitPoints]
      /\ \A t \in Tasks : exit_at'[t] \in PastUnlink => exit_at[t] \in PastUnlink
      /\ \A t \in ToSet(first_task) : exit_at'[t] = exit_at[t]
      /\ ~stale => \A t \in Tasks : exit_at'[t] \notin PastUnlink
  BY LeaveHartProperties DEF BackToOs
<1>2. /\ first_task' = first_task /\ tasks_num' = tasks_num /\ alive' = alive
      /\ stale' = stale
  BY DEF queueVars
<1>3. leaked \in Nat /\ Len(first_task) \in Nat
  BY LenProperties DEF TypeOK
<1>4. ~Uncounted'
  BY <1>1 DEF Uncounted, At
<1>7. ExitPhases'
  BY <1>1, <1>2 DEF ExitPhases, At
<1>8. ~stale /\ Uncounted => Unreachable
  BY DEF Uncounted, At, Unreachable, ExitPhases, QueueSound, PastUnlink
<1>5. CASE Uncounted /\ Unreachable
  <2>1. leaked' = leaked + 1
    BY <1>5 DEF BackToOs
  <2>2. ~stale => tasks_num = Len(first_task) + leaked + 1
    BY <1>5 DEF CounterDrift
  <2>3. ~stale => tasks_num = Len(first_task) + (leaked + 1) + 0
    BY <1>3, <2>2
  <2>4. CounterDrift'
    BY <1>2, <1>4, <2>1, <2>3 DEF CounterDrift
  <2>5. leaked + 1 \in Nat /\ leaked + 1 > 0
    BY <1>3
  <2>6. LostOnlyAfterDrift'
    BY <1>2, <2>1, <2>5 DEF LostOnlyAfterDrift
  <2> QED
    BY <1>1, <1>7, <2>1, <2>4, <2>5, <2>6
<1>6. CASE ~(Uncounted /\ Unreachable)
  <2>1. leaked' = leaked
    BY <1>6 DEF BackToOs
  <2>2. CounterDrift'
    BY <1>2, <1>4, <1>6, <1>8, <2>1 DEF CounterDrift
  <2>3. LostOnlyAfterDrift'
    BY <1>2, <2>1 DEF LostOnlyAfterDrift
  <2> QED
    BY <1>1, <1>3, <1>7, <2>1, <2>2, <2>3
<1> QED
  BY <1>5, <1>6

LEMMA TimerPreemptInv ==
  ASSUME Inv, TimerPreempt
  PROVE  Inv'
<1> USE SchedAssumption DEF Inv
<1>1. UNCHANGED <<queueVars, cur_task, memVars, exit_prev, stale, msip, booting,
                  fault, alive>>
  BY DEF TimerPreempt
<1>2. /\ running' = Os /\ exit_at' \in [Tasks -> ExitPoints]
      /\ leaked' \in Nat /\ CounterDrift' /\ LostOnlyAfterDrift' /\ ExitPhases'
  BY <1>1, BackToOsProperties DEF TimerPreempt
<1>3. TypeOK'
  BY <1>1, <1>2 DEF TypeOK, queueVars, memVars
<1>4. QueueSorted' /\ QueueSound'
  BY <1>1 DEF QueueSorted, QueueSound, queueVars, memVars
<1>5. RunningIsCurrent'
  BY <1>2 DEF RunningIsCurrent, At
<1> QED
  BY <1>2, <1>3, <1>4, <1>5

LEMMA TimerWakeInv ==
  ASSUME Inv, NEW t \in Tasks, TimerWake(t)
  PROVE  Inv'
<1> USE SchedAssumption DEF Inv
<1>1. /\ UNCHANGED <<queueVars, priority, stack, heap, exit_prev, stale, msip,
                     booting, fault, alive>>
      /\ state' = [state EXCEPT ![t] = "RUNNABLE"] /\ cur_task' = t
  BY DEF TimerWake
<1>2. /\ running' = Os /\ exit_at' \in [Tasks -> ExitPoints]
      /\ leaked' \in Nat /\ CounterDrift' /\ LostOnlyAfterDrift' /\ ExitPhases'
  BY <1>1, BackToOsProperties DEF TimerWake
<1>3. TypeOK'
  BY <1>1, <1>2 DEF TypeOK, queueVars, States
<1>4. QueueSorted' /\ QueueSound'
  BY <1>1 DEF QueueSorted, QueueSound, queueVars
<1>5. RunningIsCurrent'
  BY <1>2 DEF RunningIsCurrent, At
<1> QED
  BY <1>2, <1>3, <1>4, <1>5

LEMMA StutterInv ==
  ASSUME Inv, UNCHANGED schedVars
  PROVE  Inv'
<1> USE DEF Inv, schedVars, queueVars, memVars, exitVars, hartVars
<1>1. TypeOK' /\ QueueSorted' /\ QueueSound'
  BY DEF TypeOK, QueueSorted, QueueSound
<1>2. CounterDrift' /\ LostOnlyAfterDrift' /\ RunningIsCurrent' /\ ExitPhases'
  BY DEF CounterDrift, LostOnlyAfterDrift, RunningIsCurrent, ExitPhases,
         Uncounted, At
<1> QED
  BY <1>1, <1>2

\* Every step keeps Inv.
LEMMA NextInv == Inv /\ [Next]_schedVars => Inv'
<1> SUFFICES ASSUME Inv, [Next]_schedVars
             PROVE  Inv'
  OBVIOUS
<1>1. ASSUME NEW t \in Tasks, NEW p \in Priorities, NEW s \in StaleStates,
             TaskCreate(t, p, s)
      PROVE  Inv'
  BY <1>1, TaskCreateInv
<1>2. CASE KernelYield \/ TaskYield \/ ExitYield
  BY <1>2, RaiseInv
<1>3. CASE Sleep
  BY <1>3, SleepInv
<1>4. CASE ScheduleOs
  BY <1>4, ScheduleOsInv
<1>13. CASE ScheduleFreed
  BY <1>13, ScheduleFreedInv
<1>5. CASE ScheduleTask
  BY <1>5, ScheduleTaskInv
<1>6. CASE ExitFind
  BY <1>6, ExitFindInv
<1>7. CASE ExitUnlink
  BY <1>7, ExitUnlinkInv
<1>8. CASE ExitFree
  BY <1>8, ExitFreeInv
<1>9. CASE ExitCount
  BY <1>9, ExitCountInv
<1>10. CASE TimerPreempt
  BY <1>10, TimerPreemptInv
<1>11. ASSUME NEW t \in Tasks, TimerWake(t)
       PROVE  Inv'
  BY <1>11, TimerWakeInv
<1>12. CASE UNCHANGED schedVars
  BY <1>12, StutterInv
<1> QED
  BY <1>1, <1>2, <1>3, <1>4, <1>5, <1>6, <1>7, <1>8, <1>9, <1>10, <1>11, <1>12,
     <1>13 DEF Next

-----------------------------------------------------------------------------
(***************************************************************************)
(* The theorems.                                                           *)
(***************************************************************************)

\* The inductive invariant of the scheduler: what it says of the members of the
\* queue and of the count holds until an unlink is stale, the rest for ever.
THEOREM Invariance == Spec => []Inv
<1>1. Init => Inv
  BY InitInv
<1>2. Inv /\ [Next]_schedVars => Inv'
  BY NextInv
<1> QED
  BY <1>1, <1>2, PTL DEF Spec

\* Every variable keeps its type: _tasks_num never exceeds MAX_TASK_NUM, and the
\* index task_create reads from it is one of task_stack.
THEOREM TypeCorrect == Spec => []TypeOK
<1>1. Inv => TypeOK
  BY DEF Inv
<1> QED
  BY <1>1, Invariance, PTL

\* The run queue stays ordered by priority whatever is inserted, aged, put to
\* sleep, woken or unlinked by task_create, pop_task and task_exit.
THEOREM QueueAlwaysSorted == Spec => []QueueSorted
<1>1. Inv => QueueSorted
  BY DEF Inv
<1> QED
  BY <1>1, Invariance, PTL

\* The run queue never holds a task twice; until an unlink of task_exit is stale
\* it holds no exited task and no freed memory.
THEOREM QueueAlwaysSound == Spec => []QueueSound
<1>1. Inv => QueueSound
  BY DEF Inv
<1> QED
  BY <1>1, Invariance, PTL

\* Until an unlink of task_exit is stale, _tasks_num exceeds the length of the
\* run queue by exactly the number of tasks that are, or that a timer interrupt
\* took off the hart, between the unlinking and the decrement.
THEOREM CounterDriftExact == Spec => []CounterDrift
<1>1. Inv => CounterDrift
  BY DEF Inv
<1> QED
  BY <1>1, Invariance, PTL

\* Until an unlink of task_exit is stale, a live task leaves the queue only as
\* the last one, refused by insert_task because _tasks_num has drifted before.
THEOREM LostOnlyByDrift == Spec => []LostOnlyAfterDrift
<1>1. Inv => LostOnlyAfterDrift
  BY DEF Inv
<1> QED
  BY <1>1, Invariance, PTL

\* cur_task is the task on the hart whenever a task is, and its memory is its own.
THEOREM RunningAlwaysCurrent == Spec => []RunningIsCurrent
<1>1. Inv => RunningIsCurrent
  BY DEF Inv
<1> QED
  BY <1>1, Invariance, PTL

\* Only schedule, with a task, clears the software interrupt and gives the hart
\* to a task.
LEMMA SwitchedProperties ==
  ASSUME Inv, Next, Switched
  PROVE  ScheduleTask
<1>1. CASE \E t \in Tasks, p \in Priorities, s \in StaleStates : TaskCreate(t, p, s)
  BY <1>1 DEF Switched, TaskCreate, OutsideExit, CanStep
<1>2. CASE KernelYield \/ TaskYield \/ Sleep \/ ExitYield
  BY <1>2 DEF Switched, KernelYield, TaskYield, Sleep, ExitYield
<1>3. CASE ScheduleOs \/ ScheduleFreed
  BY <1>3, SchedAssumption DEF Switched, ScheduleOs, ScheduleFreed
<1>4. CASE ExitFind \/ ExitUnlink \/ ExitFree \/ ExitCount
  BY <1>4 DEF Switched, ExitFind, ExitUnlink, ExitFree, ExitCount, Exiting, CanStep
<1>5. CASE TimerPreempt \/ \E t \in Tasks : TimerWake(t)
  BY <1>5 DEF Switched, TimerPreempt, TimerWake, CanStep
<1> QED
  BY <1>1, <1>2, <1>3, <1>4, <1>5 DEF Next

\* schedule never picks a sleeping task, nor passes over a more urgent one that
\* could run: the first task that is not asleep is the best because the queue
\* is sorted.
THEOREM AlwaysPicksHighest == Spec => PicksHighest
<1> DEFINE Best ==
      Switched =>
        /\ state[running'] # "SLEEPING"
        /\ \A u \in ToSet(first_task) :
             state[u] = "SLEEPING" \/ priority[running'] <= priority[u]
<1>1. ASSUME Inv, Next, Switched
      PROVE  /\ state[running'] # "SLEEPING"
             /\ \A u \in ToSet(first_task) :
                  state[u] = "SLEEPING" \/ priority[running'] <= priority[u]
  <2>1. ScheduleTask
    BY <1>1, SwitchedProperties
  <2>2. running' = first_task[Next2Run] /\ Ready # {}
    BY <2>1 DEF ScheduleTask
  <2>3. /\ first_task \in Seq(Tasks) /\ priority \in [Tasks -> Int]
        /\ QueueSorted
    BY <1>1 DEF Inv, TypeOK
  <2>4. /\ Next2Run \in 1..Len(first_task) /\ Next2Run \in Ready
        /\ \A k \in Ready : Next2Run <= k
    BY <2>2, <2>3, Next2RunProperties
  <2>5. state[running'] # "SLEEPING"
    BY <2>2, <2>4 DEF Ready
  <2>6. ASSUME NEW u \in ToSet(first_task), state[u] # "SLEEPING"
        PROVE  priority[running'] <= priority[u]
    <3>1. PICK i \in 1..Len(first_task) : u = first_task[i]
      BY <2>3, ToSetElements
    <3>2. i \in Ready
      BY <2>6, <3>1 DEF Ready
    <3>3. Next2Run <= i
      BY <2>4, <3>2
    <3>4. CASE Next2Run = i
      <4>1. u \in Tasks /\ running' = u
        BY <2>2, <2>3, <3>1, <3>4, ElementOfSeq
      <4>2. priority[u] \in Int
        BY <2>3, <4>1
      <4> QED
        BY <4>1, <4>2
    <3>5. CASE Next2Run # i
      <4>1. Next2Run < i
        BY <2>4, <3>3, <3>5, <3>1
      <4> QED
        BY <2>2, <2>3, <2>4, <3>1, <4>1 DEF QueueSorted
    <3> QED
      BY <3>4, <3>5
  <2> QED
    BY <2>5, <2>6
<1>2. Inv /\ [Next]_schedVars => [Best]_schedVars
  BY <1>1
<1>3. Spec => [][Best]_schedVars
  BY <1>2, Invariance, PTL DEF Spec
<1> QED
  BY <1>3 DEF PicksHighest

\* While the kernel creates the tasks, the stacks given out lie below the count.
StackInv ==
  /\ StacksDistinct
  /\ booting => running = Os /\ ~msip /\ \A t \in alive : stack[t] < tasks_num

\* Only task_create gives a stack out, and task_exit does not run before its end.
LEMMA StackNext == Inv /\ StackInv /\ [Next]_schedVars => StackInv'
<1> SUFFICES ASSUME Inv, StackInv, [Next]_schedVars PROVE StackInv'
  OBVIOUS
<1> USE SchedAssumption
<1>0. /\ stack \in [Tasks -> 0..MaxTaskNum - 1] /\ tasks_num \in Int
      /\ alive \subseteq Tasks /\ MaxTaskNum \in Nat
  BY DEF Inv, TypeOK
<1>1. ASSUME NEW t \in Tasks, NEW p \in Priorities, NEW s \in StaleStates,
             TaskCreate(t, p, s)
      PROVE  StackInv'
  <2>1. /\ booting /\ (first_task # <<>> \/ tasks_num = 0)
        /\ alive' = alive \union {t}
        /\ stack' = [stack EXCEPT ![t] = tasks_num]
        /\ running' = running /\ msip' = msip
        /\ tasks_num' = InsertTask(first_task, tasks_num, priority', t).num
    BY <1>1 DEF TaskCreate, hartVars
  <2>2. t \notin alive /\ booting
    BY <1>1 DEF TaskCreate, Inv, QueueSound
  <2>3. tasks_num' = tasks_num + 1
    BY <1>1, <2>1 DEF TaskCreate, InsertTask
  <2>4. \A u \in alive : u # t /\ stack[u] < tasks_num /\ stack[u] \in Int
    BY <1>0, <2>2 DEF StackInv
  <2>5. stack'[t] = tasks_num /\ \A u \in alive : stack'[u] = stack[u]
    BY <1>0, <2>1, <2>4
  <2>6. \A u \in alive' : stack'[u] < tasks_num'
    BY <1>0, <2>1, <2>3, <2>4, <2>5
  <2>7. ASSUME NEW u \in alive', NEW v \in alive', u # v PROVE stack'[u] # stack'[v]
    <3>1. CASE u \in alive /\ v \in alive
      BY <2>5, <2>7, <3>1 DEF StackInv, StacksDistinct
    <3>2. CASE u = t \/ v = t
      BY <1>0, <2>1, <2>4, <2>5, <2>7, <3>2
    <3> QED
      BY <2>1, <3>1, <3>2
  <2> QED
    BY <2>1, <2>2, <2>6, <2>7 DEF StackInv, StacksDistinct
<1>2. ASSUME stack' = stack, alive' \subseteq alive, ~booting'
      PROVE  StackInv'
  BY <1>2 DEF StackInv, StacksDistinct
<1>3. CASE KernelYield
  BY <1>2, <1>3 DEF KernelYield, memVars
<1>4. CASE ScheduleOs \/ ScheduleTask \/ ScheduleFreed
  <2>1. ~booting
    BY <1>4 DEF ScheduleOs, ScheduleTask, ScheduleFreed, StackInv
  <2> QED
    BY <1>2, <1>4, <2>1 DEF ScheduleOs, ScheduleTask, ScheduleFreed, memVars
<1>5. CASE TaskYield \/ Sleep \/ ExitYield \/ TimerPreempt
  <2>1. ~booting
    BY <1>5 DEF TaskYield, Sleep, ExitYield, Exiting, TimerPreempt, StackInv
  <2> QED
    BY <1>2, <1>5, <2>1 DEF TaskYield, Sleep, ExitYield, TimerPreempt, memVars
<1>6. CASE ExitFind \/ ExitUnlink \/ ExitFree \/ ExitCount
  <2>1. ~booting
    BY <1>6 DEF ExitFind, ExitUnlink, ExitFree, ExitCount, Exiting, StackInv
  <2>2. stack' = stack /\ booting' = booting /\ alive' \subseteq alive
    BY <1>6 DEF ExitFind, ExitUnlink, ExitFree, ExitCount, memVars, hartVars
  <2> QED
    BY <1>2, <2>1, <2>2
<1>7. ASSUME NEW t \in Tasks, TimerWake(t)
      PROVE  StackInv'
  BY <1>7 DEF TimerWake, BackToOs, queueVars, StackInv, StacksDistinct
<1>8. CASE UNCHANGED schedVars
  BY <1>8 DEF schedVars, queueVars, memVars, hartVars, StackInv, StacksDistinct
<1> QED
  BY <1>1, <1>3, <1>4, <1>5, <1>6, <1>7, <1>8 DEF Next

\* No two live tasks share a stack (sched.h:73).
THEOREM StacksAlwaysDistinct == Spec => []StacksDistinct
<1>1. Init => StackInv
  BY DEF Init, StackInv, StacksDistinct
<1>2. Inv /\ StackInv /\ [Next]_schedVars => StackInv'
  BY StackNext
<1>3. StackInv => StacksDistinct
  BY DEF StackInv
<1> QED
  BY <1>1, <1>2, <1>3, Invariance, PTL DEF Spec

\* The position insert_task chooses: everything behind it is less urgent.
LEMMA InsertPosLater ==
  ASSUME NEW q \in Seq(Tasks), NEW prio \in [Tasks -> Int], NEW p \in Int,
         Sorted(q, prio)
  PROVE  \A i \in 1..Len(q) : InsertPos(q, prio, p) <= i => prio[q[i]] > p
<1> DEFINE k == InsertPos(q, prio, p)
<1>1. k \in 1..Len(q) + 1 /\ (k <= Len(q) => prio[q[k]] > p)
  BY InsertPosProperties
<1> HIDE DEF k
<1>2. Len(q) \in Nat /\ \A i \in 1..Len(q) : prio[q[i]] \in Int
  BY LenProperties, ElementOfSeq
<1>3. ASSUME NEW i \in 1..Len(q), k <= i PROVE prio[q[i]] > p
  <2>1. k \in 1..Len(q) /\ prio[q[k]] > p
    BY <1>1, <1>2, <1>3
  <2>2. prio[q[k]] <= prio[q[i]]
    BY <1>2, <1>3, <2>1 DEF Sorted
  <2> QED
    BY <1>2, <2>1, <2>2
<1> QED
  BY <1>3 DEF k

\* One turn of schedule.
Rotated ==
  /\ \A i, j \in 1..Len(first_task') :
       /\ first_task'[i] = running'
       /\ priority'[first_task'[j]] <= priority'[running']
       => j <= i
  /\ RemoveFirst(first_task, running') = RemoveFirst(first_task', running')

LEMMA ScheduleRotates ==
  ASSUME Inv, ScheduleTask
  PROVE  Rotated
<1> DEFINE m == Next2Run
           t == first_task[m]
           q == RemoveAt(first_task, m)
           k == InsertPos(q, priority', priority'[t])
<1>1. /\ first_task \in Seq(Tasks) /\ Len(first_task) \in Nat
      /\ priority \in [Tasks -> Int] /\ tasks_num \in Int
      /\ Distinct(first_task) /\ Sorted(first_task, priority)
  BY SchedAssumption, LenProperties
     DEF Inv, TypeOK, QueueSound, Distinct, QueueSorted, Sorted
<1>2. /\ Ready # {} /\ running' = t
      /\ priority' = [priority EXCEPT ![t] = Aged(priority[t])]
      /\ first_task' = PopTask(priority').queue
  BY DEF ScheduleTask
<1>3. m \in 1..Len(first_task)
  BY <1>1, <1>2, Next2RunProperties
<1>4. t \in Tasks
  BY <1>1, <1>3, ElementOfSeq
<1>5. PopTask(priority') = InsertTask(q, tasks_num - 1, priority', t)
  BY DEF PopTask, Unlinked
<1> HIDE DEF m, t
<1>6. /\ q \in Seq(Tasks) /\ Len(q) \in Nat /\ Distinct(q)
      /\ ToSet(q) = ToSet(first_task) \ {t} /\ Sorted(q, priority)
  <2>1. q \in Seq(Tasks) /\ Len(q) \in Nat
    BY <1>1, <1>3, RemoveAtProperties, LenProperties
  <2>2. ToSet(q) = ToSet(first_task) \ {t} /\ Distinct(q)
    BY <1>1, <1>3, RemoveAtMembers DEF t
  <2>3. Sorted(q, priority)
    BY <1>1, <1>3, RemoveSorted
  <2> QED
    BY <2>1, <2>2, <2>3
<1>7. priority' \in [Tasks -> Int] /\ \A u \in Tasks \ {t} : priority'[u] = priority[u]
  <2>1. Aged(priority[t]) \in Int
    BY <1>1, <1>4 DEF Aged
  <2> QED
    BY <1>1, <1>2, <1>4, <2>1
<1>8. \A i \in 1..Len(q) : q[i] \in Tasks \ {t}
  <2>1. ToSet(q) = {q[i] : i \in 1..Len(q)} /\ \A i \in 1..Len(q) : q[i] \in Tasks
    BY <1>6, ToSetElements, ElementOfSeq
  <2> QED
    BY <1>6, <2>1
<1>9. Sorted(q, priority') /\ priority'[t] \in Int
  BY <1>4, <1>6, <1>7, <1>8 DEF Sorted
<1>10. RemoveFirst(first_task, t) = q
  BY <1>1, <1>3, RemoveFirstProperties DEF t
<1> HIDE DEF q
<1>11. RemoveFirst(q, t) = q
  BY <1>8 DEF RemoveFirst
<1>12. CASE q = <<>> /\ tasks_num - 1 # 0
  <2>1. first_task' = q
    BY <1>2, <1>5, <1>12 DEF InsertTask
  <2>2. Len(q) = 0
    BY <1>6, <1>12, EmptySeq
  <2>3. 1..Len(q) = {}
    BY <2>2
  <2> QED
    BY <1>2, <1>10, <1>11, <2>1, <2>3 DEF Rotated
<1>13. CASE ~(q = <<>> /\ tasks_num - 1 # 0)
  <2>1. first_task' = InsertAt(q, k, t)
    <3>1. InsertTask(q, tasks_num - 1, priority', t) =
            [queue |-> InsertAt(q, k, t), num |-> (tasks_num - 1) + 1]
      BY <1>13 DEF InsertTask
    <3> HIDE DEF k
    <3> QED
      BY <1>2, <1>5, <3>1
  <2>2. /\ k \in 1..Len(q) + 1
        /\ \A i \in 1..Len(q) : k <= i => priority'[q[i]] > priority'[t]
    BY <1>6, <1>7, <1>9, InsertPosProperties, InsertPosLater
  <2> HIDE DEF k
  <2>3. /\ first_task' \in Seq(Tasks) /\ Len(first_task') = Len(q) + 1
        /\ \A i \in 1..Len(q) + 1 :
             first_task'[i] = IF i < k THEN q[i] ELSE IF i = k THEN t ELSE q[i - 1]
    <3> DEFINE r == InsertAt(q, k, t)
    <3>0. q \in Seq(Tasks) /\ t \in Tasks /\ k \in 1..Len(q) + 1
      BY <1>4, <1>6, <2>2
    <3>1. /\ r \in Seq(Tasks) /\ Len(r) = Len(q) + 1
          /\ \A i \in 1..Len(q) + 1 :
               r[i] = IF i < k THEN q[i] ELSE IF i = k THEN t ELSE q[i - 1]
      BY ONLY <3>0, InsertAtProperties
    <3> HIDE DEF r
    <3>2. first_task' = r
      BY <2>1 DEF r
    <3> QED
      BY <3>1, <3>2
  <2>4. ASSUME NEW i \in 1..Len(q) + 1, first_task'[i] = t PROVE i = k
    <3>1. CASE i < k
      BY <1>6, <1>8, <2>2, <2>3, <2>4, <3>1
    <3>2. CASE i > k
      <4>1. i - 1 \in 1..Len(q)
        BY <1>6, <2>2, <3>2
      <4> QED
        BY <1>8, <2>2, <2>3, <2>4, <3>2, <4>1
    <3> QED
      BY <1>6, <2>2, <3>1, <3>2
  <2>5. ASSUME NEW j \in 1..Len(q) + 1, priority'[first_task'[j]] <= priority'[t]
        PROVE  j <= k
    <3> SUFFICES ASSUME j > k PROVE FALSE
      BY <1>6, <2>2
    <3>1. j - 1 \in 1..Len(q) /\ k <= j - 1
      BY <1>6, <2>2
    <3>2. first_task'[j] = q[j - 1] /\ priority'[q[j - 1]] \in Int
      BY <1>6, <1>7, <1>8, <2>2, <2>3, <3>1
    <3>3. priority'[q[j - 1]] > priority'[t]
      BY <2>2, <3>1
    <3> QED
      BY <1>9, <2>5, <3>2, <3>3
  <2>6. RemoveFirst(first_task', t) = q
    <3>1. Distinct(first_task')
      <4>1. t \notin ToSet(q)
        BY <1>6
      <4> QED
        BY <1>4, <1>6, <2>1, <2>2, <4>1, InsertAtMembers
    <3>2. k \in 1..Len(first_task') /\ first_task'[k] = t
      BY <1>6, <2>2, <2>3
    <3>3. RemoveFirst(first_task', first_task'[k]) = RemoveAt(first_task', k)
      BY <2>3, <3>1, <3>2, RemoveFirstProperties
    <3>4. RemoveAt(InsertAt(q, k, t), k) = q
      BY <1>4, <1>6, <2>2, RemoveInserted
    <3> QED
      BY <2>1, <3>2, <3>3, <3>4
  <2> QED
    BY <1>2, <1>10, <2>3, <2>4, <2>5, <2>6 DEF Rotated
<1> QED
  BY <1>12, <1>13

\* Tasks of equal priority take turns: whatever schedule picks goes behind its
\* equals, and the others keep their order.
THEOREM TurnsAlwaysRotate == Spec => TurnsRotate
<1>1. ASSUME Inv, Next, Switched PROVE Rotated
  BY <1>1, SwitchedProperties, ScheduleRotates
<1>2. Inv /\ [Next]_schedVars => [Switched => Rotated]_schedVars
  BY <1>1
<1>3. Spec => [][Switched => Rotated]_schedVars
  BY <1>2, Invariance, PTL DEF Spec
<1> QED
  BY <1>3 DEF TurnsRotate, Rotated

=============================================================================
