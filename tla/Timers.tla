------------------------------- MODULE Timers -------------------------------
(***************************************************************************)
(* The timer list of os/timer.c with everything that uses it: the sleep    *)
(* system call and timer_handler, which run inside traps, and the tasks    *)
(* that call timer_create and timer_delete with interrupts on, as          *)
(* user_task1 does.  A timer interrupt may come between any two statements *)
(* of such a task, and other tasks run before it goes on: each statement   *)
(* that reads or writes the list is a step, and so is each turn of a walk. *)
(*                                                                         *)
(* Module Sched decides who runs and module Lock checks that every task    *)
(* that can run does: here any task that is awake may be given the hart.   *)
(***************************************************************************)
EXTENDS Integers, Sequences, FiniteSets, SequencesExt

CONSTANTS
  Tasks,      \* the tasks
  Clients,    \* those that also create and delete timers with callbacks
  NoTask,     \* the kernel has the hart
  NumTimers,  \* how many struct timer the heap has room for
  Callbacks,  \* the timeouts that clients pass to timer_create
  Sleeps,     \* the arguments of sleep
  MaxOwn,     \* bound: the timers that a client has at a time
  MaxTicks    \* bound: the tick at which the clock stands still

Addrs == 1..NumTimers
Null == 0
Pointers == Addrs \union {Null}

ASSUME TimersAssumption ==
  /\ Clients \subseteq Tasks /\ NoTask \notin Tasks /\ IsFiniteSet(Tasks)
  /\ Callbacks \subseteq Nat /\ Sleeps \subseteq Nat
  /\ MaxOwn \in Nat /\ MaxTicks \in Nat
  /\ NumTimers \in Nat /\ NumTimers >= Cardinality(Tasks) + MaxOwn * Cardinality(Clients)

VARIABLES
  ticks,        \* _ticks
  first_timer,  \* the head of the list
  next,         \* t->next, and NULL for NULL, where every walk ends
  timeout,      \* t->timeout
  task,         \* t->task
  sleeper,      \* t->func = NULL: the timer of a sleep
  heap,         \* the timers that are allocated
  cur_task,     \* who has the hart
  asleep,       \* the tasks whose state is SLEEPING
  pc,           \* where each client is in timer_create or timer_delete
  t, prev, it,  \* its local variables there
  own,          \* the timers it has created and not deleted
  fault,        \* "null": a NULL pointer was followed; "freed": a walk read
                \* a timer that was freed; "list": a stale store tore the
                \* list. The model stops at each
  strayed,      \* history: the searches of timer_delete that went on from a
                \* timer that had left the list, or had its t->next to set
  called,       \* history: the timers whose func this tick has called
  cut           \* history: the last tick that found the list cut in two, 0 again
                \* after one that found it whole and no sleep over

listVars  == <<first_timer, next>>
timerVars == <<timeout, task, sleeper, heap>>
localVars == <<pc, t, prev, it, own>>
timersVars == <<ticks, listVars, timerVars, cur_task, asleep, localVars, strayed, fault, called, cut>>

Init ==
  /\ ticks = 0 /\ first_timer = Null
  /\ next = [x \in Pointers |-> Null] /\ timeout = [x \in Addrs |-> 0]
  /\ task = [x \in Addrs |-> NoTask] /\ sleeper = [x \in Addrs |-> FALSE]
  /\ heap = {} /\ cur_task = NoTask /\ asleep = {}
  /\ pc = [c \in Clients |-> "run"]
  /\ t = [c \in Clients |-> Null] /\ prev = t /\ it = t
  /\ own = [c \in Clients |-> {}]
  /\ fault = "none" /\ strayed = {} /\ called = {} /\ cut = 0

-----------------------------------------------------------------------------
(***************************************************************************)
(* The list.                                                               *)
(***************************************************************************)

\* Where n steps from x along nxt lead.
Walk(x, nxt) ==
  LET at[n \in 0..NumTimers] == IF n = 0 THEN x ELSE nxt[at[n - 1]]
  IN  at

\* The timers from x along nxt, cut off after more steps than there are timers.
ListFrom(x, nxt) ==
  LET at == Walk(x, nxt)
      length == Min({n \in 0..NumTimers : at[n] = Null} \union {NumTimers + 1})
  IN  [n \in 1..length |-> at[n - 1]]

\* \E list \in {List} names it: TLC then walks it once.
List == ListFrom(first_timer, next)

\* The last timer is never passed.
Bug_Place(list, when) ==
  Min({i \in 1..Len(list) + 1 : i >= Len(list) \/ timeout[list[i]] > when})

\* Where the walk of insert_timer ends: behind what is due no later.
Place(list, when) ==
  Min({i \in 1..Len(list) + 1 : i = Len(list) + 1 \/ timeout[list[i]] > when})

\* Element i of the list, or the NULL pointer at its end.
Item(list, i) == IF i \in 1..Len(list) THEN list[i] ELSE Null

\* malloc takes the first block that is free.
Allocated == Min(Addrs \ heap)

\* insert_timer where nothing can interrupt it.
InsertTimer(x, when) ==
  \E list \in {List} : \E k \in {Place(list, when)} :
      /\ first_timer' = IF k = 1 THEN x ELSE first_timer
      /\ next' = [a \in Pointers |-> CASE a = x -> Item(list, k)
                                    [] a = Item(list, k - 1) /\ a # Null -> x
                                    [] OTHER -> next[a]]

\* The memory is not given back.
Bug_FreeTimer(x, nxt) ==
  /\ next' = [nxt EXCEPT ![x] = Null]
  /\ sleeper' = [sleeper EXCEPT ![x] = FALSE]
  /\ UNCHANGED <<heap, timeout, task>>

\* free. What the memory still holds is forgotten.
FreeTimer(x, nxt) ==
  /\ heap' = heap \ {x}
  /\ next' = [nxt EXCEPT ![x] = Null]
  /\ timeout' = [timeout EXCEPT ![x] = 0]
  /\ task' = [task EXCEPT ![x] = NoTask]
  /\ sleeper' = [sleeper EXCEPT ![x] = FALSE]

\* The timer that has woken its task stays in the list.
Bug_DeleteTimer(list, i) == UNCHANGED <<listVars, timerVars>>

\* timer_delete of element i of the list where nothing can interrupt it.
DeleteTimer(list, i) ==
  /\ first_timer' = IF i = 1 THEN next[list[i]] ELSE first_timer
  /\ FreeTimer(list[i], IF i = 1 THEN next
                        ELSE [next EXCEPT ![list[i - 1]] = next[list[i]]])

-----------------------------------------------------------------------------
(***************************************************************************)
(* Traps.                                                                  *)
(***************************************************************************)

\* No tick.
Quiet == called' = {} /\ UNCHANGED cut

\* The scheduler gives the hart to a task.
Run(c) ==
  /\ fault = "none" /\ cur_task = NoTask /\ c \notin asleep
  /\ cur_task' = c
  /\ UNCHANGED <<ticks, listVars, timerVars, asleep, localVars, strayed, fault>>
  /\ Quiet

\* A task that is in neither timer_create nor timer_delete.
Outside(c) ==
  /\ fault = "none" /\ cur_task = c
  /\ c \in Clients => pc[c] = "run"

Fill(x, c, when, sleeps) ==
  /\ timeout' = [timeout EXCEPT ![x] = when]
  /\ task' = [task EXCEPT ![x] = c]
  /\ sleeper' = [sleeper EXCEPT ![x] = sleeps]
  /\ heap' = heap \union {x}

\* The sleep system call: task_delay and timer_create, with a NULL func.
Sleep(c, n) ==
  /\ Outside(c) /\ ticks + n <= MaxTicks
  /\ Fill(Allocated, c, ticks + n, TRUE)
  /\ InsertTimer(Allocated, ticks + n)
  /\ asleep' = asleep \union {c}
  /\ cur_task' = NoTask
  /\ UNCHANGED <<ticks, localVars, strayed, fault>> /\ Quiet

Now == Min({ticks + 1, MaxTicks})

\* Only what is due at this very tick.
Bug_Due(list, now) ==
  {i \in 1..Len(list) : \A j \in 1..i : timeout[list[j]] = now}

\* timer_check returns when it has called one.
Bug_DueFirst(list, now) == {i \in 1..Len(list) : i = 1 /\ timeout[list[i]] <= now}

\* The loop of timer_check breaks at the first timer that is not due yet.
Due(list, now) == {i \in 1..Len(list) : \A j \in 1..i : timeout[list[j]] <= now}

\* The timers of sleeps that timer_check would come to.
Over(list) == {i \in Due(list, Now) : sleeper[list[i]]}

\* Those that have linked their timer and not what comes behind it.
Splicing == {c \in Clients : pc[c] = "next"}

\* A client has yet to set the t->next of x.
Unset(x) == \E c \in Splicing : t[c] = x

\* The searches of timer_delete that stand at x.
AtTimer(x) == {c \in Clients : pc[c] \in {"check", "behind", "search"} /\ it[c] = x}

\* No sleep is over.
NoneLate == \A x \in heap : sleeper[x] => timeout[x] > Now

NoteCut ==
  cut' = CASE Splicing # {} -> Now
           [] Splicing = {} /\ NoneLate -> 0
           [] OTHER -> cut

\* timer_handler without a sleep that is over: every callback that is due is
\* called. The slice is over, or not.
Tick(next_task) ==
  /\ fault = "none"
  /\ ticks' = Now
  /\ cur_task' = next_task
  /\ NoteCut
  /\ UNCHANGED <<listVars, timerVars, asleep, localVars, strayed, fault>>
  /\ \E list \in {List} :
       /\ Over(list) = {}
       /\ called' = {list[i] : i \in Due(list, Now)}

\* timer_handler when timer_check comes to the timer of a sleep that is over.
TickWake ==
  /\ fault = "none"
  /\ ticks' = Now
  /\ cur_task' = NoTask
  /\ NoteCut
  /\ UNCHANGED localVars
  /\ \E list \in {List} : \E i \in Over(list) :
     LET c == task[list[i]]
     IN  /\ \A j \in Over(list) : i <= j
         /\ called' = {list[j] : j \in 1..i - 1}
         /\ IF c \in asleep
            THEN /\ DeleteTimer(list, i) /\ asleep' = asleep \ {c} /\ UNCHANGED fault
                 /\ strayed' = strayed \union AtTimer(list[i])
            ELSE fault' = "null" /\ UNCHANGED <<listVars, timerVars, asleep, strayed>>

-----------------------------------------------------------------------------
(***************************************************************************)
(* timer_create and timer_delete in a task.                                *)
(***************************************************************************)

At(c, p) == fault = "none" /\ cur_task = c /\ pc[c] = p

Goto(c, p) == pc' = [pc EXCEPT ![c] = p]

Set(v, c, x) == [v EXCEPT ![c] = x]

\* A stale store, of which the list does not recover.
Torn == fault' = "list" /\ UNCHANGED <<listVars, localVars, strayed>>

\* A store of a client; whatever it rests on has to hold still.
Store(c, then, sound, pointers) ==
  IF sound
  THEN /\ pointers /\ Goto(c, then) /\ UNCHANGED fault
       /\ own' = [own EXCEPT ![c] = IF then = "run" THEN @ \union {t[c]} ELSE @]
       /\ IF then \in {"run", "free"}
          THEN prev' = Set(prev, c, Null) /\ it' = Set(it, c, Null)
          ELSE UNCHANGED <<prev, it>>
       /\ t' = IF then = "run" THEN Set(t, c, Null) ELSE t
       /\ strayed' = IF then = "free" THEN strayed \union AtTimer(t[c]) ELSE strayed
  ELSE Torn

Undisturbed == UNCHANGED <<ticks, timerVars, cur_task, asleep>> /\ Quiet

Create(c, n) ==
  /\ At(c, "run") /\ Cardinality(own[c]) < MaxOwn /\ ticks + n <= MaxTicks
  /\ Fill(Allocated, c, ticks + n, FALSE)
  /\ next' = [next EXCEPT ![Allocated] = Null]
  /\ t' = Set(t, c, Allocated)
  /\ Goto(c, "insert")
  /\ UNCHANGED <<ticks, first_timer, cur_task, asleep, prev, it, own, strayed, fault>> /\ Quiet

\* A statement that reads the list and sets no more than local variables.
Reads(c) == Undisturbed /\ UNCHANGED <<listVars, t, own>>

\* if(!first_timer)
InsertFind(c) ==
  /\ At(c, "insert")
  /\ Goto(c, IF first_timer = Null THEN "empty" ELSE "compare")
  /\ Reads(c) /\ UNCHANGED <<prev, it, strayed, fault>>

\* if(t->timeout < first_timer->timeout), when the list may be empty again.
InsertCompare(c) ==
  /\ At(c, "compare")
  /\ IF first_timer = Null
     THEN fault' = "null" /\ UNCHANGED pc
     ELSE /\ Goto(c, IF timeout[t[c]] < timeout[first_timer] THEN "head" ELSE "it")
          /\ UNCHANGED fault
  /\ Reads(c) /\ UNCHANGED <<prev, it, strayed>>

\* struct timer *it = first_timer
InsertIt(c) ==
  /\ At(c, "it")
  /\ it' = Set(it, c, first_timer) /\ Goto(c, "prev")
  /\ Reads(c) /\ UNCHANGED <<prev, strayed, fault>>

\* struct timer *prev = first_timer
InsertPrev(c) ==
  /\ At(c, "prev")
  /\ prev' = Set(prev, c, first_timer)
  /\ Goto(c, IF it[c] = Null THEN "link" ELSE "walk")
  /\ Reads(c) /\ UNCHANGED <<it, strayed, fault>>

\* A walk that has come to a timer that was freed.
Dangling(c) == it[c] \notin heap

ReadFreed == fault' = "freed" /\ UNCHANGED <<pc, prev, it, strayed>>

\* it->timeout <= t->timeout
InsertTest(c) ==
  /\ At(c, "walk")
  /\ IF Dangling(c)
     THEN ReadFreed
     ELSE /\ Goto(c, IF timeout[it[c]] <= timeout[t[c]] THEN "step" ELSE "link")
          /\ UNCHANGED <<prev, it, strayed, fault>>
  /\ Reads(c)

\* prev = it; it = it->next
InsertStep(c) ==
  /\ At(c, "step")
  /\ IF Dangling(c)
     THEN ReadFreed
     ELSE /\ prev' = Set(prev, c, it[c]) /\ it' = Set(it, c, next[it[c]])
          /\ Goto(c, IF next[it[c]] = Null THEN "link" ELSE "walk")
          /\ UNCHANGED <<strayed, fault>>
  /\ Reads(c)

\* first_timer = t, the list having been empty.
InsertEmpty(c) ==
  /\ At(c, "empty")
  /\ Store(c, "run", first_timer = Null, first_timer' = t[c] /\ UNCHANGED next)
  /\ Undisturbed

\* t->next = first_timer
InsertHead(c) ==
  /\ At(c, "head")
  /\ Store(c, "first", first_timer = Null \/ timeout[t[c]] <= timeout[first_timer],
           next' = [next EXCEPT ![t[c]] = first_timer] /\ UNCHANGED first_timer)
  /\ Undisturbed

\* first_timer = t. The timer that was the first may be another one by now, at the
\* same address.
InsertFirst(c) ==
  /\ At(c, "first")
  /\ Store(c, "run", /\ first_timer = next[t[c]]
                     /\ first_timer = Null \/ timeout[t[c]] <= timeout[first_timer],
           first_timer' = t[c] /\ UNCHANGED next)
  /\ Undisturbed

\* prev->next = t: what follows is off the list until t->next is set. The list may
\* have been empty when prev was read.
InsertLink(c) ==
  /\ At(c, "link")
  /\ IF prev[c] = Null
     THEN fault' = "null" /\ UNCHANGED <<listVars, localVars, strayed>>
     ELSE Store(c, "next", /\ prev[c] \in ToSet(List) /\ next[prev[c]] = it[c]
                           /\ timeout[prev[c]] <= timeout[t[c]]
                           /\ it[c] = Null \/ timeout[t[c]] <= timeout[it[c]],
                next' = [next EXCEPT ![prev[c]] = t[c]] /\ UNCHANGED first_timer)
  /\ Undisturbed

\* t->next = it, unless something was inserted behind t meanwhile.
InsertNext(c) ==
  /\ At(c, "next")
  /\ Store(c, "run", next[t[c]] = Null,
           next' = [next EXCEPT ![t[c]] = it[c]] /\ UNCHANGED first_timer)
  /\ Undisturbed

\* struct timer *it = first_timer; timer_delete does nothing when the list is empty.
DeleteFind(c, x) ==
  /\ At(c, "run") /\ x \in own[c]
  /\ it' = Set(it, c, first_timer)
  /\ Goto(c, IF first_timer = Null THEN "run" ELSE "check")
  /\ t' = Set(t, c, x)
  /\ own' = [own EXCEPT ![c] = @ \ {x}]
  /\ Undisturbed /\ UNCHANGED <<listVars, prev, strayed, fault>>

\* if(t == first_timer)
DeleteCheck(c) ==
  /\ At(c, "check")
  /\ IF first_timer = t[c]
     THEN Goto(c, "unlink_first") /\ strayed' = strayed \ {c}
     ELSE Goto(c, "behind") /\ UNCHANGED strayed
  /\ Reads(c) /\ UNCHANGED <<prev, it, fault>>

\* struct timer *prev = first_timer
DeletePrev(c) ==
  /\ At(c, "behind")
  /\ prev' = Set(prev, c, first_timer)
  /\ IF it[c] = t[c]
     THEN Goto(c, "unlink") /\ strayed' = strayed \ {c}
     ELSE Goto(c, "search") /\ UNCHANGED strayed
  /\ Reads(c) /\ UNCHANGED <<it, fault>>

\* prev = it; it = it->next. timer_delete reads through it when it is NULL.
DeleteStep(c) ==
  /\ At(c, "search")
  /\ IF Dangling(c)
     THEN ReadFreed
     ELSE LET n == next[it[c]] IN
          /\ prev' = Set(prev, c, it[c]) /\ it' = Set(it, c, n)
          /\ Goto(c, IF n = t[c] THEN "unlink" ELSE "search")
          /\ fault' = IF n = Null THEN "null" ELSE fault
          /\ strayed' = CASE n = t[c] -> strayed \ {c}
                          [] n # t[c] /\ Unset(it[c]) -> strayed \union {c}
                          [] OTHER -> strayed
  /\ Reads(c)

\* first_timer = first_timer->next
UnlinkFirst(c) ==
  /\ At(c, "unlink_first")
  /\ Store(c, "free", first_timer = t[c], first_timer' = next[first_timer] /\ UNCHANGED next)
  /\ Undisturbed

\* prev->next = it->next
Unlink(c) ==
  /\ At(c, "unlink")
  /\ Store(c, "free", prev[c] \in ToSet(List) /\ next[prev[c]] = t[c],
           next' = [next EXCEPT ![prev[c]] = next[t[c]]] /\ UNCHANGED first_timer)
  /\ Undisturbed

Free(c) ==
  /\ At(c, "free")
  /\ FreeTimer(t[c], next)
  /\ Goto(c, "run")
  /\ t' = Set(t, c, Null)
  /\ UNCHANGED <<ticks, first_timer, cur_task, asleep, prev, it, own, strayed, fault>> /\ Quiet

ClientStep(c) ==
  \/ InsertFind(c) \/ InsertCompare(c) \/ InsertIt(c) \/ InsertPrev(c)
  \/ InsertTest(c) \/ InsertStep(c)
  \/ InsertEmpty(c) \/ InsertHead(c) \/ InsertFirst(c) \/ InsertLink(c) \/ InsertNext(c)
  \/ DeleteCheck(c) \/ DeletePrev(c) \/ DeleteStep(c)
  \/ UnlinkFirst(c) \/ Unlink(c) \/ Free(c)

Next ==
  \/ \E c \in Tasks : Run(c) \/ \E n \in Sleeps : Sleep(c, n)
  \/ Tick(cur_task) \/ Tick(NoTask) \/ TickWake
  \/ \E c \in Clients :
       \/ \E n \in Callbacks : Create(c, n)
       \/ \E x \in own[c] : DeleteFind(c, x)
       \/ ClientStep(c)

Spec == Init /\ [][Next]_timersVars

\* Timer interrupts go on and slices end, every task that can run is given the
\* hart again (StarvationFree of Sched), and whoever has it goes on with the
\* call it is in.
FairSpec ==
  /\ Spec
  /\ WF_timersVars(TickWake \/ Tick(NoTask))
  /\ \A c \in Tasks : SF_timersVars(Run(c))
  /\ \A c \in Clients : SF_timersVars(ClientStep(c))

-----------------------------------------------------------------------------
(***************************************************************************)
(* Properties.                                                             *)
(***************************************************************************)

\* Something was inserted behind a timer whose t->next is still to be set.
Clash == \E c \in Splicing : next[t[c]] # Null

\* The list as it will be once every t->next that is still to be set is set.
Whole ==
  ListFrom(first_timer, [x \in Pointers |->
    IF \E c \in Splicing : t[c] = x
    THEN it[CHOOSE c \in Splicing : t[c] = x] ELSE next[x]])

\* The timers that some client has yet to link, or has unlinked.
Aside == {t[c] : c \in {c \in Clients :
            pc[c] \in {"insert", "compare", "it", "prev", "walk", "step", "empty",
                       "head", "first", "link", "free"}}}

\* The types, and nothing is allocated but the timer of each sleeping task and
\* the timers of the clients.
TimersTypeOK ==
  /\ ticks \in 0..MaxTicks
  /\ first_timer \in Pointers /\ next \in [Pointers -> Pointers] /\ next[Null] = Null
  /\ cur_task \in (Tasks \ asleep) \union {NoTask}
  /\ \A c \in Clients : t[c] \in Pointers /\ own[c] \subseteq heap
  /\ \A c \in asleep : Cardinality({x \in heap : sleeper[x] /\ task[x] = c}) = 1
  /\ \A x \in heap : ~sleeper[x] =>
       \E c \in Clients : x \in own[c] \/ (t[c] = x /\ pc[c] # "run")

\* As long as no store was stale, the list holds every timer once, in the order
\* of their timeouts, and nothing that was freed: a store between another's
\* search and store does no harm when it is somewhere else in the list.
ListIntact ==
  fault = "none" /\ ~Clash =>
    /\ ToSet(Whole) = heap \ Aside
    /\ \A i, j \in 1..Len(Whole) :
         i < j => Whole[i] # Whole[j] /\ timeout[Whole[i]] <= timeout[Whole[j]]

\* A NULL pointer is followed by timer_create alone, which reads the first timer
\* again after it has found one, unless the search of timer_delete went on from a
\* timer that had left the list, or whose t->next was still to be set: from any other
\* timer it finds its own, though others insert and delete around it. And timer_check
\* never calls the NULL func of a sleep.
NullExplained ==
  fault = "null" =>
    \E c \in Clients : cur_task = c /\ (pc[c] \in {"compare", "link"} \/ c \in strayed)

\* timer_check wakes one sleeper and goes no further, yet a callback that is due
\* is called at every tick after as many as there are tasks, counted from its
\* timeout or from the last tick that found the list cut in two: no sleep gets in
\* front of it any more. The code calls it whether or not the task of its timer is
\* SLEEPING; the comment at timer.h:21-23 says that func is not executed while it is.
CallbackBound ==
  [][ticks' # ticks =>
       \A x \in ToSet(List) :
         (/\ ~sleeper[x]
          /\ timeout[x] + Cardinality(Tasks) < ticks'
          /\ cut + Cardinality(Tasks) < ticks') => x \in called']_timersVars

\* Who sleeps is woken, though clients may hold the list cut in two for a while,
\* unless a stale store has torn it.
SleepersWake == \A c \in Tasks : c \in asleep ~> (c \notin asleep \/ fault # "none")

=============================================================================
