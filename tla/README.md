# XinOS: specifications, checks and proofs

XinOS is a small teaching kernel for one RISC-V hart (RV64, QEMU virt):
preemptive tasks with priorities, a tick timer, sleep as a system call, a page
and block allocator, a spin lock, and a UART console. This directory holds TLA+
models of `src/os`, the TLC configurations that check them, and TLAPS proofs
about them. `PROJECT.json` lists components, runs, mutants, hazards and theorems,
and maps every definition to the lines it stands for.

Run everything from this directory: `tlc -config MCSched.cfg MCSched`, `tlapm SchedProofs.tla`.

## 1. Inventory

| component | code | state | operations |
|---|---|---|---|
| Scheduler | `sched.c`, `user_init` | list `first_task`, `_tasks_num`, `cur_task`, `os_task`; `state`, `priority`, stack of each task | `task_create`, `insert_task`, `pop_task`, `schedule`, `task_yield`, `task_delay`, `task_exit`, `back_os` |
| Clock and timers | `timer.c` | `_ticks`, `_cur_task_start_tick`, list `first_timer`, `timeslice` of each task | `timer_handler`, `timer_check`, `timer_create`, `timer_delete` |
| Page allocator | `page.c` | one flag byte per page | `page_init`, `page_alloc`, `page_free` |
| Block allocator | `page.c` | block flags and a 10-bit usage count at the end of each managed page | `malloc`, `free` |
| Traps, system calls, switch | `entry.S`, `trap.c`, `syscall.c`, `usys.S` | registers, `mstatus`, `mepc`, `mscratch`, one context for each flow | `trap_vector`, `trap_handler`, `do_syscall`, `switch_to`, `mret` |
| Spin lock | `lock.c`, `user.c` | one word | `lock_acquire`, `lock_free`; `basic_lock`, `basic_unlock` (no caller) |
| PLIC and UART | `plic.c`, `uart.c` | device registers | `plic_init`, claim, complete, `uart_ier`, `uart_putc`, `uart_puts` |
| Console | `printf.c` | one static buffer | `printf`, `panic` |
| Start-up | `start.S`, `mem.S`, `os.ld` | `mstatus`, bss, stack pointer | |
| Test drivers, `memcpy` | `page.c`, `string.c` | | `page_test`, `malloc_test`, `printPageInfo` (no caller) |
| Exercises | `src/exercise` | no part of the kernel | |

**How they interact.** There is one thread of control and one place where it
branches: the trap. `task_yield` raises the software interrupt; its handler
calls `schedule`, which pops a task, queues it again one priority lower, and
leaves with `switch_to`. The timer interrupt calls `timer_handler`, which may
wake a sleeper or end a slice, and both leave through `back_os` into the loop of
`kernel()`, which yields at once. The `sleep` system call creates a timer
(`malloc`) and marks `cur_task` SLEEPING; `timer_handler` deletes that timer
(`free`). `task_create` and `task_exit` also use `malloc` and `free`. Tasks run
with interrupts on and share the run queue, the timer list, the allocator's
tables, the printf buffer and the lock with the trap handlers.

**What is hard.** Code inside a trap is atomic (MIE is clear); code outside is
not, and `task_exit`, `timer_create`, `timer_delete`, `malloc`, `free` and `printf`
all run outside as well. `cur_task`, `mscratch` and the flow that really
executes are three notions of "current" that handlers change at different moments. One
counter (`_tasks_num`) bounds the tasks, indexes their stacks and guards
`insert_task`. Flags that are OR-ed into tables outlive what they described
unless they are cleared. The assembly differs between RV32 and RV64.

**What makes each part correct.**

- *Scheduler*: the queue is sorted, without duplicates or freed memory; the
  count agrees with it; the task on the hart is `cur_task`; the best ready task
  is picked, equals take turns, nobody starves; stacks are not shared.
- *Clock*: a sleeper has exactly one timer and is woken in order, not early, and
  boundedly late; a slice bounds how long a task keeps the hart. The list of
  timers survives tasks that create and delete timers of their own, or it is
  known what it does not survive.
- *Allocators*: allocations are disjoint, a free gives back what it should and
  nothing else, nothing leaks, a page is given back with its last block.
- *Traps*: an interrupted flow cannot tell that it was interrupted; interrupts
  are masked in traps and on outside of them; the kernel is in machine mode.
- *Lock*: mutual exclusion, and a preempted holder gets to free the lock despite
  priorities.
- *Console, UART*: `uart_puts` stays inside the buffer whatever mixture of
  messages it finds there, an undisturbed `printf` sends what its format means,
  every key is read.

## 2. Modules

| module | models | notes |
|---|---|---|
| `Sched` | scheduler | parameters: tasks, priorities, limits. `task_exit` is five actions, everything in a trap is one |
| `Kernel` | `Sched` + clock and sleep timers | EXTENDS `Sched`; each action is an action of `Sched` plus its effect on ticks, slices, timers; `RefinesSched` |
| `Lock` | `Sched` + spin lock and its users | EXTENDS `Sched`; the instructions of the lock are steps of the task that runs |
| `Timers` | timer list with callbacks | `timer_create`, `timer_delete` of tasks statement by statement against `timer_handler` |
| `Regions` | abstract | a set of disjoint page regions |
| `PageAlloc` | page allocator | implements `Regions` (`RefinesRegions`) |
| `Malloc` | block allocator | EXTENDS `PageAlloc` and uses its flag operators |
| `Flows` | abstract | each flow is a sequential program with registers of its own |
| `Trap` | trap entry and exit, system calls, switch, boot | implements `Flows` (`RefinesFlows`) |
| `Console` | `printf`, UART driver, PLIC, the device | accesses to the shared buffer and to the UART are steps |
| `MCSched`, `MCKernel`, `MCLock`, `MCTimers`, `MCPageAlloc`, `MCMalloc`, `MCTrap`, `MCConsole` | | values of the constants for TLC |
| `ListLemmas` | | facts about `Min`, `InsertAt`, `RemoveAt`, `ToSet`, and induction on naturals as a fact about sets |
| `SchedProofs`, `KernelProofs` (also about `Lock`), `TimersProofs`, `PageAllocProofs`, `MallocProofs`, `TrapProofs`, `ConsoleProofs` | | theorems |

Operators called `Bug_X` are `X` with a plausible programming error. No
specification uses them; with `Bug_X` put in the place of `X`, TLC finds the
property it is paired with in `PROJECT.json` violated.

### Sched

`first_task` is the list along `->next` as a sequence. `priority`, `state`,
`stack` are the fields of `struct taskInfo` as functions on `Tasks`, the addresses at which `malloc`
may place one; `heap` is the set of addresses in use. `running` is whose
context is on the hart, which the code knows only through `mscratch`. `msip` is
the pending software interrupt: while it is set no context can execute an
instruction (`CanStep`), so raising it and being switched are two actions with only
interrupt handlers between them. `InsertTask`, `PopTask` are `insert_task` and
`pop_task`, including the check that makes `insert_task` refuse a task when the
queue is empty and the count is not, and the result that `pop_task` ignores.

`task_exit` runs in the task with interrupts on: `ExitFind` (152, 160-165),
`ExitUnlink` (154 or 166), `ExitFree`, `ExitCount`, `ExitYield`. Between any two,
`TimerPreempt` and `TimerWake` may take the hart away. A task preempted before
its unlinking is still in the queue and goes on later; one preempted after it is
never scheduled again, and what it had not yet done stays undone. When the queue has
changed since the search, `ExitUnlink` does the store that the code does (`Spliced`):
tasks between `prev` and `cur_task` leave the queue with it, or `cur_task` stays in the queue. The task
then goes on: it frees itself, counts itself down, and yields. `stale` remembers
that this has happened. The model stops (`fault`) only where the code has no defined
continuation: a NULL pointer followed ("null"), `prev->next` set to what leads back to `prev` ("cycle"), a
freed `struct taskInfo` read or written by `task_exit` or by `pop_task` ("freed"; `ScheduleFreed`,
where `PopReads` is what `pop_task` looks at). Four history variables serve the
properties only: `alive`, `leaked`, `stale`, and in `Kernel` `run_start`.

### Kernel

Every timer interrupt is one `Tick`, in the four outcomes of `timer_handler`:
the first timer is due (`TickWake`), no task is current (`TickIdle`), the slice is over
(`TickSlice`), nothing changes (`TickRun`). The timers are those of `sleep`, created and deleted
inside a trap. `KSpec` has to satisfy `Sched`'s `Spec`: what
`timer_handler` does is one of the preemptions and wake-ups `Sched` allows
at any time, so the invariants of `Sched` carry over.

### Lock

A locker is a task that runs the loop of `user_task2` and `user_task3`:
`lock_acquire`, `lock_free`, `sleep`. `atomic_swap` is one `amoswap`; the test of
what it returned is another step, so that the hart can change hands between the two. `Lock`
adds the instructions of lockers to the scheduler (a step of a locker needs
`running = t`) and leaves the scheduler as it is.

### Timers

The other view of `timer.c`: the list pointer by pointer (`first_timer`, `next`), with
the timers of sleeps and with timers that have a callback. `Sleep`,
`Tick` and `TickWake` are the whole handlers. `Tick` calls every callback that is due,
and `TickWake` stops at the first sleeper; a callback is not removed and is called
again at the next tick. Three history variables serve the properties: `called`, the
callbacks of this tick; `cut`, the last tick that found a client between
`prev->next = t` and `t->next = it`, 0 again after a tick that found the list whole and no
sleep over; and `strayed`, the searches of `timer_delete` that went on from a timer that had left the list or had its
`next` still to be set. A client runs `timer_create` and `timer_delete` with
interrupts on: each of its statements that reads or writes the list is a step, and so is each turn of a walk,
with `pc`, `t`, `prev`, `it` as its local variables (`InsertFind` 120, `InsertCompare` 125, `InsertIt` 131, `InsertPrev` 132,
`InsertTest` 133, `InsertStep` 135-136, the stores at 122, 127, 128, 138, 139; `DeleteFind` 171, `DeleteCheck` 174, `DeletePrev` 180,
`DeleteStep` 181-185, the stores at 176 and 186). The loads of one statement and its store are one step. The scheduler is reduced to
what `Sched` promises: a task that is awake may be given the hart.

A store whose premise has been overtaken (`prev` unlinked, another timer
inserted meanwhile, or the timer at that address freed and the address used for
another one that is due at another time) leaves a list for which the code has no defined meaning; the
model stops there with `fault = "list"`. It stops with `"null"` where a NULL pointer
is followed, and with `"freed"` where a walk reads a timer that was freed meanwhile and not allocated again;
when it was allocated again the walk goes on through whatever the timer is now. `ListIntact` says what the list is
as long as no store was stale, `NullExplained` where NULL can be followed.

### PageAlloc and Malloc

`flags` is the byte of each page as the set of its 1 bits. `Fits`, `Marked`,
`Closed`, `Stop`, `Cleared` are the search and the marking of `page_alloc`,
and the repair of the left neighbour and the clearing loop of `page_free`.
`last` is the last call of `page_alloc` and its result, so that `Regions` can
say when NULL is allowed. `Malloc` adds the block tables and counts of managed pages and measures
everything in blocks. `found` is what a small `malloc` has found when it is
interrupted between its search and its stores (486), and `emptied` the page that a `free` has found without a block in use when it is
interrupted between that check and giving the page back (`FreeCheck` up to 637, `FreeResume` 639-640); `FreeBlocks` is the
`free` that nothing interrupts. Two history variables serve the properties: `live`,
the allocations that clients hold, and `harm`, which of these things have
happened to the memory: a search placed a request over a block in use
("overlap"), an interrupted `malloc` went on with what was taken meanwhile
("race"), an interrupted `free` gave back a page that is in use again or managed no longer ("release"), a `free` of pages that end in a managed one read the table of the last page
from the first ("tail"), and its loop, which only what it reads can stop, ran on into the table of the last page and
cleared blocks there (`Swept`, "sweep"). Behaviours are followed up to the first state in which an owner no
longer owns its memory (`Sound`). `CountWidth` stands for 2^10.

### Trap

`pc` is an instruction of a flow or a place in the kernel's code. `trap_vector`
is split at the call of `trap_handler` (`SaveContext`, the handler, `ReturnFromTrap`),
`switch_to` into its three effects, because `start_kernel` runs it with
interrupts on. `schedule` and `timer_handler` may choose any outcome. Three
registers stand for all: `a0`, `t5`, `t6`. `RefinesFlows` maps the hart and the saved contexts
to what each flow sees: its live registers while it executes
or is being saved, its saved ones otherwise. `Instruction` is any
client instruction; `Exception` is an `ecall` or an unknown exception.

Initially `mstatus.MPP` is either mode: `start.S:65` ORs the bits into `a1`, which
holds an address, and not into `a0`, which holds `mstatus`.

### Console

`Formatted` is what the two passes of `_vprintf` make of a format and its
arguments, character by character, with the numbers of `%d`, `%x`, `%p` spelled
out as the code does. A `printf` in a task is the check of the length, one step for each
character written to `out_buf`, then in `uart_puts` the test of a character, its
load (a second read), the poll of the line status and the write. `Tick` is the
trap of the timer, which prints the time into the same buffer and may give the hart to another
task that is in the middle of its own `printf`. The UART interrupt is
`Claim`, `Getc`, `Echo`, `Complete`, with the device acting in between
(`Transmit`, `Receive`). The device is modelled from how the driver uses it.

## 3. Runs

| run | instance | distinct states | shows |
|---|---|---|---|
| `sched` | 4 tasks, room for 3, priorities 1 and 3 (limit 3), 2 exit | 136 k (symmetry) | `TypeOK`, `QueueSorted`, `QueueSound`, `CounterDrift`, `LostOnlyAfterDrift`, `RunningIsCurrent`, `StacksDistinct`, `PicksHighest`, `TurnsRotate` |
| `sched_unlink` | 2 tasks, 1 exits | | **violation** of `UnlinkLinksNeighbours` |
| `kernel` | 3 tasks, slices 1 and 2, sleeps 0 and 2, 4 ticks, 1 exits | 1.7 M (symmetry) | `KTypeOK`, `SleepersQueued`, `LatenessBound`, `SliceBound`, `WakesEarliest`, `RefinesSched` |
| `lock` | 3 tasks, 2 of them lockers, priorities 1 and 3, fair | 76 k | `LockTypeOK`, `MutualExclusion`, `LockReleased`, `StarvationFree` |
| `timers` | 2 tasks, both with a callback timer (timeout 0), sleeps 0 and 1, 4 timers, 3 ticks, fair | 294 k | `TimersTypeOK`, `ListIntact`, `NullExplained`, `CallbackBound`, `SleepersWake` |
| `page_alloc` | 5 pages, all sizes 0..6, all pages -1..5 | 1.1 k | `PageTypeOK`, `RunsEnd`, `RunsBegin`, `RefinesRegions` |
| `malloc` | 3 pages of 2 blocks (4 if unmanaged), sizes 1, 2, 3, 5, 6, 7, 9, freed anywhere, interrupted | 818 k | `MTypeOK`, `NoOverlap`, `LossExplained`, `UsageExact`, `NoLeak` |
| `malloc_shared` | 4 pages of 4 blocks (6), sizes 1 and 2, freed from the start, not interrupted | | **violation** of `LiveTaken` |
| `trap` | kernel and 1 task, loops of 2 instructions, all registers but `t6` | 401 k | `TrapTypeOK`, `MaskedOnlyInTraps`, `KernelInMachineMode`, `RefinesFlows` |
| `trap_t6` | the same, `t6` promised as well | | **violation** of `RefinesFlows` |
| `trap_boot` | the same, fair | | **violation** of `KernelStarts` |
| `console` | 2 tasks, buffer of 6, 3 formats, fair | 304 k | `ReadsInside`, `CleanPrint`, `KeysRead` |

**Why these bounds are enough to be interesting.**

- *Sched*: three tasks in the queue give a head, a middle and a last element
  to remove and to insert at; two priorities two apart, with the limit at the
  larger, give equals, overtaking by aging and the point where aging stops; a
  fourth task meets a full table; two exiting tasks can be inside `task_exit` at the same
  time. `MaxPriority` is 256 and `MaxTaskNum` 10 in the code; only their order
  relative to the priorities and to the number of tasks matters, and the theorems hold for all values.
- *Kernel*: `MaxTicks = 4` lets three tasks sleep for two ticks, be due
  together, and be woken on successive ticks, while a slice of two elapses.
  `MaxTicks` is a bound of the model; the overflow of `_ticks` (32 bits, years at
  one tick a second) is out of scope.
- *Lock*: two lockers contend and a third task has a priority of its own in
  between; the priorities are apart by two, so that a spinner of high priority must be lowered
  more than once before the holder runs.
- *Timers*: a client's walk and stores meet a second client's, a wake-up and
  a sleep of the other task; with two sleeps and two callbacks (`MaxOwn` 1) the list has a
  head, a middle and an end. A sleep of 1 stays behind callbacks that are due and one of 0 is among them, so that insertion at the head, in the middle and at
  the end, walks that a wake-up overtakes, and addresses that are used again all occur within three ticks. At `MaxTicks` the clock stands still but interrupts go on, so
  that what is due is still called and woken; new timers must be due by then.
- *PageAlloc*: five pages hold every pattern of regions that touch, are cut, or
  are separated by a gap; the theorems hold for any number.
- *Malloc*: `Table` and `PageBlocks` keep the inequality of the code (a managed
  page has fewer blocks than a whole page); the sizes are: blocks of a page,
  more than a managed page allows, pages with a tail that goes into a managed page,
  whole pages. One task is interrupted at a time, and others do whole calls meanwhile. `CountWidth` is scaled with the page as the code's 1024 is with its
  blocks. `malloc_shared` has four blocks a page so that a request of two can meet
  a taken block behind a free one.
- *Trap*: flows share only the hart and `mscratch`; one task and the
  kernel exchange them in every way two flows can. Two instructions are enough to tell
  "returned once, past the ecall" from "returned to it again".
- *Console*: a number that expands to the longest message that fits, a short
  string, and a string whose terminator would be the first character behind the buffer; two
  tasks and the tick, each in the middle of another's message.

Deadlock is checked where the system can always go on (`lock`, `page_alloc`,
`console`) and switched off where it really stops: at `fault` in `Sched`, `Kernel` and
`Timers` and at the end of `Kernel`'s clock, at `panic` in `Trap`, at the first broken owner in
`Malloc`.

**Fairness.**

- `Lock`: weak fairness of `KernelYield` (the loop of `kernel()`), of
  `ScheduleOs`, `ScheduleTask` (a pending software interrupt is taken when
  interrupts are on, which `MaskedOnlyInTraps` says they are), and of
  `TimerPreempt` (`timer_handler` reloads `mtimecmp` each time, and slices end). A
  locker that has the hart again and again executes again and again (strong
  fairness of its steps): ticks are a second apart. The other tasks owe nothing.
  A single spinner is not promised the lock: the word may be set each time it looks.
- `Timers`: timer interrupts go on and slices end (weak fairness of
  `TickWake \/ Tick(NoTask)`); every task that can run is given the hart again and
  again (strong fairness of `Run`, which is what `StarvationFree` shows of the scheduler), and one that
  has it goes on with the call it is in (strong fairness of `ClientStep`).
- `Console`: the UART sends, a pending interrupt is taken, and the handler goes on
  to its end (weak fairness of `Transmit`, `Claim`, `Getc`, `Echo`, `Complete`).
  Tasks and ticks owe nothing.
- `Trap`: weak fairness of `Execute`, the hart executes. `KernelStarts` also
  assumes that interrupts stop.

## 4. Proofs

Everything below is for any values of the constants that satisfy the named
`ASSUME` of the module; further assumptions are part of the theorem.

**`SchedProofs`.** `Invariance == Spec => []Inv` with `Inv` = `TypeOK`, `QueueSorted`,
`QueueSound`, `CounterDrift`, `LostOnlyAfterDrift`, `RunningIsCurrent`, `ExitPhases`.
What `QueueSound` says of freed tasks, `CounterDrift` and `LostOnlyAfterDrift` are conditional on `~stale`; the rest
holds whatever stores of `task_exit` were stale: they leave a part of the queue in its order.
None is inductive alone: sortedness needs the queue's tasks to be distinct
(or aging one position changes another), unlinking in `task_exit` needs
`cur_task` to be the running task, and `CounterDrift` needs `ExitPhases`: as long as no store was stale, a
task that is not on the hart is never past its unlinking. From it `TypeCorrect`,
`QueueAlwaysSorted`, `QueueAlwaysSound`, `CounterDriftExact`, `LostOnlyByDrift`,
`RunningAlwaysCurrent`, and the action properties `AlwaysPicksHighest` and
`TurnsAlwaysRotate`. `StacksAlwaysDistinct` needs `StackInv`: a task's stack is the count at its
creation, and nobody exits before the last creation. There is one lemma for each
action; `InsertTaskProperties` and `PopTaskProperties` say once what the queue operations do, from `ListLemmas`.

**`KernelProofs`.** `KernelImplementsSched` (`KSpec => RefinesSched`): every step with the clock is a step
of `Sched` or leaves its variables alone, hence all of the above holds of the
kernel. `KInv` = `Inv`, `TimersInv` (the list is sorted and holds each sleeping task once at most)
and `ClockInv` (a slice counts from no later than the switch). From it
`ClockTypeCorrect`, `SlicesBounded`, `AlwaysWakesEarliest`.
`SleepersAlwaysQueued` assumes that fresh memory does not say SLEEPING (a task
created so has no timer). `LatenessBounded` assumes finitely many tasks; its invariant bounds a timer's
lateness together with its place in the list, because each tick wakes one.

About `Lock`, in the same module: `OneHolder`, types and mutual exclusion are inductive together, the latter
with "the word is set exactly while somebody holds the lock". `LockImplementsSched`: `LSpec => Spec`.

**`TimersProofs`.** While clients are in the middle of their stores the list is
not a list, and no invariant about a sequence is inductive. What every store
keeps is a tree: the linked timers (`heap \ Aside`) with two kinds of edges,
`t->next`, and the local variable `it` of a client that has done `prev->next = t`
and not yet `t->next = it` (`Later`). Edges lead to timers that are due no
earlier, each timer but the first is the end of exactly one edge, and there is a
rank that grows along them, which rules out cycles (`LinkedTree`). Each store is one operation
on such trees (`TreeFirst`, `TreeLink`, `TreeJoin`, `TreeBehead`, `TreeUnlink`), and whatever somebody else does in
between is another one, so the interleavings need no case of their own.
`TimersInv` adds `Owned` (a timer belongs to one sleep, or to one client, which alone works
on it: this is why nobody else frees or links it), `Sleeping` (sleeping tasks and timers of sleeps
are one to one) and `LateBound`.

- `ListAlwaysIntact`: where no `t->next` is outstanding in conflict, the tree has one edge for each
  timer, so that the walk from `first_timer` is sorted, ends, and meets all of them (`ListFromCovers`, `WalkEnds`).
- `NullAlwaysExplained`: a search that has not `strayed` stands at a linked timer from which every path of
  the tree leads to the timer it looks for (`OnCourse`, `Course`, `Leads`), so that the next pointer it follows is not NULL: whatever others
  link and unlink meanwhile keeps such paths, and whoever unlinks the timer the search stands at, or leaves its
  `next` unset, makes it stray.
- `TimersTypeCorrect` includes that `malloc` finds room (`RoomForOne`): the sleeping tasks are fewer
  than the tasks, since one of them has the hart.
- `CallbacksBounded` and `SleepsEnd`: for every tick `m` since the last cut, the sleeps that were late by `m`
  and the ticks since `m` are together no more than the tasks (`LateBound`), as each tick ends
  the earliest sleep. `SleepsEnd` is the safety half of `SleepersWake`: no sleep outlasts
  its timeout, or the last cut, by as many ticks as there are tasks.

`ListFrom` follows the pointers with a recursive function; that it is defined
(`WalkProperties`) is shown by induction, as a fact about sets of naturals (`NatSetInduction`).

**`PageAllocProofs`.** `PageInvariance`, `PageTypeCorrect`, `RunsAlwaysEnd`,
`RunsAlwaysBegin`: the two run properties need one another and the fact that a
free page has no flags. From them every taken page lies in exactly one region,
and `FlagsImplementRegions` (`Spec => RefinesRegions`): `page_alloc` and `page_free` do to the
regions what `Regions` says.

**`MallocProofs`.** Three invariants, one inside the other. `TypesInv` gives `MallocTypeCorrect`.
`CountInv` adds `NoOverlap` and `UsageExact` (`OwnersApart`, `UsageAlwaysExact`): that a
`free` lowers the count by exactly what it clears needs the type invariant, and that
owners stay apart needs that what an owner frees is what it keeps nothing of. `NoOverlap` holds until a
"overlap" or a "race", `UsageExact` also ends with a "release" or a "sweep"; the count is 0 only for the page `emptied`.
`MemInv` adds: while no harm was done (`harm = {}`) a page or block is taken exactly if it
has an owner, the LAST flags are exactly where the pages and the blocks of owners
end, and a run of blocks or pages stays with one owner. Therefore a `free` clears what its caller has from there
on and nothing else (`ClearMem`), and giving back a page that is still empty takes nothing from anybody
(`ReleasedMem`, `FreeResumeMem`), which gives `LossAlwaysExplained` and `NothingLeaks`.

**`TrapProofs`.** `TrapInvariance` with `AlwaysMaskedInTraps`, `TrapTypeCorrect`,
`KernelAlwaysInMachineMode`; the invariant relates `mscratch`, the saved contexts,
`mstatus` and the place of the hart, including traps that hit `start_kernel` inside
`switch_to`. `FlowsUndisturbed` (`Spec => RefinesFlows`) assumes `"t6" \notin Seen`,
and without that it is false (run `trap_t6`).

**`ConsoleProofs`.** `AlwaysReadsInside`, for every buffer size and all formats: the last cell is a terminator
that nobody writes to, and a task that has tested a character stands in front
of it. What a format expands to is left open; only its length counts. `CleanlyPrinted`: the invariant
follows an undisturbed message through the buffer (`Holds`: the cells that are written are the
message; `Given`: the characters that were sent are its first ones). Its assumption `Plain` says that
`Formatted` yields what the format means, for the formats that fit and that tasks really
use; it fails for `%d` of 0, for instance. It holds of the formats of the
run `console`, where each is printed undisturbed in some behaviour.

**Only model-checked**: liveness (`StarvationFree`, `LockReleased`, `SleepersWake`,
`KeysRead`; `KernelStarts` is refuted), which is out of the prover's reach, and what
`Formatted` yields for a given format, a fold over its characters. Every other property of the
passing runs is a theorem.

## 5. What the checks found

Violations:

1. `sched_unlink`: `task_exit` looks for its predecessor and unlinks itself with
   interrupts on. A preemption between the two lets `pop_task` reorder the list,
   and the store through the stale `prev` drops tasks, leaves `cur_task` in the queue, where it is then freed, or closes a
   cycle (`sched.c:158-166`). `task_exit` goes on all the same and counts down by one.
2. `malloc_shared`: the search for free blocks tests the first block twice and
   the last never (`page.c:452`), so a request of two blocks may be placed over a
   block in use.
3. `trap_t6`: `reg_restore` does not load `t6` on RV64 (`entry.S:139`).
4. `trap_boot`: a device interrupt inside the first `switch_to` overwrites the
   saved `pc` of the kernel's context; the kernel never starts (`sched.c:180`).

The properties that pass delimit the rest:

- `QueueSound`, `CounterDrift` and `LostOnlyAfterDrift` hold as long as no store of `task_exit` was stale (violation 1): after one
  the queue may hold freed memory, and tasks may be missing from it with the count as it was. Until then they say
  what a preemption later in `task_exit` costs: `_tasks_num` stays one too high for each such task, which takes up a
  place in the table for good, and once the queue holds a single task, `insert_task` refuses it
  and that task is lost at its next preemption.
- `LatenessBound`: as `timer_check` wakes one task per tick, a wake-up may be late
  by as many ticks as there are other sleepers. `CallbackBound` is the same for
  callbacks behind sleepers. `CallbackBound` starts to count again at a tick that finds the list
  cut in two by a client: that tick comes to nothing behind the cut.
- `ListIntact`: a task inside `timer_create` or `timer_delete` when a
  tick or another task changes the list may tear it by a stale store, also where the address it rests on
  has been freed and allocated again. As long as no store was stale the list is intact, and while it is whole but cut in two,
  sleepers behind the cut wait and are woken later.
- `NullExplained`: `timer_create` may follow NULL in two places, at `timer.c:125` when a wake-up has emptied the list since
  120, and at 138 when it has done so before 132. `timer_delete` may follow it at 186 when its search has gone on from a timer that had left the list
  (freed, or used again at the end of the list) or that somebody was still linking. The same walks may read freed memory (`fault = "freed"`).
- `LossExplained`: with calls interrupted at the two places modelled, memory is lost to an owner only after one of these: the search of
  `page.c:452`; a `malloc` interrupted between its search and its stores, which may share a fresh page with the
  handler's; a `free` interrupted between its check at 637 and the release, which gives back a page that somebody has taken from meanwhile; and `page.c:590`, where `free` of an allocation that ends in a
  managed page reads that page's table from the first page, and may clear more than it was given. Sharing a block counts it twice, so that the 10-bit count may then
  run over. Interrupts elsewhere in `malloc` and `free` may lose memory in further ways (section 6). The kernel's own requests never meet the
  first: they are of 280 and 40 bytes, 70 and 10 blocks, so that every gap in a
  managed page is a multiple of ten blocks and none is one block short.

One disagreement between a comment and the code has no run of its own: `timer.h:21-23` says that `func` is not executed
while the timer's task is SLEEPING ("当任务处于sleep状态, ... 所以不去执行func"). `timer.c:198` skips `func` only if the task sleeps **and**
`func` is NULL: the callback of a task that sleeps is called at every tick. `CallbackBound` states what the code does; with the comment's
rule in its place a callback would wait for its task to wake.

Further facts met while modelling, which no run refutes: `task_create` does not
initialise `state` (harmless on fresh memory); `start.S:55` speaks of user mode,
yet every trap comes from machine mode and leaves `MPP` so, hence tasks run in
machine mode; the block table of a managed page begins one byte inside its last
block (`page.c:312`); aging stops at 256, so a task created with a larger
priority number can be passed over for ever by one that has reached 256; `%d` of 0
prints nothing, `%c` prints the letter c and takes no argument, `%%` leaves the directive open
(`printf.c`).

## 6. Not modelled

- `task_create` after a task has exited: no task calls it; the index of the
  stack would collide (see the hazards);
- priorities above the aging limit: `user_init` creates tasks with 100 to 110;
- `basic_lock`, `basic_unlock`, `lock_init`, `uart_gets`, `memcpy`: no caller in the kernel;
- the byte that the block table shares with the last block (`page.c:312`): below
  the resolution of `Malloc`, which counts in blocks;
- interrupts between the single stores of `malloc`, in `free` before its look at the count and inside its release, and inside
  `page_alloc`: `Malloc` has the two places at which what was read is relied on longest. So an update of the count that is lost
  because `++` at `page.c:391` and `--` are a load and a store is not modelled, nor a page table read in the middle of an update;
- what the loop of `free` after `page.c:590` does to the data of clients before it comes to a table, if it does; only its effect on tables and on the count is;
- several tasks interrupted in `malloc` at a time, and what happens after an owner has lost
  memory: the code has no defined continuation there;
- clearing of bss, the stacks, the linker script, the wording of messages, the printing test drivers, and
  the exercises: data layout, pure output, or no part of the kernel.
