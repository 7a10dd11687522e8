-------------------------------- MODULE Trap --------------------------------
(***************************************************************************)
(* The path into and out of the kernel: start_kernel, trap_vector,         *)
(* trap_handler, do_syscall and switch_to, with the control and status     *)
(* registers they work on.  Which task schedule picks, and when a timer    *)
(* interrupt preempts or wakes, is decided in Sched and Kernel; here each  *)
(* outcome is possible.                                                    *)
(*                                                                         *)
(* A pc is <<c, n>>, instruction n of flow c, or <<place, 0>> in the       *)
(* kernel's code; all values are pairs.  Three registers stand for all of  *)
(* them: a0 holds arguments and results, t5 and t6 are the two that        *)
(* trap_vector works with, and t5 also stands for those treated alike.     *)
(***************************************************************************)
EXTENDS Integers

CONSTANTS
  Tasks,    \* the tasks' contexts
  Os,       \* os_task.ctx
  Null,     \* the zero that sched_init writes to mscratch
  Length,   \* instructions in each flow's loop
  Seen      \* the registers that Flows promises to keep

Contexts == Tasks \cup {Os}
Regs     == {"a0", "t5", "t6"}
Results  == {<<"ok", 0>>, <<"err", 0>>}

Program == Contexts \X (0..Length - 1)
Switch  == {"switch", "switch_pc", "switch_regs"}
Boot    == {"plic_init", "sched_init", "back_os"} \cup Switch
InTrap  == {"vector", "handler", "return"}
KernelCode == Boot \cup InTrap \cup {"panic"}
Places  == Program \cup {<<p, 0>> : p \in KernelCode}
Zero    == <<"zero", 0>>

ASSUME TrapAssumption ==
  /\ Os \notin Tasks /\ Null \notin Contexts
  /\ Contexts \cap (KernelCode \cup {"zero"}) = {}
  /\ Length \in Nat \ {0}
  /\ Seen \subseteq Regs /\ "a0" \in Seen

\* What a register may hold: nothing of interest, its flow's own value, the
\* result of a system call, the address of a context, or a place in the code.
Blank      == <<"blank", 0>>
Own(c)     == <<"own", c>>
Address(c) == <<"address", c>>
Values     == {Blank} \cup Results \cup {Own(c) : c \in Contexts}
                      \cup {Address(c) : c \in Contexts}
Clobbered  == [r \in Regs |-> Blank]

VARIABLES
  regs,      \* the hart's registers
  pc,        \* where it executes
  mode,      \* its privilege mode, M or U
  mstatus,   \* mstatus.MIE, MPIE and MPP
  mepc, mcause,
  mscratch,  \* the context of the flow that runs, Null until the first switch
  ctx,       \* the saved contexts: registers and pc
  msip,      \* a software interrupt is pending
  fault      \* trap_vector stored a register at address 0

trapVars == <<regs, pc, mode, mstatus, mepc, mcause, mscratch, ctx, msip, fault>>

-----------------------------------------------------------------------------
(***************************************************************************)
(* The macros of entry.S and the writes to mstatus.  Bug_X is X with a     *)
(* mistake that RefinesFlows or an invariant below must expose.            *)
(***************************************************************************)

\* The copy of the base pointer is made before t5 is saved.
Bug_Saved(r, base) == [r EXCEPT !["t5"] = Address(base)]

\* reg_save and the lines after it: every register, t6 by way of mscratch.
Saved(r, base) == r

\* reg_restore: on RV64 the load of t6 is missing, so t6 keeps the base.
Restored(c) == [ctx[c].regs EXCEPT !["t6"] = Address(c)]

\* A return to the interrupted program with interrupts off.
Bug_BackOsMask(m) == [mie |-> FALSE, mpie |-> FALSE, mpp |-> "M"]

Bug_BackOsMode(m) == m

\* back_os: w_mstatus(r_mstatus() | 3 << 11).
BackOsStatus(m) == [m EXCEPT !.mpp = "M"]

At(place)   == pc[1] = place
Goto(place) == pc' = <<place, 0>>

\* The top half of a trap, done by the hart.
TrapTaken(cause) ==
  /\ mcause' = cause
  /\ mepc' = pc
  /\ Goto("vector")
  /\ mstatus' = [mie |-> FALSE, mpie |-> mstatus.mie, mpp |-> mode]
  /\ mode' = "M"

\* mret to target.
Mret(target) ==
  /\ pc' = target
  /\ mode' = mstatus.mpp
  /\ mstatus' = [mie |-> mstatus.mpie, mpie |-> TRUE, mpp |-> "U"]

\* A call of switch_to, its argument in a0.
CallSwitchTo(c) == /\ Goto("switch")
                   /\ regs' = [Clobbered EXCEPT !["a0"] = Address(c)]

CallBackOs == mstatus' = BackOsStatus(mstatus) /\ CallSwitchTo(Os)

-----------------------------------------------------------------------------
\* Reset, and start.S: MPIE is set, and MPP is set from whatever the address
\* in a1 has in bits 11 and 12.
Init ==
  /\ regs = Clobbered
  /\ pc = <<"plic_init", 0>>
  /\ mode = "M"
  /\ mstatus \in [mie : {FALSE}, mpie : {TRUE}, mpp : {"M", "U"}]
  /\ mepc = Zero /\ mcause = "none"
  /\ mscratch = Null
  /\ ctx = [c \in Contexts |->
              [regs |-> Clobbered, pc |-> IF c = Os THEN Zero ELSE <<c, 0>>]]
  /\ msip = FALSE
  /\ fault = FALSE

\* plic_init enables device interrupts, and interrupts as such.
PlicInit ==
  /\ At("plic_init")
  /\ Goto("sched_init")
  /\ mstatus' = [mstatus EXCEPT !.mie = TRUE]
  /\ UNCHANGED <<regs, mode, mepc, mcause, mscratch, ctx, msip, fault>>

\* The kernel's context is never told where to start.
Bug_SchedInit ==
  /\ At("sched_init")
  /\ Goto("back_os")
  /\ mscratch' = Null
  /\ UNCHANGED <<regs, mode, mstatus, mepc, mcause, ctx, msip, fault>>

SchedInit ==
  /\ At("sched_init")
  /\ Goto("back_os")
  /\ mscratch' = Null
  /\ ctx' = [ctx EXCEPT ![Os].pc = <<Os, 0>>]
  /\ UNCHANGED <<regs, mode, mstatus, mepc, mcause, msip, fault>>

\* The call of back_os that ends start_kernel.
StartKernel ==
  /\ At("back_os")
  /\ CallBackOs
  /\ UNCHANGED <<mode, mepc, mcause, mscratch, ctx, msip, fault>>

(***************************************************************************)
(* The flows.                                                              *)
(***************************************************************************)
NextPc(p) == <<p[1], (p[2] + 1) % Length>>

\* One instruction of the flow, which writes one register.
Instruction ==
  /\ pc \in Program
  /\ \E r \in Regs : regs' = [regs EXCEPT ![r] = Own(pc[1])]
  /\ pc' = NextPc(pc)
  /\ UNCHANGED <<mode, mstatus, mepc, mcause, mscratch, ctx, msip, fault>>

\* task_yield: a store to CLIENT_MSIP.
Yield ==
  /\ pc \in Program
  /\ msip' = TRUE
  /\ pc' = NextPc(pc)
  /\ UNCHANGED <<regs, mode, mstatus, mepc, mcause, mscratch, ctx, fault>>

\* sleep, or an exception that trap_handler does not know.
Exception ==
  /\ pc \in Program
  /\ \E cause \in {"ecall", "unknown"} : TrapTaken(cause)
  /\ UNCHANGED <<regs, mscratch, ctx, msip, fault>>

\* The timer's first interrupt is a second away from start_kernel, and msip is
\* clear until a flow sets it: there only a device can interrupt.
Interrupt ==
  /\ mstatus.mie /\ ~fault
  /\ \/ pc \in Program /\ TrapTaken("timer")
     \/ TrapTaken("external")
     \/ msip /\ TrapTaken("software")
  /\ UNCHANGED <<regs, mscratch, ctx, msip, fault>>

(***************************************************************************)
(* The trap.                                                               *)
(***************************************************************************)
\* trap_vector up to the call: with no context, the store to address 0 is
\* itself an exception, and trap_vector starts again for good.
SaveContext ==
  /\ At("vector") /\ ~fault
  /\ IF mscratch = Null
     THEN /\ fault' = TRUE
          /\ UNCHANGED <<regs, pc, ctx>>
     ELSE /\ ctx' = [ctx EXCEPT ![mscratch] =
                       [regs |-> Saved(regs, mscratch), pc |-> mepc]]
          /\ regs' = Clobbered
          /\ Goto("handler")
          /\ UNCHANGED fault
  /\ UNCHANGED <<mode, mstatus, mepc, mcause, mscratch, msip>>

\* trap_handler returns the address to go on at, in a0.
HandlerReturns(epc) ==
  /\ Goto("return")
  /\ regs' = [Clobbered EXCEPT !["a0"] = epc]
  /\ UNCHANGED mstatus

\* schedule: a task, or the kernel when none is ready.
SoftwareInterrupt ==
  /\ At("handler") /\ mcause = "software"
  /\ msip' = FALSE
  /\ \/ \E t \in Tasks : CallSwitchTo(t) /\ UNCHANGED mstatus
     \/ CallBackOs
  /\ UNCHANGED <<mode, mepc, mcause, mscratch, ctx, fault>>

\* timer_handler returns, or preempts or wakes by way of back_os.
TimerInterrupt ==
  /\ At("handler") /\ mcause = "timer"
  /\ HandlerReturns(mepc) \/ CallBackOs
  /\ UNCHANGED <<mode, mepc, mcause, mscratch, ctx, msip, fault>>

ExternalInterrupt ==
  /\ At("handler") /\ mcause = "external"
  /\ HandlerReturns(mepc)
  /\ UNCHANGED <<mode, mepc, mcause, mscratch, ctx, msip, fault>>

\* Sleeping switches away at once: the saved pc is still that of the ecall.
Bug_SystemCall ==
  /\ At("handler") /\ mcause = "ecall"
  /\ ctx' = [ctx EXCEPT ![mscratch].regs["a0"] = <<"ok", 0>>]
  /\ CallBackOs
  /\ UNCHANGED <<mode, mepc, mcause, mscratch, msip, fault>>

\* do_syscall writes the result to the saved a0, sleep yields before it does,
\* and the address returned is that of the next instruction.
SystemCall ==
  /\ At("handler") /\ mcause = "ecall"
  /\ \/ /\ ctx' = [ctx EXCEPT ![mscratch].regs["a0"] = <<"ok", 0>>]
        /\ msip' = TRUE
     \/ /\ ctx' = [ctx EXCEPT ![mscratch].regs["a0"] = <<"err", 0>>]
        /\ UNCHANGED msip
  /\ HandlerReturns(NextPc(mepc))
  /\ UNCHANGED <<mode, mepc, mcause, mscratch, fault>>

\* Any other exception ends in panic, which spins with interrupts off.
Panic ==
  /\ At("handler") /\ mcause = "unknown"
  /\ Goto("panic")
  /\ UNCHANGED <<regs, mode, mstatus, mepc, mcause, mscratch, ctx, msip, fault>>

\* The end of trap_vector.
ReturnFromTrap ==
  /\ At("return")
  /\ mepc' = regs["a0"]
  /\ regs' = Restored(mscratch)
  /\ Mret(regs["a0"])
  /\ UNCHANGED <<mcause, mscratch, ctx, msip, fault>>

(***************************************************************************)
(* switch_to, in three steps: in a trap nothing comes between them, but    *)
(* start_kernel runs it with interrupts enabled.  Its csrw and mret are    *)
(* illegal instructions in user mode.                                      *)
(***************************************************************************)
Argument == regs["a0"][2]

SwitchScratch ==
  /\ At("switch") /\ mode = "M"
  /\ mscratch' = Argument
  /\ Goto("switch_pc")
  /\ UNCHANGED <<regs, mode, mstatus, mepc, mcause, ctx, msip, fault>>

SwitchPc ==
  /\ At("switch_pc") /\ mode = "M"
  /\ mepc' = ctx[Argument].pc
  /\ Goto("switch_regs")
  /\ UNCHANGED <<regs, mode, mstatus, mcause, mscratch, ctx, msip, fault>>

SwitchRegs ==
  /\ At("switch_regs") /\ mode = "M"
  /\ regs' = Restored(Argument)
  /\ Mret(mepc)
  /\ UNCHANGED <<mepc, mcause, mscratch, ctx, msip, fault>>

SwitchIllegal ==
  /\ pc[1] \in Switch /\ mode = "U"
  /\ TrapTaken("unknown")
  /\ UNCHANGED <<regs, mscratch, ctx, msip, fault>>

\* Everything the hart does when nothing interrupts it.
Execute ==
  \/ PlicInit \/ SchedInit \/ StartKernel
  \/ Instruction \/ Yield \/ Exception
  \/ SaveContext
  \/ SoftwareInterrupt \/ TimerInterrupt \/ ExternalInterrupt \/ SystemCall \/ Panic
  \/ ReturnFromTrap
  \/ SwitchScratch \/ SwitchPc \/ SwitchRegs \/ SwitchIllegal

Next == Execute \/ Interrupt

Spec == Init /\ [][Next]_trapVars

\* The hart keeps executing; whether and when it is interrupted is open.
FairSpec == Spec /\ WF_trapVars(Execute)

-----------------------------------------------------------------------------
(***************************************************************************)
(* Properties.                                                             *)
(***************************************************************************)

\* The registers and saved contexts hold values they may hold, and the hart
\* never executes at an address nobody set (ctx.pc of sched_init, sched.c:30).
TrapTypeOK ==
  /\ regs \in [Regs -> Values \cup Places]
  /\ pc \in Places
  /\ mode \in {"M", "U"}
  /\ mstatus \in [mie : BOOLEAN, mpie : BOOLEAN, mpp : {"M", "U"}]
  /\ mepc \in Places \cup {Zero}
  /\ mcause \in {"none", "software", "timer", "external", "ecall", "unknown"}
  /\ mscratch \in Contexts \cup {Null}
  /\ ctx \in [Contexts -> [regs : [Regs -> Values], pc : Places \cup {Zero}]]
  /\ msip \in BOOLEAN /\ fault \in BOOLEAN

\* Interrupts are masked all through a trap, whose one mscratch and one mepc a
\* nested trap would overwrite, and are on again whenever a flow executes, or
\* it could never be preempted: however many traps and switches came before.
MaskedOnlyInTraps ==
  /\ pc[1] \in InTrap \cup {"panic"} => ~mstatus.mie
  /\ pc \in Program => mstatus.mie

\* The kernel's loop runs in machine mode (sched.c:178), which it needs to be
\* entered by way of switch_to, whatever mode the trap came from.
KernelInMachineMode == pc \in Program /\ pc[1] = Os => mode = "M"

\* An address the kernel left in a register is as good as one never written.
Known(v) == IF v \in {Address(d) : d \in Contexts} THEN Blank ELSE v

\* What flow c goes on with: the hart's registers while it executes or enters a
\* trap, else its saved context, with the address trap_handler has returned, or
\* where the kernel starts as long as it has not.
FlowState(c) ==
  CASE pc \in Program /\ pc[1] = c ->
         [regs |-> regs, pc |-> pc]
    [] At("vector") /\ mepc \in Program /\ mepc[1] = c ->
         [regs |-> regs, pc |-> mepc]
    [] At("return") /\ mscratch = c /\ regs["a0"] \in Program ->
         [regs |-> ctx[c].regs, pc |-> regs["a0"]]
    [] OTHER ->
         [regs |-> ctx[c].regs,
          pc   |-> IF c = Os /\ ctx[c].pc \notin Program THEN <<c, 0>> ELSE ctx[c].pc]

View(c) == [regs |-> [r \in Seen |-> Known(FlowState(c).regs[r])],
            pc   |-> FlowState(c).pc]

F == INSTANCE Flows WITH view <- [c \in Contexts |-> View(c)]

\* Interrupts, system calls and switches are invisible to the flows they hit:
\* registers in Seen and pc change by a flow's own instructions only, and an
\* ecall returns once, past itself, even when the task sleeps in it.
RefinesFlows == F!FSpec

\* back_os at the end of start_kernel reaches the kernel (kernel.c:19) once
\* devices leave the hart alone, unless it trapped with no context to save to.
KernelStarts == <>[][~Interrupt]_trapVars => <>(pc = <<Os, 0>> \/ fault)

=============================================================================
