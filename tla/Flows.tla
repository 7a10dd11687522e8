------------------------------- MODULE Flows -------------------------------
(***************************************************************************)
(* What the trap code of os/entry.S and os/trap.c promises to the code it  *)
(* interrupts: each control flow, the kernel's loop or a task's function,  *)
(* is a sequential program of its own.  Only its own instructions change   *)
(* its registers, each one once and in order, however often the hart was   *)
(* taken from it in between.                                               *)
(***************************************************************************)
EXTENDS Integers

CONSTANTS
  Contexts,  \* the control flows
  Seen,      \* the registers that are promised to be kept
  Length,    \* each flow is a loop of Length instructions
  Blank,     \* what a register holds before its flow has written it
  Results    \* what a system call leaves in a0

VARIABLE view  \* what each flow sees: its registers and where it is

Own(c) == <<"own", c>>

NextPc(p) == <<p[1], (p[2] + 1) % Length>>

FInit == view = [c \in Contexts |-> [regs |-> [r \in Seen |-> Blank], pc |-> <<c, 0>>]]

\* c executes the instruction it is at, and perhaps writes its value to a register.
Compute(c) ==
  \E r \in Seen : \E value \in {Own(c), view[c].regs[r]} :
     view' = [view EXCEPT ![c].regs[r] = value, ![c].pc = NextPc(@)]

\* The instruction is an ecall: it returns once, with a result.
SystemCall(c) ==
  \E result \in Results :
     view' = [view EXCEPT ![c].regs["a0"] = result, ![c].pc = NextPc(@)]

FNext == \E c \in Contexts : Compute(c) \/ SystemCall(c)

FSpec == FInit /\ [][FNext]_view

=============================================================================
