----------------------------- MODULE TrapProofs -----------------------------
(***************************************************************************)
(* Proofs about Trap, for any set of tasks and programs of any length:     *)
(* types, the interrupt mask and the mode of the kernel's loop, through    *)
(* every sequence of traps, switches and interrupts, those that hit        *)
(* start_kernel inside switch_to included; and from them that Trap         *)
(* implements Flows as long as t6 is not among the registers promised.     *)
(***************************************************************************)
EXTENDS Trap, TLAPS

\* The steps of switch_to in which mscratch is already that of the target.
Late == {<<"switch_pc", 0>>, <<"switch_regs", 0>>}

\* The masks: MPIE stays set, so every mret turns interrupts on, and user mode is
\* only entered by one.
MaskInv ==
  /\ MaskedOnlyInTraps
  /\ mstatus.mpie = TRUE
  /\ mode = "U" => mstatus.mie

\* Only trap_handler's result is an address of code in a register.
RegsInv == pc[1] # "return" => regs \in [Regs -> Values]

\* Until switch_to has run once there is no context; a trap that interrupts
\* switch_to in its first step would return into it in user mode.
StartInv ==
  pc[1] \in {"plic_init", "sched_init", "back_os"} \/ (At("switch") /\ mstatus.mie)
    => mscratch = Null

\* A saved context goes on in its own program, or, the kernel's only in fact,
\* inside the switch_to that was to load it.
SavedInv ==
  \A c \in Contexts :
    \/ ctx[c].pc \in Program /\ ctx[c].pc[1] = c
    \/ ctx[c].pc \in Late /\ ctx[c].regs["a0"] = Address(c)
    \/ /\ c = Os /\ ctx[c].pc = Zero /\ mscratch = Null
       /\ pc[1] \in {"plic_init", "sched_init", "vector"}

\* mscratch is the context of the flow that executes.
FlowInv == pc \in Program => pc[1] = mscratch /\ KernelInMachineMode

\* What was interrupted, from the trap to the mret.
VectorInv ==
  At("vector") /\ mscratch # Null =>
    \/ mepc \in Program /\ mepc[1] = mscratch /\ (mscratch = Os => mstatus.mpp = "M")
    \/ mepc \in Late /\ regs["a0"] = Address(mscratch) /\ mcause # "ecall"

HandlerInv ==
  At("handler") =>
    /\ mscratch \in Contexts /\ mepc = ctx[mscratch].pc
    /\ mepc \in Program /\ mscratch = Os => mstatus.mpp = "M"
    /\ mcause = "ecall" => mepc \in Program

ReturnInv ==
  At("return") =>
    /\ mscratch \in Contexts
    /\ \/ /\ regs["a0"] \in Program /\ regs["a0"][1] = mscratch
          /\ mscratch = Os => mstatus.mpp = "M"
       \/ regs["a0"] \in Late /\ regs["a0"] = ctx[mscratch].pc

\* The argument of switch_to. The kernel is entered with MPP = M.
SwitchInv ==
  pc[1] \in Switch =>
    \E c \in Contexts :
      /\ regs["a0"] = Address(c)
      /\ c = Os /\ ctx[c].pc \in Program => mstatus.mpp = "M"
      /\ pc[1] # "switch" => mscratch = c
      /\ pc[1] = "switch_regs" => mepc = ctx[c].pc

TrapInv ==
  /\ TrapTypeOK /\ MaskInv /\ RegsInv /\ StartInv /\ SavedInv /\ FlowInv
  /\ VectorInv /\ HandlerInv /\ ReturnInv /\ SwitchInv

LEMMA Disjoint ==
  /\ \A p \in Program : p \in Places /\ p[1] \in Contexts /\ p[1] \notin KernelCode
  /\ \A p \in KernelCode : <<p, 0>> \in Places /\ <<p, 0>> \notin Program
  /\ Zero \notin Program /\ Zero \notin Late
  /\ \A p \in Late : p \in Places /\ p \notin Program /\ p[1] \in Switch
  BY TrapAssumption DEF Program, Places, KernelCode, Zero, Late, Boot, Switch, InTrap

LEMMA NextPcType == \A p \in Program : NextPc(p) \in Program /\ NextPc(p)[1] = p[1]
  BY TrapAssumption DEF Program, NextPc

LEMMA ValueTypes ==
  /\ Blank \in Values /\ Results \subseteq Values
  /\ \A c \in Contexts : Own(c) \in Values /\ Address(c) \in Values
  /\ Clobbered \in [Regs -> Values]
  /\ Os \in Contexts /\ Tasks \subseteq Contexts
  BY DEF Values, Clobbered, Contexts

LEMMA TrapInit == Init => TrapInv
<1> SUFFICES ASSUME Init PROVE TrapInv
  OBVIOUS
<1> USE DEF Init
<1>1. pc = <<"plic_init", 0>> /\ "plic_init" \in KernelCode
  BY DEF KernelCode, Boot
<1>2. pc \notin Program /\ pc \in Places
  BY <1>1, Disjoint
<1>3. \A c \in Tasks : <<c, 0>> \in Program
  BY TrapAssumption DEF Program, Contexts
<1>4. TrapTypeOK
  <2>1. \A c \in Contexts : IF c = Os THEN Zero \in Places \cup {Zero}
                                      ELSE <<c, 0>> \in Places
    BY <1>3, Disjoint DEF Contexts
  <2>2. ctx \in [Contexts -> [regs : [Regs -> Values], pc : Places \cup {Zero}]]
    BY <2>1, ValueTypes
  <2> QED
    BY <1>2, <2>2, ValueTypes DEF TrapTypeOK
<1>5. MaskInv /\ RegsInv /\ StartInv /\ FlowInv
  BY <1>1, <1>2, ValueTypes DEF MaskInv, MaskedOnlyInTraps, RegsInv, StartInv, FlowInv, InTrap
<1>6. SavedInv
  BY <1>3, TrapAssumption DEF SavedInv, Contexts
<1>7. VectorInv /\ HandlerInv /\ ReturnInv /\ SwitchInv
  BY DEF VectorInv, HandlerInv, ReturnInv, SwitchInv, At, Switch
<1> QED
  BY <1>4, <1>5, <1>6, <1>7 DEF TrapInv

\* Where the hart is when it takes a trap: interrupts are on, and so it is in a
\* flow or in start_kernel; with a context, in a flow or late in switch_to.
LEMMA TrapFrom ==
  ASSUME TrapInv, mstatus.mie
  PROVE  /\ pc \in Program \/ pc[1] \in Boot
         /\ mscratch # Null => pc \in Program \cup Late
<1> USE DEF TrapInv
<1>1. pc \in Program \/ \E p \in KernelCode : pc = <<p, 0>>
  BY DEF TrapTypeOK, Places
<1>2. pc \in Program \/ \E p \in Boot : pc = <<p, 0>>
  BY <1>1 DEF MaskInv, MaskedOnlyInTraps, KernelCode
<1> QED
  BY <1>2 DEF StartInv, At, Boot, Switch, Late

LEMMA TrapTakenKeeps ==
  ASSUME TrapInv, mstatus.mie,
         NEW cause \in {"software", "timer", "external", "ecall", "unknown"},
         cause = "ecall" => pc \in Program,
         TrapTaken(cause), UNCHANGED <<regs, mscratch, ctx, msip, fault>>
  PROVE  TrapInv'
<1> USE DEF TrapInv
<1>0. pc' = <<"vector", 0>> /\ "vector" \in KernelCode /\ mode' = "M"
  BY DEF TrapTaken, Goto, KernelCode, InTrap
<1>1. pc' \in Places /\ pc' \notin Program
  BY <1>0, Disjoint
<1>2. TrapTypeOK'
  BY <1>0, <1>1 DEF TrapTaken, TrapTypeOK
<1>3. MaskInv'
  BY <1>0, <1>1 DEF TrapTaken, MaskInv, MaskedOnlyInTraps, TrapTypeOK
<1>4. pc[1] # "return"
  BY DEF MaskInv, MaskedOnlyInTraps, InTrap
<1>5. RegsInv' /\ StartInv' /\ FlowInv'
  BY <1>0, <1>1, <1>4 DEF RegsInv, StartInv, FlowInv, At
<1>6. SavedInv'
  BY <1>0 DEF SavedInv
<1>7. VectorInv'
  <2> SUFFICES ASSUME mscratch # Null
               PROVE  VectorInv'
    BY DEF VectorInv
  <2>1. mepc' = pc /\ mstatus'.mpp = mode /\ mcause' = cause
    BY DEF TrapTaken
  <2>2. CASE pc \in Program
    BY <2>1, <2>2 DEF VectorInv, FlowInv, KernelInMachineMode
  <2>3. CASE pc \in Late
    <3>1. pc[1] \in Switch /\ pc[1] # "switch" /\ pc \notin Program
      BY <2>3, Disjoint DEF Late
    <3>2. regs["a0"] = Address(mscratch)
      BY <3>1 DEF SwitchInv
    <3> QED
      BY <2>1, <2>3, <3>1, <3>2 DEF VectorInv
  <2> QED
    BY <2>2, <2>3, TrapFrom
<1>8. HandlerInv' /\ ReturnInv' /\ SwitchInv'
  BY <1>0 DEF HandlerInv, ReturnInv, SwitchInv, At, Switch
<1> QED
  BY <1>2, <1>3, <1>5, <1>6, <1>7, <1>8

\* An ecall or another exception of a flow, an interrupt, and a switch_to that
\* has fallen into user mode.
LEMMA TrapsKeep ==
  ASSUME TrapInv, Exception \/ Interrupt \/ SwitchIllegal
  PROVE  TrapInv'
<1>1. CASE Exception
  <2>1. mstatus.mie
    BY <1>1 DEF Exception, TrapInv, MaskInv, MaskedOnlyInTraps
  <2> QED
    BY <1>1, <2>1, TrapTakenKeeps DEF Exception
<1>2. CASE Interrupt
  BY <1>2, TrapTakenKeeps DEF Interrupt
<1>3. CASE SwitchIllegal
  <2>1. mstatus.mie
    BY <1>3 DEF SwitchIllegal, TrapInv, MaskInv
  <2> QED
    BY <1>3, <2>1, TrapTakenKeeps DEF SwitchIllegal
<1> QED
  BY <1>1, <1>2, <1>3

\* What the flows do themselves.
LEMMA FlowKeeps ==
  ASSUME TrapInv, Instruction \/ Yield
  PROVE  TrapInv'
<1> USE DEF TrapInv
<1>1. /\ pc \in Program /\ pc' = NextPc(pc)
      /\ UNCHANGED <<mode, mstatus, mepc, mcause, mscratch, ctx, fault>>
  BY DEF Instruction, Yield
<1>2. pc' \in Program /\ pc'[1] = pc[1] /\ pc' \in Places /\ pc[1] \in Contexts
  BY <1>1, NextPcType, Disjoint
<1>3. pc[1] \notin KernelCode /\ pc'[1] \notin KernelCode
  BY <1>1, <1>2, Disjoint
<1>4. regs \in [Regs -> Values] /\ regs' \in [Regs -> Values] /\ msip' \in BOOLEAN
  <2>1. regs \in [Regs -> Values]
    BY <1>3 DEF RegsInv, KernelCode, InTrap
  <2> QED
    BY <1>2, <2>1, ValueTypes DEF Instruction, Yield, TrapTypeOK
<1>5. TrapTypeOK'
  BY <1>1, <1>2, <1>4 DEF TrapTypeOK
<1>6. MaskInv' /\ RegsInv' /\ StartInv' /\ FlowInv'
  BY <1>1, <1>2, <1>3, <1>4
     DEF MaskInv, MaskedOnlyInTraps, RegsInv, StartInv, FlowInv, KernelInMachineMode,
         KernelCode, Boot, Switch, InTrap, At
<1>7. SavedInv'
  BY <1>1, <1>3 DEF SavedInv, KernelCode, Boot, InTrap
<1>8. VectorInv' /\ HandlerInv' /\ ReturnInv' /\ SwitchInv'
  BY <1>2, <1>3 DEF VectorInv, HandlerInv, ReturnInv, SwitchInv, KernelCode, Boot, InTrap, At
<1> QED
  BY <1>5, <1>6, <1>7, <1>8

\* A step from one place of the kernel's code to another.
LEMMA KernelPlace ==
  ASSUME NEW p \in KernelCode, Goto(p)
  PROVE  pc' = <<p, 0>> /\ pc' \in Places /\ pc' \notin Program
  BY Disjoint DEF Goto

\* start_kernel.
LEMMA BootKeeps ==
  ASSUME TrapInv, PlicInit \/ SchedInit \/ StartKernel
  PROVE  TrapInv'
<1> USE DEF TrapInv
<1>1. PICK p \in {"sched_init", "back_os", "switch"} : Goto(p)
  BY DEF PlicInit, SchedInit, StartKernel, CallBackOs, CallSwitchTo
<1>2. pc' = <<p, 0>> /\ pc' \in Places /\ pc' \notin Program
  BY <1>1, KernelPlace DEF KernelCode, Boot, Switch
<1>3. /\ mscratch = Null /\ mscratch' = Null /\ UNCHANGED <<mode, mepc, mcause, msip, fault>>
      /\ regs \in [Regs -> Values] /\ mstatus'.mpie = TRUE
      /\ mode = "U" => mstatus'.mie
  BY DEF PlicInit, SchedInit, StartKernel, CallBackOs, BackOsStatus, StartInv, RegsInv, MaskInv,
         TrapTypeOK, At
<1>4. mstatus' \in [mie : BOOLEAN, mpie : BOOLEAN, mpp : {"M", "U"}]
  BY DEF PlicInit, SchedInit, StartKernel, CallBackOs, BackOsStatus, TrapTypeOK
<1>5. regs' \in [Regs -> Values] /\ (p = "switch" => regs'["a0"] = Address(Os))
  BY <1>2, <1>3, ValueTypes
     DEF PlicInit, SchedInit, StartKernel, CallBackOs, CallSwitchTo, Clobbered, Goto, Regs
<1>6. ctx' = ctx \/ ctx' = [ctx EXCEPT ![Os].pc = <<Os, 0>>]
  BY DEF PlicInit, SchedInit, StartKernel, CallBackOs
<1>7. <<Os, 0>> \in Program /\ <<Os, 0>>[1] = Os
  BY TrapAssumption DEF Program, Contexts
<1>8. TrapTypeOK'
  <2>1. ctx \in [Contexts -> [regs : [Regs -> Values], pc : Places \cup {Zero}]]
    BY DEF TrapTypeOK
  <2>2. <<Os, 0>> \in Places
    BY <1>7, Disjoint
  <2>3. ctx' \in [Contexts -> [regs : [Regs -> Values], pc : Places \cup {Zero}]]
    BY <1>6, <2>1, <2>2
  <2> QED
    BY <1>2, <1>3, <1>4, <1>5, <2>3 DEF TrapTypeOK
<1>9. MaskInv' /\ RegsInv' /\ StartInv' /\ FlowInv'
  BY <1>2, <1>3, <1>5
     DEF MaskInv, MaskedOnlyInTraps, RegsInv, StartInv, FlowInv, InTrap, At
<1>10. SavedInv'
  <2>1. CASE PlicInit
    BY <2>1 DEF PlicInit, SavedInv, Goto, At
  <2>2. CASE SchedInit
    BY <2>2, <1>7 DEF SchedInit, SavedInv, TrapTypeOK
  <2>3. CASE StartKernel
    BY <2>3 DEF StartKernel, SavedInv, At
  <2> QED
    BY <2>1, <2>2, <2>3
<1>11. SwitchInv'
  <2>1. p = "switch" => StartKernel
    BY <1>2 DEF PlicInit, SchedInit, Goto
  <2>2. StartKernel => mstatus'.mpp = "M"
    BY DEF StartKernel, CallBackOs, BackOsStatus, TrapTypeOK
  <2> QED
    BY <1>2, <1>5, <2>1, <2>2, ValueTypes DEF SwitchInv, Switch
<1>12. VectorInv' /\ HandlerInv' /\ ReturnInv'
  BY <1>2 DEF VectorInv, HandlerInv, ReturnInv, At
<1> QED
  BY <1>8, <1>9, <1>10, <1>11, <1>12

LEMMA SaveContextKeeps ==
  ASSUME TrapInv, SaveContext
  PROVE  TrapInv'
<1> USE DEF TrapInv
<1>1. At("vector") /\ pc[1] = "vector" /\ ~mstatus.mie /\ regs \in [Regs -> Values]
      /\ UNCHANGED <<mode, mstatus, mepc, mcause, mscratch, msip>>
  BY DEF SaveContext, At, MaskInv, MaskedOnlyInTraps, InTrap, RegsInv
<1>2. CASE mscratch = Null
  <2>1. fault' = TRUE /\ UNCHANGED <<regs, pc, ctx>>
    BY <1>2 DEF SaveContext
  <2>2. TrapTypeOK' /\ MaskInv' /\ RegsInv' /\ StartInv' /\ SavedInv' /\ FlowInv'
    BY <1>1, <2>1
       DEF TrapTypeOK, MaskInv, MaskedOnlyInTraps, RegsInv, StartInv, SavedInv, FlowInv,
           KernelInMachineMode, At
  <2>3. VectorInv' /\ HandlerInv' /\ ReturnInv' /\ SwitchInv'
    BY <1>1, <2>1 DEF VectorInv, HandlerInv, ReturnInv, SwitchInv, At
  <2> QED
    BY <2>2, <2>3
<1>3. CASE mscratch # Null
  <2>1. /\ ctx' = [ctx EXCEPT ![mscratch] = [regs |-> regs, pc |-> mepc]]
        /\ regs' = Clobbered /\ Goto("handler") /\ UNCHANGED fault
    BY <1>3 DEF SaveContext, Saved
  <2>2. pc' = <<"handler", 0>> /\ pc' \in Places /\ pc' \notin Program
    BY <2>1, KernelPlace DEF KernelCode, InTrap
  <2>3. mscratch \in Contexts /\ mepc \in Places
    BY <1>1, <1>3, Disjoint DEF VectorInv, TrapTypeOK
  <2>4. TrapTypeOK'
    <3>1. ctx' \in [Contexts -> [regs : [Regs -> Values], pc : Places \cup {Zero}]]
      BY <1>1, <2>1, <2>3 DEF TrapTypeOK
    <3> QED
      BY <1>1, <2>1, <2>2, <3>1, ValueTypes DEF TrapTypeOK
  <2>5. MaskInv' /\ RegsInv' /\ StartInv' /\ FlowInv'
    BY <1>1, <2>1, <2>2, ValueTypes
       DEF MaskInv, MaskedOnlyInTraps, RegsInv, StartInv, FlowInv, InTrap, At
  <2>6. ctx'[mscratch].pc = mepc /\ ctx'[mscratch].regs = regs
        /\ \A c \in Contexts : c # mscratch => ctx'[c] = ctx[c]
    BY <2>1, <2>3 DEF TrapTypeOK
  <2>7. SavedInv'
    BY <1>1, <1>3, <2>6 DEF SavedInv, VectorInv
  <2>8. HandlerInv'
    BY <1>1, <1>3, <2>3, <2>6, Disjoint DEF VectorInv, HandlerInv
  <2>9. VectorInv' /\ ReturnInv' /\ SwitchInv'
    BY <2>2 DEF VectorInv, ReturnInv, SwitchInv, At, Switch
  <2> QED
    BY <2>4, <2>5, <2>7, <2>8, <2>9
<1> QED
  BY <1>2, <1>3

\* The ends of trap_handler that leave by way of switch_to: to a task, or to the
\* kernel with MPP = M.
LEMMA CallSwitchKeeps ==
  ASSUME TrapInv, At("handler"), NEW c \in Contexts, CallSwitchTo(c),
         msip' \in BOOLEAN,
         mstatus' = IF c = Os THEN BackOsStatus(mstatus) ELSE mstatus,
         UNCHANGED <<mode, mepc, mcause, mscratch, ctx, fault>>
  PROVE  TrapInv'
<1> USE DEF TrapInv
<1>1. pc' = <<"switch", 0>> /\ pc' \in Places /\ pc' \notin Program
  BY KernelPlace DEF CallSwitchTo, KernelCode, Boot, Switch
<1>2. regs' \in [Regs -> Values] /\ regs'["a0"] = Address(c)
  BY ValueTypes DEF CallSwitchTo, Clobbered, Regs
<1>3. /\ mstatus' \in [mie : BOOLEAN, mpie : BOOLEAN, mpp : {"M", "U"}]
      /\ mstatus'.mie = mstatus.mie /\ mstatus'.mpie = mstatus.mpie
      /\ c = Os => mstatus'.mpp = "M"
  BY DEF BackOsStatus, TrapTypeOK
<1>4. pc[1] = "handler" /\ ~mstatus.mie /\ mscratch \in Contexts
  BY DEF At, MaskInv, MaskedOnlyInTraps, InTrap, HandlerInv
<1>5. TrapTypeOK'
  BY <1>1, <1>2, <1>3 DEF TrapTypeOK
<1>6. MaskInv' /\ RegsInv' /\ StartInv' /\ FlowInv'
  BY <1>1, <1>2, <1>3, <1>4
     DEF MaskInv, MaskedOnlyInTraps, RegsInv, StartInv, FlowInv, InTrap, At
<1>7. SavedInv'
  BY <1>4 DEF SavedInv
<1>8. SwitchInv'
  BY <1>1, <1>2, <1>3 DEF SwitchInv
<1>9. VectorInv' /\ HandlerInv' /\ ReturnInv'
  BY <1>1 DEF VectorInv, HandlerInv, ReturnInv, At
<1> QED
  BY <1>5, <1>6, <1>7, <1>8, <1>9

LEMMA SwitchHandlersKeep ==
  ASSUME TrapInv,
         \/ SoftwareInterrupt
         \/ TimerInterrupt /\ CallBackOs
  PROVE  TrapInv'
<1>1. CallBackOs => mstatus' = BackOsStatus(mstatus) /\ CallSwitchTo(Os)
  BY DEF CallBackOs
<1>2. msip' \in BOOLEAN
  BY DEF SoftwareInterrupt, TimerInterrupt, TrapInv, TrapTypeOK
<1>3. CASE CallBackOs
  BY <1>1, <1>2, <1>3, CallSwitchKeeps, ValueTypes DEF SoftwareInterrupt, TimerInterrupt
<1>4. ASSUME SoftwareInterrupt, NEW t \in Tasks, CallSwitchTo(t), UNCHANGED mstatus
      PROVE  TrapInv'
  <2>1. t \in Contexts /\ t # Os
    BY TrapAssumption DEF Contexts
  <2> QED
    BY <1>2, <1>4, <2>1, CallSwitchKeeps DEF SoftwareInterrupt
<1> QED
  BY <1>3, <1>4 DEF SoftwareInterrupt

\* The ends of trap_handler that return an address: that of what was interrupted,
\* or the one after the ecall.
LEMMA ReturnHandlersKeep ==
  ASSUME TrapInv,
         \/ TimerInterrupt /\ HandlerReturns(mepc)
         \/ ExternalInterrupt
         \/ SystemCall
  PROVE  TrapInv'
<1> USE DEF TrapInv
<1> DEFINE epc == IF SystemCall THEN NextPc(mepc) ELSE mepc
<1>1. HandlerReturns(epc)
  <2>1. CASE SystemCall
    BY <2>1 DEF SystemCall
  <2>2. CASE ~SystemCall
    BY <2>2 DEF ExternalInterrupt
  <2> QED
    BY <2>1, <2>2
<1>2. pc' = <<"return", 0>> /\ pc' \in Places /\ pc' \notin Program
  BY <1>1, KernelPlace DEF HandlerReturns, KernelCode, InTrap
<1>3. UNCHANGED <<mode, mstatus, mepc, mcause, mscratch, fault>> /\ msip' \in BOOLEAN
  BY <1>1 DEF HandlerReturns, TimerInterrupt, ExternalInterrupt, SystemCall, CallBackOs, TrapTypeOK
<1>4. /\ pc[1] = "handler" /\ ~mstatus.mie /\ mscratch \in Contexts /\ mscratch # Null
      /\ mepc = ctx[mscratch].pc
  BY TrapAssumption
     DEF At, MaskInv, MaskedOnlyInTraps, InTrap, HandlerInv, TimerInterrupt, ExternalInterrupt,
         SystemCall
<1>5. /\ SystemCall => mepc \in Program
      /\ \/ mepc \in Program /\ mepc[1] = mscratch
         \/ mepc \in Late
  BY <1>4 DEF HandlerInv, SystemCall, SavedInv
<1>6. /\ mscratch = Os /\ mepc \in Program => mstatus.mpp = "M"
      /\ SystemCall => epc \in Program /\ epc[1] = mscratch
  <2>1. mscratch = Os /\ mepc \in Program => mstatus.mpp = "M"
    BY <1>4 DEF HandlerInv, At
  <2>2. ASSUME SystemCall PROVE epc \in Program /\ epc[1] = mscratch
    <3>1. mepc \in Program /\ mepc[1] = mscratch
      BY <1>5, <2>2, Disjoint
    <3> QED
      BY <2>2, <3>1, NextPcType
  <2> QED
    BY <2>1, <2>2
<1>7. epc \in Places /\ regs'["a0"] = epc
      /\ regs' \in [Regs -> Values \cup Places]
  BY <1>1, <1>5, <1>6, ValueTypes, Disjoint DEF HandlerReturns, Clobbered, Regs
<1>8. PICK v \in Values : \/ ctx' = ctx
                          \/ SystemCall /\ ctx' = [ctx EXCEPT ![mscratch].regs["a0"] = v]
  <2>1. <<"ok", 0>> \in Values /\ <<"err", 0>> \in Values
    BY ValueTypes DEF Results
  <2>2. CASE SystemCall
    BY <2>1, <2>2 DEF SystemCall
  <2>3. CASE ~SystemCall
    BY <2>1, <2>3 DEF TimerInterrupt, ExternalInterrupt
  <2> QED
    BY <2>2, <2>3
<1>9. /\ ctx' \in [Contexts -> [regs : [Regs -> Values], pc : Places \cup {Zero}]]
      /\ \A c \in Contexts : /\ ctx'[c].pc = ctx[c].pc
                             /\ ctx'[c] = ctx[c] \/ (c = mscratch /\ SystemCall)
  <2>1. ctx \in [Contexts -> [regs : [Regs -> Values], pc : Places \cup {Zero}]]
    BY DEF TrapTypeOK
  <2>2. CASE ctx' = ctx
    <3>1. ctx' \in [Contexts -> [regs : [Regs -> Values], pc : Places \cup {Zero}]]
      BY <2>1, <2>2
    <3>2. \A c \in Contexts : ctx'[c].pc = ctx[c].pc /\ ctx'[c] = ctx[c]
      BY <2>2
    <3> QED
      BY <3>1, <3>2
  <2>3. CASE SystemCall /\ ctx' = [ctx EXCEPT ![mscratch].regs["a0"] = v]
    BY <1>4, <2>1, <2>3 DEF Regs
  <2> QED
    BY <1>8, <2>2, <2>3
<1>10. TrapTypeOK'
  BY <1>2, <1>3, <1>7, <1>9 DEF TrapTypeOK
<1>11. MaskInv' /\ RegsInv' /\ StartInv' /\ FlowInv'
  BY <1>2, <1>3, <1>4
     DEF MaskInv, MaskedOnlyInTraps, RegsInv, StartInv, FlowInv, InTrap, At
<1>12. SavedInv'
  <2>1. ctx'[mscratch] = ctx[mscratch]
        \/ (ctx'[mscratch].pc \in Program /\ ctx'[mscratch].pc[1] = mscratch)
    BY <1>4, <1>5, <1>9, Disjoint
  <2> QED
    BY <1>3, <1>4, <1>9, <2>1 DEF SavedInv
<1>13. ReturnInv'
  BY <1>1, <1>2, <1>3, <1>4, <1>5, <1>6, <1>7, <1>9 DEF ReturnInv
<1>14. VectorInv' /\ HandlerInv' /\ SwitchInv'
  BY <1>2 DEF VectorInv, HandlerInv, SwitchInv, At, Switch
<1> QED
  BY <1>10, <1>11, <1>12, <1>13, <1>14

LEMMA PanicKeeps ==
  ASSUME TrapInv, Panic
  PROVE  TrapInv'
<1> USE DEF TrapInv, Panic
<1>1. pc' = <<"panic", 0>> /\ pc' \in Places /\ pc' \notin Program
  BY KernelPlace DEF KernelCode
<1>2. pc[1] = "handler" /\ ~mstatus.mie
  BY DEF At, MaskInv, MaskedOnlyInTraps, InTrap
<1>3. TrapTypeOK' /\ MaskInv' /\ RegsInv' /\ StartInv' /\ FlowInv' /\ SavedInv'
  BY <1>1, <1>2
     DEF TrapTypeOK, MaskInv, MaskedOnlyInTraps, RegsInv, StartInv, FlowInv, SavedInv, InTrap, At
<1>4. VectorInv' /\ HandlerInv' /\ ReturnInv' /\ SwitchInv'
  BY <1>1 DEF VectorInv, HandlerInv, ReturnInv, SwitchInv, At, Switch
<1> QED
  BY <1>3, <1>4

\* What the registers hold after a restore: what was saved, but for t6.
LEMMA RestoredType ==
  ASSUME TrapTypeOK, NEW c \in Contexts
  PROVE  Restored(c) \in [Regs -> Values] /\ Restored(c)["a0"] = ctx[c].regs["a0"]
  BY ValueTypes DEF TrapTypeOK, Restored, Regs

\* mret, to a program or, when start_kernel was interrupted, back into switch_to,
\* which is then in user mode.
LEMMA MretKeeps ==
  ASSUME TrapInv, NEW target, Mret(target), mscratch \in Contexts,
         ~mstatus.mie \/ pc[1] = "switch_regs",
         pc[1] \in Switch \cup InTrap,
         regs' = Restored(mscratch),
         mepc' = target,
         UNCHANGED <<mcause, mscratch, ctx, msip, fault>>,
         \/ /\ target \in Program /\ target[1] = mscratch
            /\ mscratch = Os => mstatus.mpp = "M"
         \/ target \in Late /\ target = ctx[mscratch].pc
  PROVE  TrapInv'
<1> USE DEF TrapInv
<1>1. /\ pc' = target /\ mode' = mstatus.mpp
      /\ mstatus' = [mie |-> mstatus.mpie, mpie |-> TRUE, mpp |-> "U"]
  BY DEF Mret
<1>2. pc' \in Places /\ pc'[1] \in Contexts \cup {"switch_pc", "switch_regs"}
  BY <1>1, Disjoint DEF Late
<1>3. pc'[1] \notin InTrap \cup {"panic", "plic_init", "sched_init", "back_os", "switch"}
  BY <1>2, TrapAssumption DEF KernelCode, InTrap, Boot, Switch
<1>4. regs' \in [Regs -> Values] /\ regs'["a0"] = ctx[mscratch].regs["a0"]
  BY RestoredType
<1>5. TrapTypeOK'
  BY <1>1, <1>2, <1>4 DEF TrapTypeOK, MaskInv
<1>6. mstatus'.mie /\ mstatus'.mpie = TRUE
  BY <1>1 DEF MaskInv
<1>7. MaskInv'
  BY <1>3, <1>6 DEF MaskInv, MaskedOnlyInTraps
<1>8. RegsInv' /\ StartInv'
  BY <1>3, <1>4 DEF RegsInv, StartInv, InTrap, At
<1>9. FlowInv'
  BY <1>1, Disjoint DEF FlowInv, KernelInMachineMode
<1>10. mscratch # Null
  BY TrapAssumption
<1>11. SavedInv'
  BY <1>10 DEF SavedInv
<1>12. VectorInv' /\ HandlerInv' /\ ReturnInv'
  BY <1>3 DEF VectorInv, HandlerInv, ReturnInv, InTrap, At
<1>13. SwitchInv'
  <2> SUFFICES ASSUME pc'[1] \in Switch PROVE SwitchInv'
    BY DEF SwitchInv
  <2>1. target \notin Program
    BY <1>1, Disjoint DEF KernelCode, Boot
  <2>2. target \in Late /\ target = ctx[mscratch].pc /\ ctx[mscratch].pc \notin Program
    BY <2>1
  <2>3. ctx[mscratch].regs["a0"] = Address(mscratch)
    BY <1>10, <2>2 DEF SavedInv
  <2> QED
    BY <1>4, <2>2, <2>3 DEF SwitchInv
<1> QED
  BY <1>5, <1>7, <1>8, <1>9, <1>11, <1>12, <1>13

LEMMA ReturnKeeps ==
  ASSUME TrapInv, ReturnFromTrap
  PROVE  TrapInv'
<1>1. /\ mscratch \in Contexts /\ ~mstatus.mie /\ pc[1] = "return"
      /\ \/ /\ regs["a0"] \in Program /\ regs["a0"][1] = mscratch
            /\ mscratch = Os => mstatus.mpp = "M"
         \/ regs["a0"] \in Late /\ regs["a0"] = ctx[mscratch].pc
  BY DEF TrapInv, ReturnFromTrap, ReturnInv, MaskInv, MaskedOnlyInTraps, InTrap, At
<1> QED
  BY <1>1, MretKeeps DEF ReturnFromTrap, InTrap

\* switch_to.
LEMMA SwitchKeeps ==
  ASSUME TrapInv, SwitchScratch \/ SwitchPc \/ SwitchRegs
  PROVE  TrapInv'
<1> USE DEF TrapInv
<1>1. pc[1] \in Switch /\ mode = "M"
  BY DEF SwitchScratch, SwitchPc, SwitchRegs, At, Switch
<1>2. PICK c \in Contexts :
        /\ regs["a0"] = Address(c)
        /\ c = Os /\ ctx[c].pc \in Program => mstatus.mpp = "M"
        /\ pc[1] # "switch" => mscratch = c
        /\ pc[1] = "switch_regs" => mepc = ctx[c].pc
  BY <1>1 DEF SwitchInv
<1>3. Argument = c /\ c # Null /\ regs \in [Regs -> Values]
  BY <1>1, <1>2, TrapAssumption DEF Argument, Address, RegsInv, Switch
<1>4. (ctx[c].pc \in Program /\ ctx[c].pc[1] = c) \/ ctx[c].pc \in Late
  BY <1>1 DEF SavedInv, Switch
<1>5. CASE SwitchRegs
  <2>1. pc[1] = "switch_regs" /\ mscratch = c /\ mepc = ctx[c].pc
    BY <1>2, <1>5 DEF SwitchRegs, At
  <2> QED
    BY <1>2, <1>3, <1>4, <1>5, <2>1, MretKeeps DEF SwitchRegs, Switch
<1>6. CASE SwitchScratch \/ SwitchPc
  <2>1. PICK p \in {"switch_pc", "switch_regs"} :
          /\ Goto(p) /\ mscratch' = c /\ (p = "switch_regs" => mepc' = ctx[c].pc)
          /\ mepc' \in Places \cup {Zero}
    BY <1>2, <1>3, <1>6 DEF SwitchScratch, SwitchPc, At, TrapTypeOK
  <2>2. UNCHANGED <<regs, mode, mstatus, mcause, ctx, msip, fault>>
    BY <1>6 DEF SwitchScratch, SwitchPc
  <2>3. pc' = <<p, 0>> /\ pc' \in Places /\ pc' \notin Program
    BY <2>1, KernelPlace DEF KernelCode, Boot, Switch
  <2>4. TrapTypeOK'
    BY <2>1, <2>2, <2>3 DEF TrapTypeOK
  <2>5. MaskInv' /\ RegsInv' /\ StartInv' /\ FlowInv'
    BY <1>3, <2>2, <2>3
       DEF MaskInv, MaskedOnlyInTraps, RegsInv, StartInv, FlowInv, InTrap, At
  <2>6. SavedInv'
    BY <1>1, <2>2 DEF SavedInv, Switch
  <2>7. SwitchInv'
    BY <1>2, <2>1, <2>2, <2>3 DEF SwitchInv
  <2>8. VectorInv' /\ HandlerInv' /\ ReturnInv'
    BY <2>3 DEF VectorInv, HandlerInv, ReturnInv, At
  <2> QED
    BY <2>4, <2>5, <2>6, <2>7, <2>8
<1> QED
  BY <1>5, <1>6

LEMMA TrapNext == TrapInv /\ [Next]_trapVars => TrapInv'
<1> SUFFICES ASSUME TrapInv, [Next]_trapVars PROVE TrapInv'
  OBVIOUS
<1>1. CASE UNCHANGED trapVars
  BY <1>1
     DEF trapVars, TrapInv, TrapTypeOK, MaskInv, MaskedOnlyInTraps, RegsInv, StartInv, SavedInv,
         FlowInv, KernelInMachineMode, VectorInv, HandlerInv, ReturnInv, SwitchInv, At
<1>2. TimerInterrupt => HandlerReturns(mepc) \/ CallBackOs
  BY DEF TimerInterrupt
<1> QED
  BY <1>1, <1>2, TrapsKeep, FlowKeeps, BootKeeps, SaveContextKeeps, SwitchHandlersKeep,
     ReturnHandlersKeep, PanicKeeps, ReturnKeeps, SwitchKeeps
     DEF Next, Execute

THEOREM TrapInvariance == Spec => []TrapInv
  BY TrapInit, TrapNext, PTL DEF Spec

\* The hart never executes at an address nobody set, and registers and saved
\* contexts hold what they may (ctx.pc of sched_init, sched.c:30).
THEOREM TrapTypeCorrect == Spec => []TrapTypeOK
<1>1. TrapInv => TrapTypeOK
  BY DEF TrapInv
<1> QED
  BY <1>1, TrapInvariance, PTL

\* Interrupts are off all through a trap and on in every flow (trap_vector, and
\* the mstatus that the mret of entry.S leaves).
THEOREM AlwaysMaskedInTraps == Spec => []MaskedOnlyInTraps
<1>1. TrapInv => MaskedOnlyInTraps
  BY DEF TrapInv, MaskInv
<1> QED
  BY <1>1, TrapInvariance, PTL

\* However the kernel's loop is entered, it runs in machine mode (sched.c:178).
THEOREM KernelAlwaysInMachineMode == Spec => []KernelInMachineMode
<1>1. TrapInv => KernelInMachineMode
  BY DEF TrapInv, FlowInv, KernelInMachineMode
<1> QED
  BY <1>1, TrapInvariance, PTL

-----------------------------------------------------------------------------
(***************************************************************************)
(* Traps, system calls and switches are invisible to the flows.  The one   *)
(* place where a context holds something else than the state of its flow   *)
(* is the kernel's own before it has started: an interrupt may hit         *)
(* start_kernel inside of switch_to and save the registers of that.        *)
(***************************************************************************)

BlankRegs(r) == \A x \in Regs : r[x] = Blank \/ \E d \in Contexts : r[x] = Address(d)

Unstarted == BlankRegs(ctx[Os].regs) /\ ctx[Os].pc \notin Program \ {<<Os, 0>>}

Starting ==
  \/ pc[1] \in {"plic_init", "sched_init", "back_os"}
  \/ pc[1] \in Switch /\ mstatus.mie

StartedInv ==
  /\ \A t \in Tasks : ctx[t].pc \in Program
  /\ ctx[Os].pc \notin Program => Unstarted
  /\ Starting => /\ BlankRegs(regs) /\ Unstarted
                 /\ pc[1] \in Switch => regs["a0"] = Address(Os)
  /\ At("vector") /\ mepc \notin Program =>
       BlankRegs(regs) /\ Unstarted /\ mscratch \in {Null, Os}

LEMMA BlankProperties ==
  /\ BlankRegs(Clobbered)
  /\ \A c \in Contexts : BlankRegs([Clobbered EXCEPT !["a0"] = Address(c)])
  /\ \A c \in Contexts : BlankRegs(ctx[c].regs) => BlankRegs(Restored(c))
<1>1. BlankRegs(Clobbered)
  BY DEF BlankRegs, Clobbered
<1>2. ASSUME NEW c \in Contexts PROVE BlankRegs([Clobbered EXCEPT !["a0"] = Address(c)])
  BY DEF BlankRegs, Clobbered
<1>3. ASSUME NEW c \in Contexts, BlankRegs(ctx[c].regs) PROVE BlankRegs(Restored(c))
  <2>1. \A x \in Regs : Restored(c)[x] = ctx[c].regs[x] \/ Restored(c)[x] = Address(c)
    BY DEF Restored
  <2> QED
    BY <1>3, <2>1 DEF BlankRegs
<1> QED
  BY <1>1, <1>2, <1>3

LEMMA AddressInjective == \A c, d \in Contexts : Address(c) = Address(d) => c = d
  BY DEF Address

\* The saved contexts as they are, on the way into a trap or to a place of the
\* kernel that is not in start_kernel.
LEMMA StartedKept ==
  ASSUME TrapInv, StartedInv, ctx' = ctx, ~Starting',
         At("vector")' /\ mepc' \notin Program =>
           BlankRegs(regs') /\ Unstarted /\ mscratch' \in {Null, Os}
  PROVE  StartedInv'
<1>1. Unstarted' <=> Unstarted
  BY DEF Unstarted, BlankRegs
<1> QED
  BY <1>1 DEF StartedInv, Unstarted

\* What a trap interrupts is a flow, or start_kernel.
LEMMA TrapStarted ==
  ASSUME TrapInv, StartedInv, mstatus.mie, NEW cause, TrapTaken(cause),
         UNCHANGED <<regs, mscratch, ctx, msip, fault>>
  PROVE  StartedInv'
<1>1. pc' = <<"vector", 0>> /\ mepc' = pc
  BY DEF TrapTaken, Goto
<1>2. ~Starting'
  BY <1>1 DEF Starting, Switch
<1>3. ASSUME pc \notin Program
      PROVE  BlankRegs(regs) /\ Unstarted /\ mscratch \in {Null, Os}
  <2>1. pc[1] \in Boot
    BY <1>3, TrapFrom
  <2>2. Starting
    BY <2>1 DEF Starting, Boot
  <2>3. BlankRegs(regs) /\ Unstarted
    BY <2>2 DEF StartedInv
  <2>4. CASE mscratch # Null
    <3>1. pc \in Late
      BY <1>3, <2>4, TrapFrom
    <3>2. pc[1] \in Switch /\ pc[1] # "switch"
      BY <3>1, Disjoint DEF Late
    <3>3. regs["a0"] = Address(Os)
      BY <2>2, <3>2 DEF StartedInv
    <3>4. PICK c \in Contexts : regs["a0"] = Address(c) /\ mscratch = c
      BY <3>2 DEF TrapInv, SwitchInv
    <3> QED
      BY <2>3, <3>3, <3>4, AddressInjective, ValueTypes
  <2> QED
    BY <2>3, <2>4
<1> QED
  BY <1>1, <1>2, <1>3, StartedKept

\* mret ends in a flow, or late in the switch_to that start_kernel was in.
LEMMA ArriveStarted ==
  ASSUME TrapInv, StartedInv, NEW c \in Contexts, regs' = Restored(c), ctx' = ctx,
         pc' \in Program \/ (pc' \in Late /\ pc' = ctx[c].pc)
  PROVE  StartedInv'
<1>0. Unstarted' <=> Unstarted
  BY DEF Unstarted, BlankRegs
<1>1. CASE pc' \in Program
  <2>1. pc'[1] \notin KernelCode
    BY <1>1, Disjoint
  <2>2. ~Starting' /\ ~At("vector")'
    BY <2>1 DEF Starting, At, KernelCode, Boot, InTrap
  <2> QED
    BY <2>2, StartedKept
<1>2. CASE pc' \in Late /\ pc' = ctx[c].pc
  <2>1. pc' \notin Program /\ pc'[1] \in Switch /\ pc'[1] # "vector" /\ ctx[c].pc # Zero
    BY <1>2, Disjoint DEF Switch, Late
  <2>2. c = Os
    BY <1>2, <2>1 DEF StartedInv, Contexts
  <2>3. Unstarted /\ BlankRegs(regs')
    BY <1>2, <2>1, <2>2, BlankProperties DEF StartedInv, Unstarted
  <2>4. ctx[c].regs["a0"] = Address(c)
    BY <1>2, <2>1 DEF TrapInv, SavedInv
  <2>5. regs'["a0"] = Address(Os)
    BY <2>2, <2>4, RestoredType DEF TrapInv
  <2> QED
    BY <1>0, <2>1, <2>3, <2>5 DEF StartedInv, At, Unstarted
<1> QED
  BY <1>1, <1>2

LEMMA StartedInit == Init => StartedInv
<1> SUFFICES ASSUME Init PROVE StartedInv
  OBVIOUS
<1>1. \A t \in Tasks : t \in Contexts /\ t # Os /\ <<t, 0>> \in Program
  BY TrapAssumption DEF Program, Contexts
<1>2. \A t \in Tasks : ctx[t].pc \in Program
  BY <1>1 DEF Init
<1>3. BlankRegs(regs) /\ Unstarted
  BY BlankProperties, Disjoint, ValueTypes DEF Init, Unstarted
<1> QED
  BY <1>2, <1>3 DEF Init, StartedInv, At, Switch

LEMMA StartedNext == TrapInv /\ StartedInv /\ [Next]_trapVars => StartedInv'
<1> SUFFICES ASSUME TrapInv, StartedInv, [Next]_trapVars PROVE StartedInv'
  OBVIOUS
<1>0. ctx' = ctx => (Unstarted' <=> Unstarted)
  BY DEF Unstarted, BlankRegs
<1>1. CASE Exception \/ Interrupt \/ SwitchIllegal
  <2>1. mstatus.mie
    BY <1>1 DEF Exception, Interrupt, SwitchIllegal, TrapInv, MaskInv, MaskedOnlyInTraps
  <2> QED
    BY <1>1, <2>1, TrapStarted DEF Exception, Interrupt, SwitchIllegal
<1>2. CASE Instruction \/ Yield
  <2>1. pc' \in Program /\ ctx' = ctx
    BY <1>2, NextPcType DEF Instruction, Yield
  <2>2. pc'[1] \notin KernelCode
    BY <2>1, Disjoint
  <2>3. ~Starting' /\ ~At("vector")'
    BY <2>2 DEF Starting, At, KernelCode, Boot, InTrap
  <2> QED
    BY <2>1, <2>3, StartedKept
<1>3. CASE PlicInit \/ StartKernel
  <2>1. ctx' = ctx /\ Starting
    BY <1>3 DEF PlicInit, StartKernel, Starting, At
  <2>2. BlankRegs(regs) /\ Unstarted
    BY <2>1 DEF StartedInv
  <2>3. \/ pc' = <<"sched_init", 0>> /\ regs' = regs
        \/ pc' = <<"switch", 0>> /\ regs' = [Clobbered EXCEPT !["a0"] = Address(Os)]
    BY <1>3 DEF PlicInit, StartKernel, CallBackOs, CallSwitchTo, Goto
  <2>4. BlankRegs(regs')
    BY <2>2, <2>3, BlankProperties, ValueTypes
  <2>5. pc'[1] \in Switch => regs'["a0"] = Address(Os)
    BY <2>3 DEF Switch, Clobbered, Regs
  <2>6. ~At("vector")'
    BY <2>3 DEF At
  <2> QED
    BY <1>0, <2>1, <2>2, <2>4, <2>5, <2>6 DEF StartedInv, Unstarted
<1>4. CASE SchedInit
  <2>1. /\ ctx' = [ctx EXCEPT ![Os].pc = <<Os, 0>>] /\ regs' = regs
        /\ pc' = <<"back_os", 0>> /\ Starting
    BY <1>4 DEF SchedInit, Goto, Starting, At
  <2>2. /\ ctx'[Os].pc = <<Os, 0>> /\ ctx'[Os].regs = ctx[Os].regs
        /\ \A t \in Tasks : ctx'[t] = ctx[t]
    BY <2>1, TrapAssumption, ValueTypes DEF TrapInv, TrapTypeOK
  <2>3. BlankRegs(regs) /\ Unstarted
    BY <2>1 DEF StartedInv
  <2>4. Unstarted'
    BY <2>2, <2>3 DEF Unstarted
  <2> QED
    BY <2>1, <2>2, <2>3, <2>4 DEF StartedInv, At, Switch
<1>5. CASE SaveContext
  <2>1. CASE mscratch = Null
    <3>1. UNCHANGED <<pc, ctx, regs, mepc, mscratch>> /\ At("vector")
      BY <1>5, <2>1 DEF SaveContext
    <3>2. ~Starting'
      BY <3>1 DEF Starting, At, Switch
    <3>3. At("vector") /\ mepc \notin Program =>
            BlankRegs(regs) /\ Unstarted /\ mscratch \in {Null, Os}
      BY DEF StartedInv
    <3> QED
      BY <3>1, <3>2, <3>3, StartedKept
  <2>2. CASE mscratch # Null
    <3>1. /\ ctx' = [ctx EXCEPT ![mscratch] = [regs |-> regs, pc |-> mepc]]
          /\ pc' = <<"handler", 0>> /\ At("vector")
      BY <1>5, <2>2 DEF SaveContext, Goto, Saved
    <3>2. mscratch \in Contexts
      BY <2>2 DEF TrapInv, TrapTypeOK
    <3>3. /\ ctx'[mscratch] = [regs |-> regs, pc |-> mepc]
          /\ \A d \in Contexts : d # mscratch => ctx'[d] = ctx[d]
      BY <3>1, <3>2 DEF TrapInv, TrapTypeOK
    <3>4. mepc \notin Program => mscratch = Os /\ BlankRegs(regs)
      BY <2>2, <3>1 DEF StartedInv
    <3>5. \A t \in Tasks : ctx'[t].pc \in Program
      <4> SUFFICES ASSUME NEW t \in Tasks PROVE ctx'[t].pc \in Program
        OBVIOUS
      <4>1. t \in Contexts /\ t # Os
        BY TrapAssumption DEF Contexts
      <4>2. CASE t = mscratch
        BY <3>3, <3>4, <4>1, <4>2
      <4>3. CASE t # mscratch
        BY <3>3, <4>1, <4>3 DEF StartedInv
      <4> QED
        BY <4>2, <4>3
    <3>6. ctx'[Os].pc \notin Program => Unstarted'
      <4>1. CASE mscratch = Os
        <5>1. ctx'[Os] = [regs |-> regs, pc |-> mepc]
          BY <3>3, <4>1
        <5> QED
          BY <3>4, <5>1 DEF Unstarted
      <4>2. CASE mscratch # Os
        <5>1. ctx'[Os] = ctx[Os]
          BY <3>3, <4>2, ValueTypes
        <5> QED
          BY <5>1 DEF Unstarted, StartedInv
      <4> QED
        BY <4>1, <4>2
    <3>7. ~Starting' /\ ~At("vector")'
      BY <3>1 DEF Starting, At, Switch
    <3> QED
      BY <3>5, <3>6, <3>7 DEF StartedInv
  <2> QED
    BY <2>1, <2>2
<1>6. CASE SoftwareInterrupt \/ TimerInterrupt \/ ExternalInterrupt \/ Panic
  <2>1. ~mstatus.mie
    BY <1>6 DEF SoftwareInterrupt, TimerInterrupt, ExternalInterrupt, Panic, TrapInv, MaskInv,
                MaskedOnlyInTraps, At, InTrap
  <2>2. mstatus'.mie = mstatus.mie
    BY <1>6 DEF SoftwareInterrupt, TimerInterrupt, ExternalInterrupt, Panic, HandlerReturns,
                CallBackOs, BackOsStatus, TrapInv, TrapTypeOK
  <2>3. ctx' = ctx /\ pc' \in {<<"return", 0>>, <<"switch", 0>>, <<"panic", 0>>}
    BY <1>6 DEF SoftwareInterrupt, TimerInterrupt, ExternalInterrupt, Panic, HandlerReturns,
                CallBackOs, CallSwitchTo, Goto
  <2>4. ~Starting' /\ ~At("vector")'
    BY <2>1, <2>2, <2>3 DEF Starting, At, Switch
  <2> QED
    BY <2>3, <2>4, StartedKept
<1>7. CASE SystemCall
  <2>1. PICK v : ctx' = [ctx EXCEPT ![mscratch].regs["a0"] = v]
    BY <1>7 DEF SystemCall
  <2>2. mscratch \in Contexts /\ ctx[mscratch].pc \in Program /\ pc' = <<"return", 0>>
    BY <1>7 DEF SystemCall, HandlerReturns, Goto, TrapInv, HandlerInv
  <2>3. \A d \in Contexts : ctx'[d].pc = ctx[d].pc /\ (d # mscratch => ctx'[d] = ctx[d])
    BY <2>1, <2>2 DEF TrapInv, TrapTypeOK
  <2>4. \A t \in Tasks : ctx'[t].pc \in Program
    BY <2>3 DEF StartedInv, Contexts
  <2>5. ctx'[Os].pc \notin Program => Unstarted'
    BY <2>2, <2>3, ValueTypes DEF StartedInv, Unstarted
  <2>6. ~Starting' /\ ~At("vector")'
    BY <2>2 DEF Starting, At, Switch
  <2> QED
    BY <2>4, <2>5, <2>6 DEF StartedInv
<1>8. CASE ReturnFromTrap
  <2>1. mscratch \in Contexts /\ (regs["a0"] \in Program \/ (regs["a0"] \in Late /\ regs["a0"] = ctx[mscratch].pc))
    BY <1>8 DEF ReturnFromTrap, TrapInv, ReturnInv
  <2> QED
    BY <1>8, <2>1, ArriveStarted DEF ReturnFromTrap, Mret
<1>9. CASE SwitchScratch \/ SwitchPc
  <2>1. /\ ctx' = ctx /\ regs' = regs /\ mstatus' = mstatus /\ pc[1] \in Switch
        /\ pc' \in Late /\ pc'[1] \in Switch
    BY <1>9 DEF SwitchScratch, SwitchPc, Goto, At, Switch, Late
  <2>2. ~At("vector")'
    BY <2>1 DEF At, Switch
  <2>3. Starting' => Starting
    BY <2>1 DEF Starting, Switch
  <2> QED
    BY <1>0, <2>1, <2>2, <2>3 DEF StartedInv, Unstarted
<1>10. CASE SwitchRegs
  <2>1. At("switch_regs") /\ pc[1] \in Switch
    BY <1>10 DEF SwitchRegs, At, Switch
  <2>2. PICK c \in Contexts : regs["a0"] = Address(c) /\ mscratch = c /\ mepc = ctx[c].pc
    BY <2>1 DEF TrapInv, SwitchInv, At
  <2>3. Argument = c
    BY <2>2 DEF Argument, Address
  <2>4. mscratch # Null
    BY <2>2, TrapAssumption
  <2>5. ctx[c].pc \in Program \/ ctx[c].pc \in Late
    BY <2>4 DEF TrapInv, SavedInv
  <2> QED
    BY <1>10, <2>2, <2>3, <2>5, ArriveStarted DEF SwitchRegs, Mret
<1>11. CASE UNCHANGED trapVars
  BY <1>11 DEF trapVars, StartedInv, Starting, Unstarted, At
<1> QED
  BY <1>1, <1>2, <1>3, <1>4, <1>5, <1>6, <1>7, <1>8, <1>9, <1>10, <1>11 DEF Next, Execute

\* The state of a flow that neither executes nor is entering or leaving a trap.
Rest(c) == [regs |-> ctx[c].regs,
            pc   |-> IF c = Os /\ ctx[c].pc \notin Program THEN <<c, 0>> ELSE ctx[c].pc]

\* Which case of FlowState applies where.
LEMMA FlowStates ==
  ASSUME NEW c \in Contexts
  PROVE  /\ pc \in Program =>
              FlowState(c) = IF pc[1] = c THEN [regs |-> regs, pc |-> pc] ELSE Rest(c)
         /\ At("vector") /\ pc \notin Program =>
              FlowState(c) = IF mepc \in Program /\ mepc[1] = c
                             THEN [regs |-> regs, pc |-> mepc] ELSE Rest(c)
         /\ At("return") /\ pc \notin Program =>
              FlowState(c) = IF mscratch = c /\ regs["a0"] \in Program
                             THEN [regs |-> ctx[c].regs, pc |-> regs["a0"]] ELSE Rest(c)
         /\ pc \notin Program /\ ~At("vector") /\ ~At("return") => FlowState(c) = Rest(c)
<1>1. pc \in Program => ~At("vector") /\ ~At("return")
  BY Disjoint DEF At, KernelCode, InTrap
<1>2. ~(At("vector") /\ At("return"))
  BY DEF At
<1> QED
  BY <1>1, <1>2 DEF FlowState, Rest

LEMMA NextFlowStates ==
  ASSUME NEW c \in Contexts
  PROVE  /\ pc' \in Program =>
              FlowState(c)' = IF pc'[1] = c THEN [regs |-> regs', pc |-> pc'] ELSE Rest(c)'
         /\ At("vector")' /\ pc' \notin Program =>
              FlowState(c)' = IF mepc' \in Program /\ mepc'[1] = c
                              THEN [regs |-> regs', pc |-> mepc'] ELSE Rest(c)'
         /\ At("return")' /\ pc' \notin Program =>
              FlowState(c)' = IF mscratch' = c /\ regs'["a0"] \in Program
                              THEN [regs |-> ctx'[c].regs, pc |-> regs'["a0"]] ELSE Rest(c)'
         /\ pc' \notin Program /\ ~At("vector")' /\ ~At("return")' => FlowState(c)' = Rest(c)'
<1>1. pc' \in Program => ~At("vector")' /\ ~At("return")'
  BY Disjoint DEF At, KernelCode, InTrap
<1>2. ~(At("vector")' /\ At("return")')
  BY DEF At
<1> QED
  BY <1>1, <1>2 DEF FlowState, Rest

Views == [c \in Contexts |-> View(c)]

\* Two states of a flow that Flows does not tell apart.
Same(s, u) == s.pc = u.pc /\ \A r \in Seen : Known(s.regs[r]) = Known(u.regs[r])

LEMMA SameViews ==
  ASSUME \A c \in Contexts : Same(FlowState(c)', FlowState(c))
  PROVE  UNCHANGED Views
<1>1. ASSUME NEW c \in Contexts PROVE View(c)' = View(c)
  BY DEF View, Same
<1> QED
  BY <1>1 DEF Views

LEMMA KnownProperties ==
  /\ Known(Blank) = Blank
  /\ \A d \in Contexts : Known(Address(d)) = Blank /\ Known(Own(d)) = Own(d)
  /\ \A v \in Results : Known(v) = v
  BY DEF Known, Address, Own, Blank, Results

LEMMA BlankSame ==
  ASSUME NEW r, NEW s, BlankRegs(r), BlankRegs(s)
  PROVE  \A x \in Seen : Known(r[x]) = Known(s[x])
  BY KnownProperties, TrapAssumption DEF BlankRegs

\* All registers but t6 are restored to what was saved.
LEMMA RestoredSame ==
  ASSUME TrapTypeOK, "t6" \notin Seen, NEW c \in Contexts
  PROVE  \A r \in Seen : Restored(c)[r] = ctx[c].regs[r]
  BY TrapAssumption DEF Restored, TrapTypeOK

\* A trap is taken.
LEMMA TrapSame ==
  ASSUME TrapInv, mstatus.mie, NEW cause, TrapTaken(cause),
         UNCHANGED <<regs, mscratch, ctx, msip, fault>>
  PROVE  UNCHANGED Views
<1>1. pc' = <<"vector", 0>> /\ mepc' = pc /\ pc' \notin Program /\ At("vector")'
  BY Disjoint DEF TrapTaken, Goto, At, KernelCode, InTrap
<1>2. ASSUME NEW c \in Contexts PROVE FlowState(c)' = FlowState(c)
  <2>1. Rest(c)' = Rest(c)
    BY DEF Rest
  <2>2. FlowState(c)' = IF pc \in Program /\ pc[1] = c
                        THEN [regs |-> regs, pc |-> pc] ELSE Rest(c)
    BY <1>1, <2>1, NextFlowStates
  <2>3. CASE pc \in Program
    BY <2>2, <2>3, FlowStates
  <2>4. CASE pc \notin Program
    <3>1. pc[1] \in Boot
      BY <2>4, TrapFrom
    <3>2. ~At("vector") /\ ~At("return")
      BY <3>1 DEF Boot, Switch, At
    <3> QED
      BY <2>2, <2>4, <3>2, FlowStates
  <2> QED
    BY <2>3, <2>4
<1> QED
  BY <1>2, SameViews DEF Same

\* A step between places in the kernel's code, none of them at the edge of a trap.
LEMMA KernelSame ==
  ASSUME pc \notin Program, ~At("vector"), ~At("return"),
         pc' \notin Program, ~At("vector")', ~At("return")',
         ctx' = ctx
  PROVE  UNCHANGED Views
<1>1. ASSUME NEW c \in Contexts PROVE FlowState(c)' = FlowState(c)
  BY FlowStates, NextFlowStates DEF Rest
<1> QED
  BY <1>1, SameViews DEF Same

\* sched_init gives the kernel the place it starts from.
LEMMA SchedInitSame ==
  ASSUME TrapInv, StartedInv, SchedInit
  PROVE  UNCHANGED Views
<1>1. /\ pc = <<"sched_init", 0>> \/ pc[1] = "sched_init"
      /\ pc' = <<"back_os", 0>> /\ ctx' = [ctx EXCEPT ![Os].pc = <<Os, 0>>]
  BY DEF SchedInit, At, Goto
<1>2. pc \notin Program /\ pc' \notin Program
  BY <1>1, Disjoint DEF KernelCode, Boot
<1>3. /\ ~At("vector") /\ ~At("return") /\ ~At("vector")' /\ ~At("return")'
  BY <1>1 DEF At
<1>4. Unstarted
  BY <1>1 DEF StartedInv, Starting
<1>5. ASSUME NEW c \in Contexts PROVE Rest(c)' = Rest(c)
  <2>1. ctx'[c].regs = ctx[c].regs /\ (c # Os => ctx'[c].pc = ctx[c].pc)
    BY <1>1 DEF TrapInv, TrapTypeOK
  <2>2. c = Os => ctx'[c].pc = <<Os, 0>>
    BY <1>1 DEF TrapInv, TrapTypeOK
  <2> QED
    BY <1>4, <2>1, <2>2 DEF Rest, Unstarted
<1>6. ASSUME NEW c \in Contexts PROVE FlowState(c)' = FlowState(c)
  BY <1>2, <1>3, <1>5, FlowStates, NextFlowStates
<1> QED
  BY <1>6, SameViews DEF Same

\* trap_vector saves the flow that was interrupted; interrupted in switch_to, it
\* saves registers that hold nothing of the kernel's yet.
LEMMA SaveSame ==
  ASSUME TrapInv, StartedInv, SaveContext
  PROVE  UNCHANGED Views
<1>0. At("vector") /\ pc \notin Program
  BY Disjoint DEF SaveContext, At, KernelCode, InTrap
<1>1. CASE mscratch = Null
  <2>1. UNCHANGED <<pc, ctx, regs, mepc, mscratch>>
    BY <1>1 DEF SaveContext
  <2>2. ASSUME NEW c \in Contexts PROVE FlowState(c)' = FlowState(c)
    BY <1>0, <2>1, FlowStates, NextFlowStates DEF Rest, At
  <2> QED
    BY <2>2, SameViews DEF Same
<1>2. CASE mscratch # Null
  <2>1. /\ ctx' = [ctx EXCEPT ![mscratch] = [regs |-> regs, pc |-> mepc]]
        /\ pc' = <<"handler", 0>> /\ mscratch \in Contexts
    BY <1>2 DEF SaveContext, Goto, Saved, TrapInv, TrapTypeOK
  <2>2. pc' \notin Program /\ ~At("vector")' /\ ~At("return")'
    BY <2>1, Disjoint DEF At, KernelCode, InTrap
  <2>3. /\ ctx'[mscratch] = [regs |-> regs, pc |-> mepc]
        /\ \A d \in Contexts : d # mscratch => ctx'[d] = ctx[d]
    BY <2>1 DEF TrapInv, TrapTypeOK
  <2>4. mepc \in Program => mepc[1] = mscratch
    BY <1>0, <1>2, Disjoint DEF TrapInv, VectorInv
  <2>5. ASSUME NEW c \in Contexts PROVE Same(FlowState(c)', FlowState(c))
    <3>1. FlowState(c)' = Rest(c)'
      BY <2>2, NextFlowStates
    <3>2. FlowState(c) = IF mepc \in Program /\ mepc[1] = c
                         THEN [regs |-> regs, pc |-> mepc] ELSE Rest(c)
      BY <1>0, FlowStates
    <3>3. CASE c # mscratch
      <4>1. Rest(c)' = Rest(c)
        BY <2>3, <3>3 DEF Rest
      <4>2. ~(mepc \in Program /\ mepc[1] = c)
        BY <2>4, <3>3
      <4> QED
        BY <3>1, <3>2, <4>1, <4>2 DEF Same
    <3>4. CASE c = mscratch /\ mepc \in Program
      <4>1. Rest(c)' = [regs |-> regs, pc |-> mepc]
        BY <2>3, <3>4 DEF Rest
      <4> QED
        BY <2>4, <3>1, <3>2, <3>4, <4>1 DEF Same
    <3>5. CASE c = mscratch /\ mepc \notin Program
      <4>1. BlankRegs(regs) /\ Unstarted /\ c = Os
        BY <1>0, <1>2, <3>5 DEF StartedInv
      <4>2. Rest(c)' = [regs |-> regs, pc |-> <<c, 0>>]
        BY <2>3, <3>5, <4>1 DEF Rest
      <4>3. Rest(c) = [regs |-> ctx[c].regs, pc |-> <<c, 0>>]
        BY <4>1 DEF Rest, Unstarted
      <4>4. \A x \in Seen : Known(regs[x]) = Known(ctx[c].regs[x])
        BY <4>1, BlankSame DEF Unstarted
      <4> QED
        BY <3>1, <3>2, <3>5, <4>2, <4>3, <4>4 DEF Same
    <3> QED
      BY <3>3, <3>4, <3>5
  <2> QED
    BY <2>5, SameViews
<1> QED
  BY <1>1, <1>2

\* trap_handler returns to where the trap was taken.
LEMMA HandlerReturnsSame ==
  ASSUME TrapInv, At("handler"), HandlerReturns(mepc), ctx' = ctx, mscratch' = mscratch
  PROVE  UNCHANGED Views
<1>1. /\ pc' = <<"return", 0>> /\ regs'["a0"] = mepc
      /\ mscratch \in Contexts /\ mepc = ctx[mscratch].pc
  BY DEF HandlerReturns, Goto, Clobbered, Regs, TrapInv, HandlerInv
<1>2. /\ pc \notin Program /\ pc' \notin Program
      /\ At("return")' /\ ~At("vector") /\ ~At("return")
  BY <1>1, Disjoint DEF At, KernelCode, InTrap
<1>3. ASSUME NEW c \in Contexts PROVE FlowState(c)' = FlowState(c)
  <2>1. FlowState(c) = Rest(c) /\ Rest(c)' = Rest(c)
    BY <1>2, FlowStates DEF Rest
  <2>2. FlowState(c)' = IF mscratch = c /\ mepc \in Program
                        THEN [regs |-> ctx[c].regs, pc |-> mepc] ELSE Rest(c)
    BY <1>1, <1>2, <2>1, NextFlowStates
  <2> QED
    BY <1>1, <2>1, <2>2 DEF Rest
<1> QED
  BY <1>3, SameViews DEF Same

\* The hart arrives at what a saved context goes on with.
LEMMA ArriveSame ==
  ASSUME TrapInv, StartedInv, "t6" \notin Seen, NEW c \in Contexts,
         pc \notin Program, ~At("vector"), ctx' = ctx, regs' = Restored(c),
         FlowState(c).regs = ctx[c].regs,
         \A d \in Contexts \ {c} : FlowState(d) = Rest(d),
         \/ pc' \in Program /\ pc'[1] = c /\ FlowState(c).pc = pc'
         \/ pc' \in Late /\ FlowState(c) = Rest(c)
  PROVE  UNCHANGED Views
<1>1. \A d \in Contexts : Rest(d)' = Rest(d)
  BY DEF Rest
<1>2. TrapTypeOK
  BY DEF TrapInv
<1>3. CASE pc' \in Program /\ pc'[1] = c /\ FlowState(c).pc = pc'
  <2>1. \A d \in Contexts : FlowState(d)' = IF c = d THEN [regs |-> regs', pc |-> pc'] ELSE Rest(d)
    BY <1>1, <1>3, NextFlowStates
  <2>2. \A r \in Seen : regs'[r] = ctx[c].regs[r]
    BY <1>2, RestoredSame
  <2>3. Same(FlowState(c)', FlowState(c))
    BY <1>3, <2>1, <2>2 DEF Same
  <2>4. \A d \in Contexts \ {c} : FlowState(d)' = FlowState(d)
    BY <2>1
  <2> QED
    BY <2>3, <2>4, SameViews DEF Same
<1>4. CASE pc' \in Late /\ FlowState(c) = Rest(c)
  <2>1. pc' \notin Program /\ ~At("vector")' /\ ~At("return")'
    BY <1>4, Disjoint DEF Late, At
  <2>2. \A d \in Contexts : FlowState(d)' = FlowState(d)
    BY <1>1, <1>4, <2>1, NextFlowStates
  <2> QED
    BY <2>2, SameViews DEF Same
<1> QED
  BY <1>3, <1>4

LEMMA ReturnSame ==
  ASSUME TrapInv, StartedInv, "t6" \notin Seen, ReturnFromTrap
  PROVE  UNCHANGED Views
<1>1. /\ At("return") /\ pc \notin Program /\ ~At("vector")
      /\ regs' = Restored(mscratch) /\ pc' = regs["a0"] /\ ctx' = ctx
      /\ mscratch \in Contexts
  BY Disjoint DEF ReturnFromTrap, Mret, At, KernelCode, InTrap, TrapInv, ReturnInv
<1>2. \/ regs["a0"] \in Program /\ regs["a0"][1] = mscratch
      \/ regs["a0"] \in Late /\ regs["a0"] \notin Program
  BY <1>1, Disjoint DEF TrapInv, ReturnInv
<1>3. \A d \in Contexts :
        FlowState(d) = IF mscratch = d /\ regs["a0"] \in Program
                       THEN [regs |-> ctx[d].regs, pc |-> regs["a0"]] ELSE Rest(d)
  BY <1>1, FlowStates
<1>4. FlowState(mscratch).regs = ctx[mscratch].regs
  BY <1>1, <1>3 DEF Rest
<1>5. \A d \in Contexts \ {mscratch} : FlowState(d) = Rest(d)
  BY <1>3
<1>6. CASE regs["a0"] \in Program /\ regs["a0"][1] = mscratch
  <2>1. FlowState(mscratch).pc = pc'
    BY <1>1, <1>3, <1>6
  <2> QED
    BY <1>1, <1>4, <1>5, <1>6, <2>1, ArriveSame
<1>7. CASE regs["a0"] \in Late /\ regs["a0"] \notin Program
  <2>1. FlowState(mscratch) = Rest(mscratch)
    BY <1>1, <1>3, <1>7
  <2> QED
    BY <1>1, <1>4, <1>5, <1>7, <2>1, ArriveSame
<1> QED
  BY <1>2, <1>6, <1>7

LEMMA SwitchSame ==
  ASSUME TrapInv, StartedInv, "t6" \notin Seen, SwitchRegs
  PROVE  UNCHANGED Views
<1>1. /\ pc[1] = "switch_regs" /\ pc[1] \in Switch /\ pc \notin Program
      /\ ~At("vector") /\ ~At("return")
  BY Disjoint DEF SwitchRegs, At, KernelCode, Boot, Switch
<1>2. PICK c \in Contexts : regs["a0"] = Address(c) /\ mscratch = c /\ mepc = ctx[c].pc
  BY <1>1 DEF TrapInv, SwitchInv
<1>3. Argument = c /\ mscratch # Null
  BY <1>2, TrapAssumption DEF Argument, Address
<1>4. regs' = Restored(c) /\ pc' = ctx[c].pc /\ ctx' = ctx
  BY <1>2, <1>3 DEF SwitchRegs, Mret
<1>5. (ctx[c].pc \in Program /\ ctx[c].pc[1] = c) \/ ctx[c].pc \in Late
  BY <1>3 DEF TrapInv, SavedInv
<1>6. \A d \in Contexts : FlowState(d) = Rest(d)
  BY <1>1, FlowStates
<1>7. FlowState(c).regs = ctx[c].regs /\ (ctx[c].pc \in Program => FlowState(c).pc = ctx[c].pc)
  BY <1>6 DEF Rest
<1> QED
  BY <1>1, <1>4, <1>5, <1>6, <1>7, ArriveSame

\* The view of flow c alone changes, in register r, and moves on from p.
Stepped(c, r, v, p) ==
  /\ \A d \in Contexts \ {c} : View(d)' = View(d)
  /\ View(c) = [regs |-> View(c).regs, pc |-> p]
  /\ View(c)' = [regs |-> [View(c).regs EXCEPT ![r] = v], pc |-> NextPc(p)]

FlowStep(c, r, v) == Views' = [Views EXCEPT ![c].regs[r] = v, ![c].pc = F!NextPc(@)]

LEMMA ViewsStep ==
  ASSUME NEW c \in Contexts, NEW r, NEW v, NEW p, Stepped(c, r, v, p)
  PROVE  FlowStep(c, r, v)
<1> USE DEF Stepped
<1> DEFINE one == [Views EXCEPT ![c].regs[r] = v]
           two == [Views EXCEPT ![c].regs[r] = v, ![c].pc = F!NextPc(@)]
<1>1. Views = [d \in Contexts |-> View(d)] /\ Views' = [d \in Contexts |-> View(d)']
  BY DEF Views
<1>2. F!NextPc(p) = NextPc(p)
  BY DEF F!NextPc, NextPc
<1>3. Views[c] = [regs |-> View(c).regs, pc |-> p]
  BY <1>1
<1>4. one = [Views EXCEPT ![c] = [regs |-> [View(c).regs EXCEPT ![r] = v], pc |-> p]]
  <2>1. one = [Views EXCEPT ![c] = [Views[c] EXCEPT !.regs = [Views[c].regs EXCEPT ![r] = v]]]
    OBVIOUS
  <2> HIDE DEF one
  <2>2. Views[c].regs = View(c).regs
    BY <1>3
  <2>3. [Views[c] EXCEPT !.regs = [View(c).regs EXCEPT ![r] = v]]
          = [regs |-> [View(c).regs EXCEPT ![r] = v], pc |-> p]
    BY <1>3
  <2> QED
    BY <2>1, <2>2, <2>3
<1>5. two = [one EXCEPT ![c] = [one[c] EXCEPT !.pc = F!NextPc(one[c].pc)]]
  OBVIOUS
<1> HIDE DEF F!NextPc, one, two
<1>6. one[c] = [regs |-> [View(c).regs EXCEPT ![r] = v], pc |-> p]
  BY <1>1, <1>4
<1>7. two = [one EXCEPT ![c] = View(c)']
  <2>1. [one[c] EXCEPT !.pc = F!NextPc(one[c].pc)] = View(c)'
    <3>1. one[c].pc = p
      BY <1>6
    <3>2. F!NextPc(one[c].pc) = NextPc(p)
      BY <1>2, <3>1
    <3> QED
      BY <1>6, <3>2
  <2> QED
    BY <1>5, <2>1
<1>8. two = [Views EXCEPT ![c] = View(c)']
  BY <1>1, <1>4, <1>7
<1>9. two = Views'
  BY <1>1, <1>8
<1> QED
  BY <1>9 DEF two, FlowStep

\* One instruction of a flow: it sees its own write, the others see nothing.
LEMMA InstructionMaps ==
  ASSUME TrapInv, Instruction \/ Yield
  PROVE  \E c \in Contexts : F!Compute(c)
<1>0. PICK c \in Contexts : c = pc[1]
  BY Disjoint DEF Instruction, Yield
<1>1. /\ pc \in Program /\ pc[1] = c /\ pc' = NextPc(pc) /\ ctx' = ctx
      /\ pc' \in Program /\ pc'[1] = c /\ pc[1] \notin KernelCode
  BY <1>0, NextPcType, Disjoint DEF Instruction, Yield
<1>2. regs \in [Regs -> Values]
  BY <1>1 DEF TrapInv, RegsInv, KernelCode, InTrap
<1>3. PICK x \in Regs : regs' = regs \/ regs' = [regs EXCEPT ![x] = Own(c)]
  BY <1>0 DEF Instruction, Yield, Regs
<1>4. \A d \in Contexts :
        /\ FlowState(d) = IF c = d THEN [regs |-> regs, pc |-> pc] ELSE Rest(d)
        /\ FlowState(d)' = IF c = d THEN [regs |-> regs', pc |-> pc'] ELSE Rest(d)
  <2>1. \A d \in Contexts : Rest(d)' = Rest(d)
    BY <1>1 DEF Rest
  <2> QED
    BY <1>1, <2>1, FlowStates, NextFlowStates
<1>5. \A d \in Contexts \ {c} : View(d)' = View(d)
  <2>1. \A d \in Contexts \ {c} : FlowState(d)' = FlowState(d)
    BY <1>4
  <2> QED
    BY <2>1 DEF View
<1>6. View(c) = [regs |-> [r \in Seen |-> Known(regs[r])], pc |-> pc]
  BY <1>1, <1>4 DEF View
<1>7. View(c)' = [regs |-> [r \in Seen |-> Known(regs'[r])], pc |-> NextPc(pc)]
  BY <1>1, <1>4 DEF View
<1>8. PICK r \in Seen : \E v \in {Own(c), View(c).regs[r]} :
        View(c)' = [regs |-> [View(c).regs EXCEPT ![r] = v], pc |-> NextPc(pc)]
  <2>1. CASE regs' = [regs EXCEPT ![x] = Own(c)] /\ x \in Seen
    <3>1. \A y \in Seen : Known(regs'[y]) = IF y = x THEN Own(c) ELSE Known(regs[y])
      BY <1>1, <1>2, <2>1, KnownProperties, TrapAssumption
    <3>2. [y \in Seen |-> Known(regs'[y])] = [View(c).regs EXCEPT ![x] = Own(c)]
      BY <1>6, <3>1
    <3> QED
      BY <1>7, <2>1, <3>2
  <2>2. CASE regs' = regs \/ (regs' = [regs EXCEPT ![x] = Own(c)] /\ x \notin Seen)
    <3>1. \A y \in Seen : regs'[y] = regs[y]
      BY <1>2, <2>2, TrapAssumption
    <3>2. [y \in Seen |-> Known(regs'[y])] = View(c).regs
      BY <1>6, <3>1
    <3>3. View(c).regs = [View(c).regs EXCEPT !["a0"] = View(c).regs["a0"]] /\ "a0" \in Seen
      BY <1>6, TrapAssumption
    <3> QED
      BY <1>7, <3>2, <3>3
  <2> QED
    BY <1>3, <2>1, <2>2
<1>9. PICK v \in {Own(c), View(c).regs[r]} :
        View(c)' = [regs |-> [View(c).regs EXCEPT ![r] = v], pc |-> NextPc(pc)]
  BY <1>8
<1>10. FlowStep(c, r, v)
  <2>1. View(c) = [regs |-> View(c).regs, pc |-> pc]
    BY <1>6
  <2>2. Stepped(c, r, v, pc)
    BY <1>5, <1>9, <2>1 DEF Stepped
  <2> QED
    BY <2>2, ViewsStep
<1>11. v \in {F!Own(c), Views[c].regs[r]}
  BY DEF F!Own, Own, Views
<1> SUFFICES \E s \in Seen : \E value \in {F!Own(c), Views[c].regs[s]} :
               FlowStep(c, s, value)
  BY DEF F!Compute, FlowStep, Views
<1> QED
  BY <1>10, <1>11

\* do_syscall puts its result into the saved context and lets the flow go on
\* behind its ecall.
LEMMA SystemCallMaps ==
  ASSUME TrapInv, SystemCall
  PROVE  \E c \in Contexts : F!SystemCall(c)
<1>0. PICK c \in Contexts : c = mscratch
  BY DEF SystemCall, TrapInv, HandlerInv
<1>1. PICK result \in Results :
        /\ ctx' = [ctx EXCEPT ![mscratch].regs["a0"] = result]
        /\ HandlerReturns(NextPc(mepc)) /\ mscratch' = mscratch
  BY DEF SystemCall, Results
<1>2. At("handler") /\ mepc = ctx[c].pc /\ mepc \in Program
  BY <1>0 DEF SystemCall, TrapInv, HandlerInv
<1>3. /\ pc' = <<"return", 0>> /\ regs'["a0"] = NextPc(mepc)
      /\ NextPc(mepc) \in Program
  BY <1>1, <1>2, NextPcType DEF HandlerReturns, Goto, Clobbered, Regs
<1>4. /\ pc \notin Program /\ pc' \notin Program
      /\ At("return")' /\ ~At("vector") /\ ~At("return")
  BY <1>2, <1>3, Disjoint DEF At, KernelCode, InTrap
<1>5. /\ ctx'[c].regs = [ctx[c].regs EXCEPT !["a0"] = result]
      /\ \A d \in Contexts \ {c} : ctx'[d] = ctx[d]
      /\ ctx[c].regs \in [Regs -> Values]
  BY <1>0, <1>1 DEF TrapInv, TrapTypeOK
<1>6. \A d \in Contexts \ {c} : View(d)' = View(d)
  <2> SUFFICES ASSUME NEW d \in Contexts \ {c} PROVE View(d)' = View(d)
    OBVIOUS
  <2>1. Rest(d)' = Rest(d)
    BY <1>5 DEF Rest
  <2>2. FlowState(d) = Rest(d)
    BY <1>4, FlowStates
  <2>3. mscratch' = c
    BY <1>0, <1>1
  <2>4. FlowState(d)' = Rest(d)
    BY <1>4, <2>1, <2>3, NextFlowStates
  <2> QED
    BY <2>2, <2>4 DEF View
<1>7. FlowState(c) = [regs |-> ctx[c].regs, pc |-> mepc]
  BY <1>2, <1>4, FlowStates DEF Rest
<1>8. FlowState(c)' = [regs |-> ctx'[c].regs, pc |-> NextPc(mepc)]
  BY <1>0, <1>1, <1>3, <1>4, NextFlowStates
<1>9. View(c) = [regs |-> [r \in Seen |-> Known(ctx[c].regs[r])], pc |-> mepc]
  BY <1>7 DEF View
<1>10. View(c)' = [regs |-> [r \in Seen |-> Known(ctx'[c].regs[r])], pc |-> NextPc(mepc)]
  BY <1>8 DEF View
<1>11. [r \in Seen |-> Known(ctx'[c].regs[r])] = [View(c).regs EXCEPT !["a0"] = result]
  <2>1. \A r \in Seen : Known(ctx'[c].regs[r]) = IF r = "a0" THEN result ELSE Known(ctx[c].regs[r])
    BY <1>1, <1>5, KnownProperties, TrapAssumption
  <2> QED
    BY <1>9, <2>1
<1>12. FlowStep(c, "a0", result)
  <2>1. View(c) = [regs |-> View(c).regs, pc |-> mepc]
    BY <1>9
  <2>2. View(c)' = [regs |-> [View(c).regs EXCEPT !["a0"] = result], pc |-> NextPc(mepc)]
    BY <1>10, <1>11
  <2>3. Stepped(c, "a0", result, mepc)
    BY <1>6, <2>1, <2>2 DEF Stepped
  <2> QED
    BY <2>3, ViewsStep
<1> QED
  BY <1>12 DEF F!SystemCall, FlowStep, Views

LEMMA FlowInit == Init => F!FInit
<1> SUFFICES ASSUME Init PROVE F!FInit
  OBVIOUS
<1>1. pc \notin Program /\ ~At("vector") /\ ~At("return")
  BY Disjoint DEF Init, KernelCode, Boot, At
<1>2. ASSUME NEW c \in Contexts
      PROVE  View(c) = [regs |-> [r \in Seen |-> Blank], pc |-> <<c, 0>>]
  <2>1. FlowState(c) = Rest(c)
    BY <1>1, FlowStates
  <2>2. Rest(c) = [regs |-> Clobbered, pc |-> <<c, 0>>]
    BY Disjoint DEF Init, Rest
  <2>3. \A r \in Seen : Known(Clobbered[r]) = Blank
    BY KnownProperties, TrapAssumption DEF Clobbered
  <2> QED
    BY <2>1, <2>2, <2>3 DEF View
<1> QED
  BY <1>2 DEF F!FInit

\* Every step is one of a flow, or invisible to all of them.
LEMMA StepMaps ==
  ASSUME TrapInv, StartedInv, "t6" \notin Seen, [Next]_trapVars
  PROVE  [F!FNext]_Views
<1>1. CASE Instruction \/ Yield \/ SystemCall
  BY <1>1, InstructionMaps, SystemCallMaps DEF F!FNext
<1>2. CASE Exception \/ Interrupt \/ SwitchIllegal
  <2>1. mstatus.mie
    BY <1>2 DEF Exception, Interrupt, SwitchIllegal, TrapInv, MaskInv, MaskedOnlyInTraps
  <2> QED
    BY <1>2, <2>1, TrapSame DEF Exception, Interrupt, SwitchIllegal
<1>3. CASE PlicInit \/ StartKernel \/ SwitchScratch \/ SwitchPc
  <2>1. /\ pc[1] \in Boot /\ ctx' = ctx
        /\ \E p \in Boot : pc' = <<p, 0>>
    BY <1>3 DEF PlicInit, StartKernel, SwitchScratch, SwitchPc, CallBackOs, CallSwitchTo, Goto,
                At, Boot, Switch
  <2>2. pc \notin Program /\ pc' \notin Program
    BY <2>1, Disjoint DEF KernelCode
  <2>3. ~At("vector") /\ ~At("return") /\ ~At("vector")' /\ ~At("return")'
    BY <2>1 DEF At, Boot, Switch
  <2> QED
    BY <2>1, <2>2, <2>3, KernelSame
<1>4. CASE SchedInit
  BY <1>4, SchedInitSame
<1>5. CASE SaveContext
  BY <1>5, SaveSame
<1>6. CASE ExternalInterrupt \/ (TimerInterrupt /\ HandlerReturns(mepc))
  BY <1>6, HandlerReturnsSame DEF ExternalInterrupt, TimerInterrupt
<1>7. CASE SoftwareInterrupt \/ (TimerInterrupt /\ CallBackOs) \/ Panic
  <2>1. pc[1] = "handler" /\ pc' \in {<<"switch", 0>>, <<"panic", 0>>} /\ ctx' = ctx
    BY <1>7 DEF SoftwareInterrupt, TimerInterrupt, Panic, CallBackOs, CallSwitchTo, Goto, At
  <2>2. pc \notin Program /\ pc' \notin Program
    BY <2>1, Disjoint DEF KernelCode, InTrap, Boot, Switch
  <2>3. ~At("vector") /\ ~At("return") /\ ~At("vector")' /\ ~At("return")'
    BY <2>1 DEF At
  <2> QED
    BY <2>1, <2>2, <2>3, KernelSame
<1>8. TimerInterrupt => HandlerReturns(mepc) \/ CallBackOs
  BY DEF TimerInterrupt
<1>9. CASE ReturnFromTrap \/ SwitchRegs
  BY <1>9, ReturnSame, SwitchSame
<1>10. CASE UNCHANGED trapVars
  <2>1. ASSUME NEW c \in Contexts PROVE View(c)' = View(c)
    BY <1>10 DEF trapVars, View, FlowState, At
  <2> QED
    BY <2>1 DEF Views
<1> QED
  BY <1>1, <1>2, <1>3, <1>4, <1>5, <1>6, <1>7, <1>8, <1>9, <1>10 DEF Next, Execute

\* Traps, system calls and switches are invisible to the flows they hit, in every
\* register but t6, which reg_restore does not load on RV64 (entry.S).
THEOREM FlowsUndisturbed ==
  ASSUME "t6" \notin Seen
  PROVE  Spec => RefinesFlows
<1>1. TrapInv /\ StartedInv /\ [Next]_trapVars => [F!FNext]_Views
  BY StepMaps
<1>2. Spec => []StartedInv
  BY StartedInit, StartedNext, TrapInvariance, PTL DEF Spec
<1>3. Views = [c \in Contexts |-> View(c)]
  BY DEF Views
<1> QED
  BY <1>1, <1>2, FlowInit, TrapInvariance, PTL DEF Spec, RefinesFlows, F!FSpec, Views

=============================================================================
