------------------------------- MODULE MCTrap -------------------------------
EXTENDS Trap

\* Every register but t6, which reg_restore does not load on RV64.
AllButT6 == Regs \ {"t6"}
=============================================================================
