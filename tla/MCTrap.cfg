SPECIFICATION Spec
CONSTANTS
  Tasks = {a}
  Os = Os
  Null = Null
  Length = 2
  Seen <- AllButT6
INVARIANTS
  TrapTypeOK
  MaskedOnlyInTraps
  KernelInMachineMode
PROPERTIES
  RefinesFlows
\* panic spins for good
CHECK_DEADLOCK FALSE
