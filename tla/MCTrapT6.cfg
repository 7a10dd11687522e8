SPECIFICATION Spec
CONSTANTS
  Tasks = {a}
  Os = Os
  Null = Null
  Length = 2
  Seen <- Regs
PROPERTIES
  RefinesFlows
CHECK_DEADLOCK FALSE
