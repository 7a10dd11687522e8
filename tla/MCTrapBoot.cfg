SPECIFICATION FairSpec
CONSTANTS
  Tasks = {a}
  Os = Os
  Null = Null
  Length = 2
  Seen <- AllButT6
PROPERTIES
  KernelStarts
CHECK_DEADLOCK FALSE
