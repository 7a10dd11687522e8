SPECIFICATION Spec
CONSTANTS
  Tasks = {a, b}
  Os = Os
  NoTask = NoTask
  a = a
  b = b
  MaxTaskNum = 2
  MaxPriority = 4
  Priorities = {1, 3}
  StaleStates <- FreshStates
  Exiters = {a}
INVARIANTS
  UnlinkLinksNeighbours
CHECK_DEADLOCK FALSE
