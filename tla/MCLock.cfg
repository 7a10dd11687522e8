SPECIFICATION LFairSpec
CONSTANTS
  Tasks = {a, b, c}
  Os = Os
  NoTask = NoTask
  a = a
  b = b
  c = c
  MaxTaskNum = 3
  MaxPriority = 3
  Priorities = {1, 3}
  StaleStates <- FreshStates
  Exiters = {}
  Lockers = {a, b}
INVARIANTS
  LockTypeOK
  MutualExclusion
PROPERTIES
  LockReleased
  StarvationFree
