SPECIFICATION KSpec
CONSTANTS
  Tasks = {a, b, c}
  Os = Os
  NoTask = NoTask
  a = a
  b = b
  c = c
  MaxTaskNum = 3
  MaxPriority = 2
  Priorities = {1}
  StaleStates <- FreshStates
  Exiters = {a}
  Timeslices = {1, 2}
  Sleeps = {0, 2}
  MaxTicks = 4
INVARIANTS
  KTypeOK
  SleepersQueued
  LatenessBound
  SliceBound
PROPERTIES
  WakesEarliest
  RefinesSched
SYMMETRY TaskSymmetry
\* the clock stops, and the model stops at a fault
CHECK_DEADLOCK FALSE
