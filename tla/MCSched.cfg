SPECIFICATION Spec
CONSTANTS
  Tasks = {a, b, c, d}
  Os = Os
  NoTask = NoTask
  a = a
  b = b
  c = c
  d = d
  MaxTaskNum = 3
  MaxPriority = 3
  Priorities = {1, 3}
  StaleStates <- FreshStates
  Exiters = {a, b}
INVARIANTS
  TypeOK
  QueueSorted
  QueueSound
  CounterDrift
  LostOnlyAfterDrift
  RunningIsCurrent
  StacksDistinct
PROPERTIES
  PicksHighest
  TurnsRotate
SYMMETRY TaskSymmetry
CHECK_DEADLOCK FALSE
