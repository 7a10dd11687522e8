SPECIFICATION FairSpec
CONSTANTS
  Tasks = {a, b}
  Clients = {a, b}
  NoTask = NoTask
  a = a
  b = b
  NumTimers = 4
  Callbacks = {0}
  Sleeps = {0, 1}
  MaxOwn = 1
  MaxTicks = 3
INVARIANTS
  TimersTypeOK
  ListIntact
  
PROPERTIES
  CallbackBound
  SleepersWake
\* the model stops at a fault
CHECK_DEADLOCK FALSE
