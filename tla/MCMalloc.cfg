SPECIFICATION MSpec
CONSTANTS
  NumPages = 3
  Null = Null
  Table = 3
  PageBlocks = 4
  CountWidth = 4
  Sizes = {1, 2, 3, 5, 6, 7, 9}
  MidFree = TRUE
  Interrupts = TRUE
INVARIANTS
  MTypeOK
  LossExplained
  NoOverlap
  NoLeak
  UsageExact
\* behaviours end where an owner loses its memory
CHECK_DEADLOCK FALSE
