SPECIFICATION MSpec
CONSTANTS
  NumPages = 4
  Null = Null
  Table = 5
  PageBlocks = 6
  CountWidth = 6
  Sizes = {1, 2}
  MidFree = FALSE
  Interrupts = FALSE
INVARIANTS
  LiveTaken
CHECK_DEADLOCK FALSE
