SPECIFICATION FairSpec
CONSTANTS
  Tasks = {a, b}
  a = a
  b = b
  Size = 6
  Formats <- SomeFormats
  Time <- Clock
INVARIANTS
  ReadsInside
  CleanPrint
PROPERTIES
  KeysRead
