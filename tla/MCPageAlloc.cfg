SPECIFICATION Spec
CONSTANTS
  NumPages = 5
  Null = Null
INVARIANTS
  PageTypeOK
  RunsEnd
  RunsBegin
PROPERTIES
  RefinesRegions
