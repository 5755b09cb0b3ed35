SPECIFICATION FairSpec
CONSTANTS
  Documents <- MCDocuments
  TARGET = 5
  OVERLAP = 1
  MIN = 2
INVARIANTS
  TypeOK
  NothingIsLost
  OnlyOverlapIsRepeated
  LengthsAreBounded
PROPERTIES
  WindowsAdvanceAndOverlap
  Returns
CHECK_DEADLOCK FALSE
