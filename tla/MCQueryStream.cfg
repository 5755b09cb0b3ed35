SPECIFICATION FairSpec
CONSTANT MaxText = 3
INVARIANTS
  TypeOK
  WorkIsEntitled
  ShownIsPrefixOfReply
  DoneIsComplete
  ErrorIsPartial
  CitationsNeedEvidence
  RecordIsWhatWasShown
PROPERTIES
  TraceOnlyGrows
  ImplementsLifecycle
  GraphStops
CHECK_DEADLOCK FALSE
