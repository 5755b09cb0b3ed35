SPECIFICATION Spec
CONSTANTS
  Source = {d1, d2, d3}
  Scores = {57, 60, 65, 70}
  PER_PLACE = 10
  MIN_SCORE = 60
  TOP_K = 2
  SubTasks = 3
SYMMETRY Symmetry
INVARIANTS
  TypeOK
  ResultIsBestRepresentatives
  EmptyOnlyWithoutEvidence
CHECK_DEADLOCK FALSE
