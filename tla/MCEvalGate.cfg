SPECIFICATION Spec
CONSTANTS
  q1 = q1
  q2 = q2
  q3 = q3
  Question = {q1, q2, q3}
  RefusalExpected = {q3}
  Run = {r1, r2}
  Committed = Committed
  NCommitted = 2
  Latency = {1, 2}
  MAX_INCORRECT = 333
  MAX_P95 = 1
  MaxClock = 4
SYMMETRY Symmetry
INVARIANTS
  TypeOK
  PassMeansServed
  VerdictIsNotStale
CHECK_DEADLOCK FALSE
