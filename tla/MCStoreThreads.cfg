SPECIFICATION Spec
CONSTANTS
  Thread = {t1, t2}
  SessionId = {s1}
  Nothing = Nothing
  TTL = 1
  MaxTime = 3
  MaxEntries = 2
INVARIANT GetReturns
CHECK_DEADLOCK FALSE
