SPECIFICATION Spec
CONSTANTS
  SessionId = {s1, s2}
  Context = {c1, c2}
  NoContext = NoContext
  NoEntry = NoEntry
  TTL = 2
  MaxTime = 6
INVARIANT TypeOK
PROPERTY Refinement
