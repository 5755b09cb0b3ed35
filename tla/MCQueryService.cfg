SPECIFICATION Spec
CONSTANTS
  Request = {r1, r2, r3}
  Replica = {p1, p2}
  SessionId = {s1, s2}
  NoContext = NoContext
  NoEntry = NoEntry
  NoSession = NoSession
  NoReplica = NoReplica
  TTL = 0
  MaxTime = 1
  MaxRestarts = 1
SYMMETRY Symmetry
INVARIANTS
  TypeOK
  ContextComesFromOwnSession
  NewSessionIsBlank
  ContextMatchesHistory
PROPERTY EachLivesItsLife
CHECK_DEADLOCK FALSE
