SPECIFICATION Spec
CONSTANTS
  Prompt = {planner, synthesizer}
  Hash = {h1, h2}
  Absent = Absent
  NoLock = NoLock
  MaxVersion = 2
  MaxPushes = 2
SYMMETRY Symmetry
INVARIANTS
  TypeOK
  NoSilentDrift
  RecordsTellTheTruth
  OnlyOvertakenLoseTheirRecord
  DeployedIsNotBehind
PROPERTY TagsAreStable
CHECK_DEADLOCK FALSE
