SPECIFICATION Spec
CONSTANTS
  Prompt = {planner, synthesizer}
  Hash = {h1, h2}
  Absent = Absent
  NoLock = NoLock
  MaxVersion = 2
  MaxPushes = 2
SYMMETRY Symmetry
INVARIANT DeployedPromptsAreLocked
CHECK_DEADLOCK FALSE
