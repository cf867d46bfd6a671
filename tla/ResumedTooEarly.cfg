SPECIFICATION Spec
CONSTANTS
  Liveness = 1
  Deadline = 0
  MaxRuns = 2
  MaxSteps = 0
  MaxTurns = 0
  LaunchFlags <- ServerOnly
  Redispatch = {"resume"}
  Faults = {}
INVARIANTS
  WakeIsTrue
CHECK_DEADLOCK FALSE
