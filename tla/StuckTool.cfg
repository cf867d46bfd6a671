SPECIFICATION Spec
CONSTANTS
  Liveness = 1
  Deadline = 0
  MaxRuns = 1
  MaxSteps = 0
  MaxTurns = 0
  LaunchFlags <- ServerOnly
  Redispatch = {}
  Faults = {"crash", "stuckTool"}
PROPERTIES
  EveryDispatchAnswered
CHECK_DEADLOCK FALSE
