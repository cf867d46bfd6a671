SPECIFICATION DispatcherSpec
CONSTANTS
  Liveness = 1
  MaxRuns = 1
  MaxSteps = 1
  LaunchFlags <- Alternatives
  Redispatch = {}
  Faults = {"timeout", "exception"}
PROPERTIES
  NeverEndsSilent
CHECK_DEADLOCK FALSE
