SPECIFICATION DispatcherSpec
CONSTANTS
  Liveness = 1
  MaxRuns = 1
  MaxSteps = 1
  LaunchFlags <- AnyFlags
  Redispatch = {}
  Faults = {"timeout"}
INVARIANTS
  InterruptHonest
CHECK_DEADLOCK FALSE
