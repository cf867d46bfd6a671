SPECIFICATION WakeSpec
CONSTANTS
  Liveness = 1
  Deadline = 1
  MaxRuns = 1
  MaxSteps = 1
  MaxTurns = 0
  LaunchFlags <- ServerOnly
  Redispatch = {}
  Faults = {"timeout", "crash", "exception", "foreignRecord", "noTarget",
            "noStore", "refusal"}
  Host = "tui"
  Requests = {p}
  Forms = {}
  Calls = {c1}
  Target = t
  TargetOf <- OneTarget
  StallAfter = 0
  CallAfter = 1
  GenerationAfter = 1
  StaleAfter = 1
  RoutineGap = 1
  LoopRepeats = 1
  MaxWakes = 1
  Rare = {"archive", "replay", "continue"}
  None = None
INVARIANTS
  WakeTypeOK
  LineOwnership
  WakeIsTrue
  AbortMeansDispatcherDied
  WakeAtMostOnce
PROPERTIES
  ImplementsSupervision
  StallIsEarned
  EverySilenceAnnounced
  OverIsOver
  RunningNeedsEvidence
  WakesAreBudgeted
CHECK_DEADLOCK FALSE
