SPECIFICATION ToolsSpec
CONSTANTS
  Liveness = 1
  MaxRuns = 2
  MaxSteps = 0
  LaunchFlags <- Alternatives
  Redispatch = {"fresh", "resume"}
  Faults = {"environment", "timeout", "crash", "exception"}
  MaxVersion = 2
  MaxCommands = 2
  GateOrder <- TwoGates
  Commands = {"upgrade", "bare", "canary", "prepare", "prune"}
  Evals = {1, 2, 3}
  Traits <- MCTraits
  CommandLines <- MCCommands
  Threshold = 2
  RehabRuns = 2
  Settings <- MCSettings
  TurnEnds = {"pass", "idle", "unresolved", "rejected", "stall"}
  MaxRetries = 1
  MaxNudges = 1
  MaxFresh = 1
  Deaths = 2
  EvalDeaths = 2
  MinAttempted = 2
  InfraShare = 50
  MaxReruns = 1
  Ceiling = 1
  MaxWork = 4
  ReviewCover = 50
  MaxKids = 2
  LastMove = 1
  Launches <- MCLaunches
  MaxClock = 2
  Titles = {"t"}
  Stall = 0
  Budget = 1
  WaveWindow = 0
  WaveMin = 2
  WaveRatio = 60
  RetryCap = 1
  RetryWindow = 1
  Contract = TRUE
  Rows = {1, 2}
  Page = 2
  MaxIssues = 3
  MaxSyncs = 3
  Dispatches = {d1, d2, d3}
  Keep = 1
  MaxAge = 0
  GraceAge = 1
  MaxNow = 1
  Sessions = {1, 2}
  MaxCanaries = 2
  MaxContent = 2
  MaxChecks = 2
INVARIANTS
  ToolsTypeOK
  InterruptHonest
  EnvelopeOK
  StagesAreEarned
  NothingUntested
  NeverWithoutWayBack
  SwitchIsProven
  VerdictIsTrue
  CompletedIsSpared
  NoSecondIssue
  LiveConfigSurvives
  BackupIsRehearsed
  MergeIsEarned
PROPERTIES
  StageNeverRegresses
  QuarantineIsEarned
  SuiteEnds
  OverBudgetEnds
  ResidualIsComplete
CHECK_DEADLOCK FALSE
