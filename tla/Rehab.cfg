SPECIFICATION RowsSpec
CONSTANTS
  Evals = {1}
  Traits <- OneTrait
  CommandLines <- OneCommand
  Threshold = 2
  RehabRuns = 2
  Settings <- NoFallback
  TurnEnds = {"pass", "worked"}
  MaxRetries = 0
  MaxNudges = 0
  MaxFresh = 0
  Deaths = 2
  EvalDeaths = 2
  MinAttempted = 2
  InfraShare = 50
  MaxReruns = 1
  Ceiling = 1
  MaxWork = 5
PROPERTY RehabIsConsecutive
CHECK_DEADLOCK FALSE
