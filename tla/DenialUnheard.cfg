SPECIFICATION ReducerSpec
CONSTANTS
  Host = "server"
  Requests = {p, q}
  Forms = {}
  Calls = {c1}
  Target = t
  TargetOf <- OneTarget
  StallAfter = 0
  CallAfter = 1
  GenerationAfter = 1
  StaleAfter = 1
  RoutineGap = 1
  LoopRepeats = 1
  MaxWakes = 1
  Rare = {}
  None = None
PROPERTY DenialIsAnnounced
