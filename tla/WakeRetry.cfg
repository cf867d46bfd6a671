SPECIFICATION SupervisionSpec
CONSTANTS
  Liveness = 1
  Deadline = 2
  MaxRuns = 1
  MaxSteps = 0
  MaxTurns = 2
  LaunchFlags <- ServerOnly
  Redispatch = {}
  Faults = {"timeout", "crash", "noTarget", "refusal", "lostReply"}
  StallWindow = 0
  GenerationWindow = 1
  Locations = {l1, l2}
  Nobody = Nobody
  MaxHops = 3
  Trees <- MCTrees
INVARIANTS
  GateDeferralMeansSilence
  RetriesAreSpaced
  ErrorIsNamed
  NoFalseAlarm
  OneRootIsTold
  StartThenEnd
  DropIsVisible
  SupervisionTypeOK
PROPERTIES
  EveryDispatchAnswered
  HangIsReported
  AnnouncementsSettle
CHECK_DEADLOCK FALSE
