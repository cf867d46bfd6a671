SPECIFICATION GuardSpec
CONSTANTS
  MaxKids = 2
  LastMove = 1
  Launches <- MCLaunches
  MaxClock = 1
  Titles = {"s", "t"}
  Stall = 1
  Budget = 2
  WaveWindow = 1
  WaveMin = 2
  WaveRatio = 60
  RetryCap = 2
  RetryWindow = 1
  Contract = TRUE
PROPERTY UnfinishedIsNotEmpty
CHECK_DEADLOCK FALSE
