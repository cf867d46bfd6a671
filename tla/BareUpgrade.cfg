SPECIFICATION Spec
CONSTANTS
  MaxVersion = 1
  MaxCommands = 1
  GateOrder <- TwoGates
  Commands = {"bare"}
INVARIANT
  ReadyIsPinned
CHECK_DEADLOCK FALSE
