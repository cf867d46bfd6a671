SPECIFICATION Spec
CONSTANTS
  MaxVersion = 1
  MaxCommands = 2
  GateOrder <- TwoGates
  Commands = {"upgrade"}
PROPERTY
  PreparedIsTrue
CHECK_DEADLOCK FALSE
