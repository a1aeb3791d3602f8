SPECIFICATION Spec
CONSTANTS
  Ips = {"ip1"}
  Fields = {"motor", "ir"}
  SendsContext = TRUE
  MaxClicks = 1
  MaxCommands = 2
INVARIANT MovementEndsAuto
CHECK_DEADLOCK FALSE
