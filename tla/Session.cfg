SPECIFICATION FairSpec
CONSTANTS
  Ips = {"ip1"}
  Fields = {"motor", "ir"}
  SendsContext = TRUE
  MaxClicks = 4
  MaxCommands = 2
INVARIANTS TypeOK LoggedInIsConnected LastChoiceWins
PROPERTIES LoginAnswered
CHECK_DEADLOCK FALSE
