SPECIFICATION FairSpec
CONSTANTS
  Requests = 2
  Upgrades = {}
  Cap = 1
  MaxChunks = 1
  MaxWire = 1
  MaxLosses = 1
PROPERTIES StreamsAreIndependent
CHECK_DEADLOCK FALSE
