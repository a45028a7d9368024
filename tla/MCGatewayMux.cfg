SPECIFICATION FairSpec
CONSTANTS
  Requests = 2
  Upgrades = {2}
  Cap = 1
  MaxChunks = 1
  MaxWire = 1
  MaxLosses = 1
INVARIANTS TypeOK PanicNeedsTunnelEnd
PROPERTIES DeliversStreams RequestsEnd
CHECK_DEADLOCK FALSE
