SPECIFICATION FairSpec
CONSTANTS
  None = None
  Down = Down
  Installed <- SomeVersions
  Gateways <- SomeGateways
  MaxChanges = 2
INVARIANTS OneTunnel
PROPERTIES ReconnectsSoon Reconnects StartsOrExits Stops
CHECK_DEADLOCK FALSE
