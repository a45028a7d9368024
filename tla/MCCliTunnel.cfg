SPECIFICATION FairSpec
CONSTANTS
  MaxTunnels = 2
  MaxStreams = 2
  MaxChunks = 2
  MaxInFlight = 1
  NoEntry = NoEntry
INVARIANTS RunOnce OwnBodyComplete SocketGetsItsStream
PROPERTIES CompleteUploadRuns
CHECK_DEADLOCK FALSE
