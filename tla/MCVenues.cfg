SPECIFICATION MCSpec
CONSTANTS
  MaxEvents = 3
  Capacity = 2
  MaxStops = 2
  MaxFaults = 2
  Channels = {"trades", "tickers"}
  MaxFrames = 4
  QueueMax = 1
  MaxAttempts = 1
  MaxConnections = 2
INVARIANTS
  BybitInv
  CountersHonest
  CleanStopReplaysNothing
  CaptureInv
  OkxStops
PROPERTY LoggedIsPublished
CHECK_DEADLOCK FALSE
