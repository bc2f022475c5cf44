SPECIFICATION FairSpec
CONSTANTS
  MaxEvents = 3
  QueueMax = 1
  Capacity = 2
  MaxStops = 2
  MaxFaults = 1
  MaxClock = 2
  ClockSteps = FALSE
INVARIANTS
  ChannelInv
  CheckpointSound
  ProtectedSurvives
  EveryEventAccounted
  CleanShutdownCheckpoints
PROPERTY EventuallyPublished
CHECK_DEADLOCK FALSE
