SPECIFICATION Spec
CONSTANTS
  MaxEvents = 3
  QueueMax = 0
  Capacity = 3
  MaxStops = 1
  MaxFaults = 0
  MaxClock = 2
  ClockSteps = TRUE
INVARIANT CheckpointSound
CHECK_DEADLOCK FALSE
