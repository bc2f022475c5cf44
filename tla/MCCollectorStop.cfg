SPECIFICATION StopFairSpec
CONSTANTS
  Clients = {"public", "market"}
  MaxFrames = 2
  QueueMax = 1
  MaxAttempts = 1
  MaxBroken = 1
INVARIANTS
  StopInv
  EvidenceFirst
PROPERTIES
  LatchHolds
  StopEnds
CHECK_DEADLOCK FALSE
