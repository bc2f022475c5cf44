SPECIFICATION Spec
CONSTANTS
  Hours = {h1}
  MaxSeq = 2
  MaxRows = 3
  SegmentRows = 3
  BufferRows = 2
  Faults = {"discard"}
  MaxFaults = 1
  MaxStops = 2
  PowerLoss = FALSE
INVARIANT EveryLossReported
CHECK_DEADLOCK FALSE
