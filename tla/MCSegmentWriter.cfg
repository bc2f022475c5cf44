SPECIFICATION Spec
CONSTANTS
  Hours = {h1, h2}
  MaxSeq = 2
  MaxRows = 3
  SegmentRows = 3
  BufferRows = 2
  Faults <- Steps
  MaxFaults = 1
  MaxStops = 2
  PowerLoss = TRUE
SYMMETRY HourSymmetry
INVARIANTS
  WriterInv
  DurableClaim
  LossAccounting
PROPERTIES
  VouchedImmutable
  GateStopsRows
CHECK_DEADLOCK FALSE
