SPECIFICATION Spec
CONSTANTS
  Venue = "BINANCE"
  MaxBuffer = 2
  MaxId = 4
  NLevels = 2
  MaxFrames = 4
  MaxTick = 4
  MaxQueue = 1
  MaxFaults = 0
INVARIANT PristineMeansParity
CHECK_DEADLOCK FALSE
