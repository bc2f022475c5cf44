SPECIFICATION SpotSpec
CONSTANTS
  MaxBuffer = 4
  MaxId = 7
  NLevels = 2
  MaxPerWindow = 2
  MaxAttempts = 2
  MaxFaults = 1
  MaxDrops = 0
PROPERTY StraddlerBridges
CHECK_DEADLOCK FALSE
