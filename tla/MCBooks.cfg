SPECIFICATION MCSpec
CONSTANTS
  Venue = "BINANCE"
  MaxBuffer = 2
  MaxId = 5
  FuturesHead = 4
  NLevels = 2
  MaxPerWindow = 2
  MaxAttempts = 2
  MaxFaults = 2
  MaxDrops = 1
  MaxFrames = 4
  MaxTick = 3
  MaxQueue = 1
  TapeFaults = 1
INVARIANTS
  BooksKept
  ReplayFaithful
  PristineParity
  FeedSound
PROPERTIES
  AttemptsEnd
  LossesAsk
CHECK_DEADLOCK FALSE
