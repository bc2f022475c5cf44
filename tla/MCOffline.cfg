SPECIFICATION MCSpec
CONSTANTS
  Calendars <- MCCalendars
  OddDays = {2}
  Frames <- MCFrames
  GridMs = 300000
  HorizonSets <- MCHorizonSets
  Options <- MCOptions
  MaxLabelled = 1
  MaxRuns = 2
  MaxFaults = 2
  LastHour = 2
  TradeIds = {1, 2}
  CompactRows = 2
  CompactRuns = 2
  MaxStops = 1
  StartTs = 10
  EndTs = 18
  AlignGrid = 3
  Stale <- MCStale
  Alive <- MCAlive
  Delay = 1
  Times = {8, 10, 11, 13, 16, 17}
  FirstTimes = {11}
  AlignRows = 2
INVARIANTS
  DailyFileSound
  SplitsSound
  DatasetSound
PROPERTY NoLookAhead
CHECK_DEADLOCK FALSE
