SPECIFICATION FairSpec
CONSTANTS
  Venues = {"BYBIT", "OKX", "BINANCE_SPOT"}
  MaxFaults <- MCMaxFaults
  MaxEvents = 1
  Warning = 5
  Critical = 3
  Emergency = 1
  Hysteresis = 1
  Grace = 2
  MaxFree = 6
INVARIANTS
  RunnerInv
  ExitTellsTheTruth
  IsolatesTheBroken
PROPERTIES
  NoAlertStorm
  FailureEnds
CHECK_DEADLOCK FALSE
