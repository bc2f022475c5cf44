SPECIFICATION FairSpec
CONSTANTS
  Ids = {a, b}
  MaxName = 3
  MaxLegacy = 2
  MaxPubs = 2
  MaxFaults = 1
  MaxStops = 2
  MaxHarm = 2
  Missing = Missing
  Broken = Broken
INVARIANT DedupInv
PROPERTIES
  StoredOnce
  UnreadLeavesEvidence
  EventuallyServes
