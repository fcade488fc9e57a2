SPECIFICATION FairSpec
CONSTANTS
  d = d
  e = e
  Events <- MCEvents
  TsOf <- MCTsOf
  TTL = 1
  MaxTime = 3
  MaxLost = 3
  MaxRefusals = 1
  MaxKills = 2
  MaxChanges = 2
INVARIANTS
  DuplicatesNeedLossOrRefusal
PROPERTIES
  EventuallyRedacted
