CONSTANTS
  Depth = 2
  SeqMod = 4
  CountMod = 5
  NoData = NoData
  PrefillCount = 2
  PaceSlack = 1
  StarveLimit = 1
  MaxInFlight = 1
  MaxLosses = 0
  AllowStop = TRUE
SPECIFICATION FairSpec
INVARIANTS StopIsClean
PROPERTIES StopReturns
