CONSTANTS
  Depth = 10
  SeqMod = 30
  CountMod = 13
  NoData = NoData
  PrefillCount = 2
  PaceSlack = 1
  StarveLimit = 3
  MaxInFlight = 1
  MaxLosses = 2
  AllowStop = FALSE
SPECIFICATION FairSpec
INVARIANTS
  TypeOK
  
  
PROPERTIES KeepsPlaying
