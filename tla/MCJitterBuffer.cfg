CONSTANTS
  Depth = 2
  SeqMod = 4
  CountMod = 5
  NoData = NoData
  ConcurrentReset = FALSE
SPECIFICATION Spec
INVARIANTS
  ExclusiveSlot
  PacketIntact
  CountMatchesSlots
PROPERTIES
  AtomicSpec
