CONSTANTS
  Capacity = 3
  MaxBatch = 3
  Sample = {s1, s2}
  Silence = s1
SPECIFICATION Spec
INVARIANTS
  NoDataRace
PROPERTIES
  FifoSpec
