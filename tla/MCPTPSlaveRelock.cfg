CONSTANTS
  m1 = m1
  m2 = m2
  None = None
  Masters = {m1, m2}
  Qualities <- MCQualities
  SeqMod = 3
  MaxRequests = 2
SPECIFICATION SlaveFairSpec
INVARIANTS NeverRelocks
CHECK_DEADLOCK FALSE
