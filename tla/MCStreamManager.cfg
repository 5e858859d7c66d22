CONSTANTS
  Streams = {s1, s2}
  NoStream = NoStream
  MaxDeviceChannels = 3
  MaxCount = 2
  CustomMaps = {{}}
  Rates = {48, 96}
  DefaultRate = 48
  Directions = {"recvonly", "sendonly"}
  Partial = FALSE
  NoFile = NoFile
SYMMETRY Symmetry
SPECIFICATION ManagerSpec
INVARIANTS
  MapperAgrees
  NoOverlap
  OwnersMatchMappings
  SingleProducer
  OwnersExact
  NoThreadsWithoutIO
  RatesAgree
