CONSTANTS
  Streams = {s1, s2, s3}
  NoStream = NoStream
  MaxDeviceChannels = 3
  MaxCount = 1
  CustomMaps = {{}}
  Rates = {48, 96}
  DefaultRate = 48
  Directions = {"recvonly"}
  Partial = FALSE
  NoFile = NoFile
  MaxClients = 2
  TestChannels = 1
SYMMETRY Symmetry
SPECIFICATION Spec
PROPERTIES SavedStreamsSurvive
