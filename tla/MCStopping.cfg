\* Packets, edits of the mapping and log entries end at their bounds.
CONSTANTS
  DeviceChannels = 3
  RingCapacity = 2
  WriteFrames = 2
  ReadFrames = 1
  MaxFrame = 4
  StreamChannels = 2
  TxSeqMod = 2
  TxTimeMod = 3
  MaxPackets = 3
  SapHeaders <- MCSapHeaders
  SapTexts <- MCSapTexts
  SapSources = {"10.0.0.1"}
  MaxDiscovered = 2
  Levels = {0, 1}
  MaxEntries = 4
SPECIFICATION StoppingSpec
INVARIANTS
  TxSafe
  SapSafe
  
 
CHECK_DEADLOCK FALSE
