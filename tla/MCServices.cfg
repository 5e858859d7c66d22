\* Files, streams and calls end at their bounds.
CONSTANTS
  FilterSize = 2
  LockThreshold = 2
  Tolerance = 3
  Offsets <- MCServoOffsets
  Delays = {1, 4}
  Nics = {1, 2}
  RtpMod = 8
  MaxHistory = 2
  MinInterval = 1
  MaxGap = 3
  MaxAge = 2
  Converged = 2
  LockAbove = 1
  MaxLockCount = 4
  Steps = {1, 2, 4}
  ClockErrors <- MCClockErrors
  MaxNow = 14
  MaxCalls = 4
  NoSession = NoSession
  Groups = {"g1", "g2"}
  AnyIface = "any"
  Ifaces = {"any", "en0"}
  MaxFds = 3
  Den = 50
  Samples <- MCSamples
  Words <- MCWords
  Channels = 2
  MaxFrames = 2
  NumberMod = 6
  MaxSent = 5
  MaxReceived = 5
  DeviceChannels = 3
  RingCapacity = 3
  WriteFrames = 2
  ReadFrames = 1
  MaxFrame = 4
  MapStart = 0
  MapChannels = 2
  Sessions <- MCSessions
  Texts <- MCTexts
  ForeignLines <- MCForeignLines
  PortMod = 65536
  TtlMod = 256
  MaxEdits = 1
  Chars <- MCChars
  Names <- MCNames
  Interfaces = {"", "auto", "en0"}
  MaxStreams = 2
  MaxName = 2
  PoolThreads = {t1, t2}
  PoolSize = 2
  MaxTag = 8
  DoubleFree = FALSE
  Cleaners = {t1, t2}
  MaxFunctions = 2
  Reporters = {t1, t2}
  MaxRecent = 1
  HandlerPause = 1
  HandlerTicks = 4
  MaxErrors = 3
  Cooldown = 2
  MaxAttempts = 2
  MaxTicks = 7
  BufferSizes = {0, 10}
  FillLevels = {0, 1, 5, 9, 10}
  Hysteresis = 2
  MonitorTicks = 6
  DsdBytes = {1, 2}
  BlockFrames = {1, 2}
  MaxDsdFrames = 4
SPECIFICATION ServicesSpec
INVARIANTS
  ServoSafe
  FilterSafe
  
  ConnectionsSafe
  CodingSafe
  
  InputSafe
  SdpSafe
  
  PoolSafe
  
CHECK_DEADLOCK FALSE
