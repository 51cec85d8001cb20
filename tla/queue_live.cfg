CONSTANTS
  LidarCount = 2
  Requested = 1
  IndexMod = 2
  FrameMod = 2
  MemoryOrder = "weak"
SPECIFICATION FairSpec
PROPERTIES FramesPublished ShutdownJoins
