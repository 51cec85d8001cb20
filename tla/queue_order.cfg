CONSTANTS
  LidarCount = 2
  Requested = 2
  IndexMod = 4
  FrameMod = 4
  MemoryOrder = "sc"
SPECIFICATION Spec
INVARIANTS NoLostWakeup
PROPERTIES FifoRefined
