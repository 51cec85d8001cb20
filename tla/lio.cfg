CONSTANTS
  LidarTimes <- FrameStamps
  ImuTimes <- SampleStamps
  ImgTimes <- NoImages
  ScanLen = 2
  MaxLidarBuffer = 3
  ImuGap = 4
  MinImgGap = 1
  ExposureInit = 0
  InitCount = 1
  MaxRestarts = 1
  UninitReads <- Garbage
  Modes = {"ONLY_LIO", "ONLY_LO"}
  SinglePoint = {10}
SPECIFICATION LioFairSpec
PROPERTIES PoppedIsProcessed ScanFullyPropagated ClockBackOnlyOnRestart HeldScanServed
CHECK_DEADLOCK FALSE
