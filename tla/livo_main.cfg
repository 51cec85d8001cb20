CONSTANTS
  LidarTimes <- FrameStamps
  ImuTimes <- SampleStamps
  ImgTimes <- ImageStamps
  ScanLen = 1
  MaxLidarBuffer = 2
  ImuGap = 4
  MinImgGap = 1
  ExposureInit = 0
  InitCount = 1
  MaxRestarts = 0
  UninitReads <- Garbage
SPECIFICATION FairSpec
INVARIANTS TypeOK Aligned VisualNotBehind
PROPERTIES NoImuLost FullyPropagated PointsInWindow GapIsFinal VisualFollows ImageServed
CHECK_DEADLOCK FALSE
