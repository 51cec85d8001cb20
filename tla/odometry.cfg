CONSTANTS
  LidarTimes <- FrameStamps
  ImuTimes <- SampleStamps
  ImgTimes <- ImageStamps
  ScanLen = 1
  MaxLidarBuffer = 2
  ImuGap = 4
  MinImgGap = 1
  ExposureInit = 0
  InitCount = 1
  MaxRestarts = 1
  UninitReads <- NoGarbage
SPECIFICATION OdometrySpec
INVARIANTS HeadersCoverClouds ImuInOrder VisualPointsCurrent PoseAtStamp
PROPERTIES OrderRefined PropagatedFromFilter
CHECK_DEADLOCK FALSE
