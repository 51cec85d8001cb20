CONSTANTS
  Roots = {0, 2}
  Children = {0, 1}
  MaxLayer = 1
  InitNum = 1
  UpdateSize = 1
  MaxPoints = 5
  HalfMap = 1
  SlideAt = 2
  MaxScan = 3
  MaxLoad = 13
SPECIFICATION Spec
INVARIANTS TypeOK PlanesAreLeaves FitIsFresh PointsHandedDown
CHECK_DEADLOCK FALSE
