CONSTANTS
  Lidars = {front, back}
  Interval = 2
  StampMod = 16
  Skews = {0, 3}
  Modes = {TRUE, FALSE}
  MaxNow = 5
  MaxQueue = 2
  MaxSteps = 1
SPECIFICATION Spec
SYMMETRY LidarSymmetry
INVARIANTS CloudBounded
PROPERTIES StreamRefined WholeIntervals
CHECK_DEADLOCK FALSE
