CONSTANTS
  Positions <- MCPositions
  Res = 2
  Cells = {c1, c2}
  Raycast = TRUE
  MaxObs = 3
  RefAfter = 1
  ConvergeAfter = 2
  MaxPoints = 2
  MaxFrames = 5
SPECIFICATION Spec
SYMMETRY MCSymmetry
INVARIANTS RefIsObservation ObservationsKept
 
CHECK_DEADLOCK FALSE
