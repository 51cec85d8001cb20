CONSTANTS
  MaxClouds = 3
  MaxPushes = 4
  MaxStarts = 2
SPECIFICATION Spec
PROPERTIES SessionStamps HostClockOnlyBefore DropsCounted
CHECK_DEADLOCK FALSE
