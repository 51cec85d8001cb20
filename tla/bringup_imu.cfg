CONSTANTS
  Settings = {"type"}
  Further = {"imu"}
  Cmds = {"type", "imu", "update"}
  AddFirst = {"update"}
  Threads = {"cmd", "detect"}
  Seqs = {1, 2}
  Capacity = 1
  MayReject = FALSE
  MayFailSend = FALSE
  MaxUpdates = 1
SPECIFICATION Spec
INVARIANTS ImuNotForgotten
CHECK_DEADLOCK FALSE
