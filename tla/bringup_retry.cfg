CONSTANTS
  Settings = {"type"}
  Further = {"attitude"}
  Cmds = {"type", "attitude", "update"}
  AddFirst = {"update"}
  Threads = {"cmd", "detect"}
  Seqs = {1, 2, 3}
  Capacity = 2
  MayReject = FALSE
  MayFailSend = TRUE
  MaxUpdates = 2
SPECIFICATION Spec
INVARIANTS OneCopy NothingForgotten
CHECK_DEADLOCK FALSE
