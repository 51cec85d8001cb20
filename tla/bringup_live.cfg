CONSTANTS
  Settings = {"type", "pattern"}
  Further = {"mode"}
  Cmds = {"type", "pattern", "mode", "update"}
  AddFirst = {"update"}
  Threads = {"cmd", "detect"}
  Seqs = {1, 2}
  Capacity = 1
  MayReject = FALSE
  MayFailSend = FALSE
  MaxUpdates = 1
SPECIFICATION FairSpec
INVARIANTS SamplingMeansApplied
PROPERTIES BringUpDone
CHECK_DEADLOCK FALSE
