SPECIFICATION FairSpec
CONSTANTS
  p1 = p1
  Peers = {p1}
  Modes = {"ASYNC"}
  MaxOps = 3
  Answers = {"error"}
  Volatile = FALSE
  Rewire = FALSE
PROPERTIES ReplicatedInBackground
CHECK_DEADLOCK FALSE
