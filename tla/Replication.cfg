SPECIFICATION Spec
CONSTANTS
  p1 = p1
  p2 = p2
  Peers = {p1, p2}
  Modes = {"SYNC", "ASYNC"}
  MaxOps = 2
  Answers = {"ok", "error"}
  Volatile = TRUE
  Rewire = TRUE
SYMMETRY Symmetry
INVARIANTS AckedKept JournalSound
CHECK_DEADLOCK FALSE
