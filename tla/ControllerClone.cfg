SPECIFICATION Spec
CONSTANTS
  d1 = d1
  t1 = t1
  Data = {d1}
  Patterns = {}
  o1 = o1
  out = out
  Offsets = {o1, out}
  Outside = {out}
  MaxVols = 2
  MaxSnaps = 0
  MaxBlocks = 1
  MaxRef = 1
  Tasks = {t1}
  None = None
  Sharing = TRUE
  Races = FALSE
  UnlinkFaults = FALSE
INVARIANTS NoDangling
CHECK_DEADLOCK FALSE
