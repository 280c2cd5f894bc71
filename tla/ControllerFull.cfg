SPECIFICATION Spec
CONSTANTS
  d1 = d1
  p1 = p1
  t1 = t1
  t2 = t2
  Data = {d1, p1}
  Patterns = {p1}
  o1 = o1
  o2 = o2
  out = out
  Offsets = {o1, o2, out}
  Outside = {out}
  MaxVols = 2
  MaxSnaps = 1
  MaxBlocks = 2
  MaxRef = 2
  Tasks = {t1, t2}
  None = None
  Sharing = TRUE
  Races = TRUE
  UnlinkFaults = TRUE
SYMMETRY Symmetry
INVARIANTS TableLive ContentMatches
CHECK_DEADLOCK FALSE
