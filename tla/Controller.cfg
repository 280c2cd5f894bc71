SPECIFICATION FairSpec
CONSTANTS
  d1 = d1
  p1 = p1
  t1 = t1
  t2 = t2
  Data = {d1, p1}
  Patterns = {p1}
  o1 = o1
  o2 = o2
  out = out
  Offsets = {o1, o2, out}
  Outside = {out}
  MaxVols = 2
  MaxSnaps = 0
  MaxBlocks = 3
  MaxRef = 2
  Tasks = {t1, t2}
  None = None
  Sharing = FALSE
  Races = FALSE
  UnlinkFaults = FALSE
INVARIANTS NoDangling RefsCover
PROPERTIES DeleteCompletes
CHECK_DEADLOCK FALSE
