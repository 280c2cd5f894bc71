SPECIFICATION Spec
CONSTANTS
  MaxVols = 2
  MaxSnaps = 2
  Offsets = {0, 1}
  Sizes = {1, 2}
  StoredSizes = {1}
  Lengths = {1, 2}
  MaxLogical = 2
  None = None
INVARIANTS CountersExact
PROPERTIES SnapshotsImmutable WritesStayInVolume
CHECK_DEADLOCK FALSE
