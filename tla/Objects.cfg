SPECIFICATION Spec
CONSTANTS
  b1 = b1
  k1 = k1
  t1 = t1
  t2 = t2
  u1 = u1
  Buckets = {b1}
  Keys = {k1}
  Tasks = {t1, t2}
  Uploads = {u1}
  Contents <- MCContents
  PartNumbers <- MCParts
  PartBody <- MCPartBody
  MaxVersions = 2
  None = None
  Gone = Gone
SYMMETRY Symmetry
INVARIANTS ReadsVerified OneLatest SettledReadable CurrentIsNewest Assembled
