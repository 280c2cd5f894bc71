SPECIFICATION FairSpec
CONSTANTS
  i1 = i1
  i2 = i2
  c1 = c1
  c2 = c2
  t1 = t1
  t2 = t2
  Ids = {i1, i2}
  Contents = {c1, c2}
  Tasks = {t1, t2}
  None = None
  Torn = Torn
  Unknown = Unknown
  MaxRefs = 3
INVARIANTS TypeOK FilesAgree
PROPERTIES CallsReturn RefinesBlockStore
