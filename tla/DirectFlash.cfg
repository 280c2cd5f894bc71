CONSTANTS
  TotalBlocks = 3
  MaxAddr = 5
  Data = {d1, d2}
  NoData = NoData
  MaxErase = 3
  Threshold = 0
  GcThreshold = 75
  GcTarget = 50
SPECIFICATION FairSpec
INVARIANTS MappingConsistent PoolExact FailsOnlyWhenFull
PROPERTIES RefinesStore OpsReturn PressureRelieved
