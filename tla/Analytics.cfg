SPECIFICATION PredictorSpec
CONSTANTS
  Vols = {v1, v2}
  Offsets = {0, 1}
  MaxTime = 4
  MaxCalls = 4
  MAX_HISTORY_POINTS = 3
  TEMP_HOT_THRESHOLD = 1
  TEMP_WARM_THRESHOLD = 2
  TEMP_COLD_THRESHOLD = 3
  DAY = 1
  Capacity = 10
  UsedLevels = {0, 2, 9}
  MAX_ENDURANCE = 4
  VarianceUnit = 1
  Drives <- MCDrives
  Absent = Absent
INVARIANTS ForecastSound TieringSound HealthFallsWithWear
SYMMETRY VolumeSymmetry
CHECK_DEADLOCK FALSE
