SPECIFICATION FairSpec
CONSTANTS
  Sensors = {1, 2}
  Values = {3, 5}
  Limits <- WarningAndFatal
  Tables = {t1, t2}
  Shipped = {t1}
  Bad = bad
  None = none
  Absent = absent
  MaxScans = 2
  MaxOps = 1
INVARIANTS TypeOK HealthCovers
PROPERTIES AnswersWhole TelemetryGoesOn
CHECK_DEADLOCK FALSE
