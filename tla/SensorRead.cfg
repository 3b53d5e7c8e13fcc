SPECIFICATION FairSpec
CONSTANTS
  h1 = h1  i1 = i1  i2 = i2
  Sensors = {1, 2}
  Limit <- TwoSensors
  Values = {5}
  Hwmon = {h1}
  Ioctl = {i1, i2}
  Asked <- AskedOfTwo
  Intervals = {65537}
  NoReader = none
  MaxScans = 2
  MaxTime = 2
  MaxReads = 1
INVARIANTS TypeOK ReadIsOneRecentScan KilledForCause
PROPERTY EveryReadReturns
CHECK_DEADLOCK FALSE
