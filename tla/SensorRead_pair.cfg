SPECIFICATION Spec
CONSTANTS
  h1 = h1  i1 = i1  i2 = i2
  Sensors = {1, 2}
  Limit <- TwoSensors
  Values = {5}
  Hwmon = {h1}
  Ioctl = {i1}
  Asked <- AskedOfPair
  Intervals = {0}
  NoReader = none
  MaxScans = 2
  MaxTime = 2
  MaxReads = 1
INVARIANT PairIsOne
CHECK_DEADLOCK FALSE
