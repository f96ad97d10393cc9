CONSTANTS
  t1 = t1
  t2 = t2
  t3 = t3
  Tasks <- MC_OneTask
  Submitters <- MC_NoSubmitters
  Delays = {0}
  MaxTime = 1
  TimeBits = 4
SPECIFICATION Spec
PROPERTY ShutdownNowReturns
CHECK_DEADLOCK FALSE
