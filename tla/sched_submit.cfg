CONSTANTS
  t1 = t1
  t2 = t2
  t3 = t3
  Tasks <- MC_SubmitTasks
  Submitters <- MC_Submitters
  Delays = {0, 1, 3}
  MaxTime = 2
  TimeBits = 4
SPECIFICATION Spec
INVARIANTS
  TypeOK
  NoEarlyDispatch
CHECK_DEADLOCK FALSE
