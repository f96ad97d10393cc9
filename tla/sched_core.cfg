CONSTANTS
  t1 = t1
  t2 = t2
  t3 = t3
  Tasks <- MC_ThreeTasks
  Submitters <- MC_NoSubmitters
  Delays = {0, 1, 3}
  MaxTime = 2
  TimeBits = 5
SPECIFICATION Spec
INVARIANTS
  TypeOK
  NoTaskLostOrDuplicated
  NoEarlyDispatch
  DispatchInDeadlineOrder
PROPERTIES
  NoDispatchAfterShutdown
  QueuedTaskEventuallyHanded
CHECK_DEADLOCK FALSE
