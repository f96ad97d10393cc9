CONSTANTS
  Capacity = 4
  NItems = 6
SPECIFICATION Spec
INVARIANTS
  TypeOK
  FifoOrder
  AtMostCapacityMinusOneResident
  NoItemLostAtTeardown
PROPERTIES
  EveryPutItemIsGot
  FifoSpec
CHECK_DEADLOCK FALSE
