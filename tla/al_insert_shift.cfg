CONSTANTS
  Objects = {o1, o2, o3}
  Unset = Unset
  Void = Void
  InitialCapacities = {0}
  InsertDepths = {2}
SPECIFICATION Spec
PROPERTY
  ListSpec
