CONSTANTS
  Objects = {o1, o2}
  Nodes = {n1, n2, n3}
  Nil = Nil
  NoObject = NoObject
  Void = Void
  InsertIndexes = {0}
SPECIFICATION Spec
\* An assertion failure (aborted) ends the program.
CHECK_DEADLOCK FALSE
PROPERTY
  ListSpec
