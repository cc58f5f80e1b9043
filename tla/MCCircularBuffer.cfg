SPECIFICATION Spec
CONSTANTS
  NULL = NULL
  Capacity = 3
  Ptr = {p1, p2}
  Size = {0, 1, 2}
INVARIANTS
  TypeOK
  PointersAreLive
  FindIsByteLookup
PROPERTY
  ImplementsCommandLog
