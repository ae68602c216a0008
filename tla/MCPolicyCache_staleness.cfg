SPECIFICATION Spec
CONSTANTS
  Request = {r1, r2}
  other = other
  Target <- OneTarget
  Input <- OneInput
  Policy <- Rows
  CacheTtl = 2
  MaxFill = 1
  MaxTime = 5
  MaxSeen = 3
  Never = Never
SYMMETRY Symmetry
INVARIANTS
  TypeOK
  TopPriorityDecides
PROPERTIES
  BoundedStaleness
CHECK_DEADLOCK FALSE
