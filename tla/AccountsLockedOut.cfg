SPECIFICATION Spec
CONSTANTS
  Procs = {p1, p2}
  Names = {n1, n2}
  MaxId = 3
  NoName = NoName
  NoId = NoId
CHECK_DEADLOCK FALSE
INVARIANTS NotLockedOut
