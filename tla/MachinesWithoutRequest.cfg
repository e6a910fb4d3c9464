SPECIFICATION Spec
CONSTANTS
  Procs = {p1}
  Names = {n1, n2}
  MaxId = 3
  NoName = NoName
  NoId = NoId
INVARIANTS MachinesHaveRequests
