SPECIFICATION Spec
CONSTANTS
  Procs = {p1, p2}
  Users = {u1, u2}
  Ids = {r1}
  Priorities = {"normal"}
  MaxTime = 0
  Null = Null
  NoId = NoId
  Unset = Unset
CHECK_DEADLOCK FALSE
INVARIANTS ClaimFailedMeansAnotherUser
