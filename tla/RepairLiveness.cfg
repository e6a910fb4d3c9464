SPECIFICATION ConnSpec
CONSTANTS
  Procs = {p1, p2}
  Users = {u1}
  Ids = {r1}
  Priorities = {"normal"}
  MaxTime = 0
  Null = Null
  NoId = NoId
  Unset = Unset
  Listers = {l1}
  Free = Free
CHECK_DEADLOCK FALSE
PROPERTIES EveryCallIsAnswered EveryListingIsAnswered
