SPECIFICATION ApartSpec
CONSTANTS
  Procs = {p1, p2}
  Users = {u1, u2}
  Ids = {r1}
  Priorities = {"normal"}
  MaxTime = 1
  Null = Null
  NoId = NoId
  Unset = Unset
SYMMETRY Symmetry
CHECK_DEADLOCK FALSE
INVARIANTS TypeOK ClosedStampMatchesStatus OwnershipStartsWithClaim NoDanglingAccounts ClaimAnswerIsTrue ClaimFailureIsFinal StampsInOrder
PROPERTIES ImplementsConcurrentLedger ApartImplementsStrictLedger ApartTerminalIsFinal
