SPECIFICATION ApartSpec
CONSTANTS
  Procs = {p1, p2, p3}
  Names = {n1, n2}
  MaxId = 3
  NoName = NoName
  NoId = NoId
SYMMETRY Symmetry
CHECK_DEADLOCK FALSE
INVARIANTS TypeOK TargetIsWhoWasFound DeleteAnswerIsTrue ApartNeverLockedOut
PROPERTIES ImplementsLooseDirectory ApartImplementsStrictDirectory ApartSetupMakesTheFirst
