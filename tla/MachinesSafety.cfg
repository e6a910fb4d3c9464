SPECIFICATION Spec
CONSTANTS
  Procs = {p1, p2, p3}
  Names <- MCNames
  Chars <- MCChars
  Queries <- MCQueries
  Limits = {0, 1, 51}
  MaxId = 3
  NoName = NoName
  NoId = NoId
SYMMETRY Symmetry
INVARIANTS TypeOK OneMachinePerName FiledUnderWhatWasTyped RacesAreAbsorbed SearchFindsWhatWasTyped
PROPERTIES ImplementsRegistry
