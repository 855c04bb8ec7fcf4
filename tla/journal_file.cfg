SPECIFICATION Spec
CONSTANTS
  Sessions = {s1, s2}
  Kinds <- SomeKinds
  MaxRecordSize = 2
  MaxCells = 9
  MaxMishaps = 2
SYMMETRY SessionSymmetry
INVARIANTS
  TypeOK
  ParseIsExact
PROPERTIES
  AppendIsRead
  ImplementsDurableLog
