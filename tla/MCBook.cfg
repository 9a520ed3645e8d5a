CONSTANTS
  Ids = {a, b, c, d}
  Owners = {o1, o2}
  Prices = {0, 1}
  Quantities = {0, 1, 2}
  Null = Null
  Events <- MCEvents
SPECIFICATION Spec
SYMMETRY Symmetric
VIEW Latest
INVARIANTS
  TypeOK
  WellFormed
  QueriesAgree
  NotCrossed
  NeverThrows
  UnitsAccountedFor
PROPERTIES
  LevelChangesAnnounced
  LoopsMakeProgress
  ImplementsPriceTime
