CONSTANTS
  Ids = {a, b, c, d}
  Owners = {o1}
  Prices = {0, 1}
  Quantities = {0, 1, 2}
  Null = Null
  Events <- MCEvents
SPECIFICATION LifeSpec
SYMMETRY Symmetric
VIEW Latest
CHECK_DEADLOCK FALSE
INVARIANTS
  NoUseAfterFree
  NothingLeaks
