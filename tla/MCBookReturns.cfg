CONSTANTS
  Ids = {a, b, c}
  Owners = {o1}
  Prices = {0, 1}
  Quantities = {0, 1, 2}
  Null = Null
  Events <- MCEvents
SPECIFICATION FairSpec
PROPERTIES
  CallsReturn
