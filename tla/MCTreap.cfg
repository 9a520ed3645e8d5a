CONSTANTS
  Prices <- MCPrices
  Quantities <- MCQuantities
  Priorities = {0, 1}
  MinInt <- MCMinInt
  MaxInt <- MCMaxInt
  MaxNodes = 4
  Reservations = {2, 5}
SPECIFICATION Spec
VIEW WithoutCall
INVARIANTS
  TypeOK
  AlwaysValid
  ShapeIsCanonical
  RangeQueriesAgree
  DepthQueriesAgree
PROPERTIES
  ReleaseNeverAllocates
  ImplementsMap
