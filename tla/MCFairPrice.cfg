CONSTANTS
  TradedSymbol = AAPL
  Symbols = {AAPL}
  MaxEvents = 4
  MaxInt = 20
  FirstStrategyOrderId = 10
  MaxAdded = 20
  Null = Null
  NoCommand = NoCommand
  Files <- MCFiles
  StrategyConfigs <- MCLimits
  Configs <- MCConfigs
  Commands = {}
SPECIFICATION AnyEdgeSpec
CHECK_DEADLOCK FALSE
INVARIANTS
  PositionWithinLimit
  NeverRests
