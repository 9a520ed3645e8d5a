CONSTANTS
  TradedSymbol = AAPL
  Symbols = {AAPL}
  MaxEvents = 4
  MaxInt = 20
  FirstStrategyOrderId = 10
  MaxAdded = 20
  Null = Null
  NoCommand = NoCommand
  Files <- MCFiles
  StrategyConfigs <- MCStrategies
  Configs <- MCConfigs
  Commands = {}
SPECIFICATION FairPriceSpec
CHECK_DEADLOCK FALSE
INVARIANTS
  OneSideOnly
  HarderToExtend
PROPERTY
  ImplementsAnyEdge
