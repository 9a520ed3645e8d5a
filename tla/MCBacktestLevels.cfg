CONSTANTS
  Symbols = {s1, s2}
  MaxEvents = 3
  MaxInt = 4
  FirstStrategyOrderId = 2
  MaxAdded = 9
  Null = Null
  NoCommand = NoCommand
  Files <- LevelFiles
  Configs <- LevelConfigs
  Commands <- LevelCommands
SPECIFICATION Spec
CHECK_DEADLOCK FALSE
INVARIANTS
  AnalyticsMirrorBooks
  PortfolioFollowsEvents
  TradesBalance
  SummaryExplained
PROPERTIES
  OthersLeftAlone
  EveryCommandAnswered
