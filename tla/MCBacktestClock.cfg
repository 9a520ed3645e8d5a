CONSTANTS
  Symbols = {s1}
  MaxEvents = 2
  MaxInt = 4
  FirstStrategyOrderId = 4
  MaxAdded = 5
  Null = Null
  NoCommand = NoCommand
  Files <- ClockFiles
  Configs <- ClockConfigs
  Commands <- ClockCommands
SPECIFICATION FairSpec
CHECK_DEADLOCK FALSE
INVARIANTS
  TypeOK
  NothingOverdue
  StrategyIdsPositive
PROPERTIES
  EventsActOnTime
  EveryRunEnds
