----------------------------- MODULE MCBacktest -----------------------------
EXTENDS Backtest, TLC

CONSTANT MaxEvents   \* the longest file

Strategy == 1    \* the strategy's owner id in the valid configurations

Event(symbol, time, type, side, id, owner, quantity, price) ==
  [symbol |-> symbol, time |-> time, order_type |-> type, side |-> side,
   order_id |-> id, owner_id |-> owner, quantity |-> quantity, price |-> price]

Command(symbol, type, side, id, quantity, price) ==
  [symbol |-> symbol, order_type |-> type, side |-> side, order_id |-> id,
   quantity |-> quantity, price |-> price]

Config(maxTime, latency, owner, fee) ==
  [maxTime |-> maxTime, marketCommunication |-> latency[1],
   predictionGeneration |-> latency[2], predictionTransfer |-> latency[3],
   strategyOwnerId |-> owner, feeTicks |-> fee]

FilesOver(events) == UNION {[1 .. n -> events] : n \in 0 .. MaxEvents}

-----------------------------------------------------------------------------
(* Times: every configuration near the limits of int, and few events.      *)
ClockConfigs ==
  {Config(maxTime, <<market, generation, 0>>, owner, 0) :
     maxTime \in {-1, 0, 1, 2, MaxInt}, market \in {-1, 0, 1, MaxInt},
     generation \in {0, 1}, owner \in {-1, Strategy}}

ClockEvents ==
  {Event(symbol, time, "Add", "Sell", 1, 2, 1, 1) : symbol \in Symbols, time \in {-1, 0, 1, 2}}
    \cup {Event(symbol, 0, "Add", "Buy", 2, Strategy, 1, 1) : symbol \in Symbols}

ClockFiles == FilesOver(ClockEvents) \cup {Null}

ClockCommands ==
  {Command(symbol, type, "Buy", id, 1, 1) :
     symbol \in Symbols, type \in {"Add", "Market", "Cancel"}, id \in {-1, 0, FirstStrategyOrderId}}

-----------------------------------------------------------------------------
(* Levels: a maker of two prices, modified, cancelled or traded with.      *)
LevelConfigs ==
  {Config(2, <<market, 0, 0>>, Strategy, fee) : market \in {0, 1}, fee \in {0, 1}}

LevelEvents ==
  UNION {{Event(symbol, 0, "Add", "Sell", 1, 2, 2, 1),
          Event(symbol, 1, "Mod", "Sell", 1, 2, 1, 2),
          Event(symbol, 1, "Cancel", "Sell", 1, 2, 0, 0),
          Event(symbol, 0, "Add", "Buy", 2, 3, 2, 2),
          Event(symbol, 1, "IOC", "Buy", 3, 3, 3, 2)} : symbol \in Symbols}

LevelFiles == FilesOver(LevelEvents)

LevelCommands ==
  UNION {{Command(symbol, "Add", "Buy", 0, 1, 1),
          Command(symbol, "Market", "Sell", 0, 1, 0),
          Command(symbol, "Mod", "Buy", FirstStrategyOrderId, 1, 2),
          Command(symbol, "Cancel", "Buy", FirstStrategyOrderId, 0, 0)} : symbol \in Symbols}
=============================================================================
