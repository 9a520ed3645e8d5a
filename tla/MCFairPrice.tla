---------------------------- MODULE MCFairPrice -----------------------------
EXTENDS FairPrice, TLC

CONSTANT MaxEvents   \* the longest file

MCConfigs ==
  {[maxTime |-> 4, marketCommunication |-> latency, predictionGeneration |-> 0,
    predictionTransfer |-> 0, strategyOwnerId |-> 1, feeTicks |-> 0] : latency \in {0, 1}}

MCEvent(time, type, side, id, quantity, price) ==
  [symbol |-> TradedSymbol, time |-> time, order_type |-> type, side |-> side,
   order_id |-> id, owner_id |-> 2, quantity |-> quantity, price |-> price]

(* Makers of two prices on either side, one id that meets the strategy's   *)
(* first generated id, and a taker between two ticks.                      *)
MCEvents ==
  {MCEvent(0, "Add", "Buy", 1, 3, 1), MCEvent(0, "Add", "Sell", 2, 3, 2),
   MCEvent(0, "Add", "Sell", FirstStrategyOrderId, 1, 3),
   MCEvent(1, "Add", "Buy", 3, 1, 2), MCEvent(2, "Market", "Buy", 4, 2, 0),
   MCEvent(1, "Cancel", "Sell", 2, 0, 0)}

MCStrategy(bias, imbalanceWeight, baseEdge, inventoryPenalty, maxPosition) ==
  [bias |-> bias, imbalanceWeight |-> imbalanceWeight, baseEdge |-> baseEdge,
   inventoryPenalty |-> inventoryPenalty, maxPosition |-> maxPosition]

(* The limit is all that matters to any edges; with -1 nothing is taken.   *)
MCLimits == {MCStrategy(0, 0, 0, 0, limit) : limit \in {-1, 1, 2}}

(* Always buying, always selling, and three that follow the imbalance,     *)
(* with and without a base edge and a penalty.                             *)
MCStrategies ==
  {MCStrategy(3, 0, 0, 0, 1), MCStrategy(-3, 0, 0, 0, 1), MCStrategy(0, 3, 0, 1, 2),
   MCStrategy(1, 2, 1, 0, 2), MCStrategy(-2, 2, 1, 1, 2)}

MCFiles == UNION {[1 .. n -> MCEvents] : n \in 0 .. MaxEvents}
=============================================================================
