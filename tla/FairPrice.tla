----------------------------- MODULE FairPrice ------------------------------
(***************************************************************************)
(* src/fair_price_strategy.cpp: the strategy main.cpp runs, as the one     *)
(* that decides in Backtest's loop.                                        *)
(*                                                                         *)
(* The code's doubles are whole numbers here: the parameters are whole,    *)
(* and prices and edges are multiplied by twice the quantity at the top of *)
(* the book, the divisor of mid and imbalance.  Rounding is left out.      *)
(***************************************************************************)
EXTENDS Backtest

CONSTANTS
  TradedSymbol,    \* config_.symbol
  StrategyConfigs  \* the other fields of the FairPriceStrategyConfigs

ASSUME TradedSymbolAssumption == TradedSymbol \in Symbols

ASSUME StrategyConfigsAssumption ==
  \A c \in StrategyConfigs :
    /\ c.bias \in Int /\ c.imbalanceWeight \in Int /\ c.baseEdge \in Int
    /\ c.inventoryPenalty \in Int /\ c.maxPosition \in Int

VARIABLE strategy  \* config_

strategyVars == <<vars, strategy>>

TopBook == BookOf(TradedSymbol)

TopQuantity(side) == QuantityAtPrice(TopBook, side, BestPrice(TopBook, side))

Scale == 2 * (TopQuantity("Buy") + TopQuantity("Sell"))

FairPrice ==
  (TopQuantity("Buy") + TopQuantity("Sell")) * TwiceMark(TopBook)
    + Scale * strategy.bias
    + 2 * strategy.imbalanceWeight * (TopQuantity("Buy") - TopQuantity("Sell"))

(* Mutant: both edges are measured from the ask. *)
EdgeFromAsk(side) ==
  IF side = "Buy"
  THEN FairPrice - Scale * BestPrice(TopBook, "Sell")
  ELSE Scale * BestPrice(TopBook, "Sell") - FairPrice

(* buyEdge and sellEdge. *)
Edge(side) ==
  IF side = "Buy"
  THEN FairPrice - Scale * BestPrice(TopBook, "Sell")
  ELSE Scale * BestPrice(TopBook, "Buy") - FairPrice

(* Mutant: the penalty has the same sign on both sides. *)
RequiredEdgeOneSign(side, position) ==
  strategy.baseEdge + position * strategy.inventoryPenalty

(* requiredBuyEdge and requiredSellEdge. *)
RequiredEdge(side, position) ==
  strategy.baseEdge + (IF side = "Buy" THEN position ELSE -position) * strategy.inventoryPenalty

Reaches(side, position) == Edge(side) >= Scale * RequiredEdge(side, position)

(* Mutant: the limit is tested after the trade that passes it. *)
RoomToExceed(side, position) ==
  IF side = "Buy" THEN position <= strategy.maxPosition ELSE position >= -strategy.maxPosition

(* The position leaves room for one more unit on this side. *)
Room(side, position) ==
  IF side = "Buy" THEN position < strategy.maxPosition ELSE position > -strategy.maxPosition

(* Mutant: the order joins its own side of the book. *)
TakeOwnSide(side) ==
  [symbol |-> TradedSymbol, order_type |-> "Add", order_id |-> 0, side |-> side,
   quantity |-> 1, price |-> BestPrice(TopBook, side)]

(* The marketable limit order for one unit. *)
Take(side) ==
  [symbol |-> TradedSymbol, order_type |-> "Add", order_id |-> 0, side |-> side,
   quantity |-> 1, price |-> BestPrice(TopBook, Opposite(side))]

(* What the strategy may do whatever its bias, weight, base edge and       *)
(* penalty: take one unit on a side where the limit leaves room, or wait.  *)
AnyEdgeCommands ==
  LET position == Position(portfolio, TradedSymbol) IN
  {NoCommand} \cup
    IF HasQuote(TopBook) THEN {Take(side) : side \in {s \in Sides : Room(s, position)}} ELSE {}

(* Mutant: selling does not look at the limit. *)
FairPriceCommandSellsOn ==
  LET position == Position(portfolio, TradedSymbol)
      WantsToBuy == HasQuote(TopBook) /\ Room("Buy", position) /\ Reaches("Buy", position)
      WantsToSell == HasQuote(TopBook) /\ Reaches("Sell", position)
  IN IF WantsToBuy THEN Take("Buy") ELSE IF WantsToSell THEN Take("Sell") ELSE NoCommand

(* FairPriceStrategy::onTimeMove: buying is considered before selling. *)
FairPriceCommand ==
  LET position == Position(portfolio, TradedSymbol)
      Wants(side) == HasQuote(TopBook) /\ Room(side, position) /\ Reaches(side, position)
  IN IF Wants("Buy") THEN Take("Buy") ELSE IF Wants("Sell") THEN Take("Sell") ELSE NoCommand

FairPriceInit == Init /\ strategy \in StrategyConfigs

AnyEdgeNext ==
  /\ Construct \/ (\E c \in AnyEdgeCommands : OnTimeMove(c)) \/ Loop
  /\ UNCHANGED strategy

AnyEdgeSpec == FairPriceInit /\ [][AnyEdgeNext]_strategyVars

FairPriceNext ==
  /\ Construct \/ OnTimeMove(FairPriceCommand) \/ Loop
  /\ UNCHANGED strategy

FairPriceSpec == FairPriceInit /\ [][FairPriceNext]_strategyVars

-----------------------------------------------------------------------------
(* Without latency, which is how README's "max position = 6" run is set    *)
(* up, the position never leaves -maxPosition .. maxPosition, although the *)
(* strategy looks at the position alone and not at what it has pending.    *)
(* With a limit below zero, which nothing forbids, it never trades.        *)
PositionWithinLimit ==
  Latency(config) = 0 =>
    Position(portfolio, TradedSymbol) \in {0} \cup -strategy.maxPosition .. strategy.maxPosition

(* README, "marketable limit orders": without latency every order of the   *)
(* strategy trades as it arrives; none is ever left resting in the book.   *)
NeverRests ==
  Latency(config) = 0 =>
    \A symbol \in DOMAIN books : \A n \in DOMAIN books[symbol].orders :
      books[symbol].orders[n].owner_id # config.strategyOwnerId

Deciding == at = "process" /\ due = << >> /\ HasQuote(TopBook)

(* With a base edge that is not negative, no book of a run makes both      *)
(* sides worth taking at once, so it does not matter that the code tests   *)
(* buying first (fair_price_strategy.cpp:52-61): both edges together are   *)
(* what is left of the spread, and the book is never crossed.              *)
OneSideOnly ==
  Deciding /\ strategy.baseEdge >= 0 =>
    LET position == Position(portfolio, TradedSymbol) IN
    ~(Reaches("Buy", position) /\ Reaches("Sell", position))

(* README: the required edge depends on the inventory, "making it harder   *)
(* to keep increasing an already large position".  What the strategy would *)
(* add to its position in a book of the run, it would have added to any    *)
(* smaller position on that side too, and with none (lines 46-50).         *)
HarderToExtend ==
  Deciding /\ strategy.inventoryPenalty >= 0 =>
    LET position == Position(portfolio, TradedSymbol) IN
    /\ \A p \in 0 .. position : Reaches("Buy", position) => Reaches("Buy", p)
    /\ \A p \in position .. 0 : Reaches("Sell", position) => Reaches("Sell", p)

(* The computed decisions are among those the limit alone allows, so what  *)
(* holds for any edges (PositionWithinLimit, NeverRests) holds for these.  *)
ImplementsAnyEdge == AnyEdgeSpec
=============================================================================
