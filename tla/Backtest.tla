------------------------------ MODULE Backtest ------------------------------
(***************************************************************************)
(* src/backtest.cpp: the simulation loop that drives the event queue, one  *)
(* order book and one analytics object per symbol, the portfolio and the   *)
(* strategy, from the constructor to the summary printed after run().      *)
(*                                                                         *)
(* The program is one thread.  `at' is where it is: each action is one     *)
(* iteration of one of its loops, or one call that no other code           *)
(* interrupts.  A call of Book::ProcessOrder is the operator ProcessOrder  *)
(* of MatchingRules, which module Book is shown to implement step by step. *)
(*                                                                         *)
(* The strategy is any strategy: onTimeMove may return any of Commands at  *)
(* any tick.  Integers are int: sums wrap around at MaxInt.                *)
(***************************************************************************)
EXTENDS MatchingRules, EventQueue, Portfolio

CONSTANTS
  Symbols,     \* the symbols of events and commands
  Files,       \* what LoadEventsFromFile may return, Null where it throws
  Configs,     \* the BacktestConfigs
  Commands,    \* the OrderCommands a strategy may return
  NoCommand,   \* std::nullopt
  MaxInt,      \* std::numeric_limits<int>::max()
  FirstStrategyOrderId,  \* the initial nextStrategyOrderId_
  MaxAdded     \* bound: how many events are ever added to the queue

ASSUME MaxIntAssumption == MaxInt \in Nat \ {0}

ASSUME FirstIdAssumption == FirstStrategyOrderId \in 1 .. MaxInt

(* BackTestEvent and OrderCommand: fields of int are integers here. *)
BackTestEvents ==
  [symbol : Symbols, side : Sides, order_type : OrderTypes, order_id : Int,
   owner_id : Int, quantity : Int, price : Int, time : Int]

OrderCommands ==
  [symbol : Symbols, side : Sides, order_type : OrderTypes, order_id : Int,
   quantity : Int, price : Int]

ASSUME NullAssumption == Null \notin BackTestEvents

ASSUME FilesAssumption == \A f \in Files \ {Null} : f \in Seq(BackTestEvents)

ASSUME CommandsAssumption == Commands \subseteq OrderCommands /\ NoCommand \notin OrderCommands

ASSUME ConfigsAssumption ==
  \A c \in Configs :
    /\ c.marketCommunication \in Int /\ c.predictionGeneration \in Int
    /\ c.predictionTransfer \in Int /\ c.maxTime \in Int
    /\ c.strategyOwnerId \in Int /\ c.feeTicks \in Int

VARIABLES
  at,          \* the program counter
  config,      \* the BacktestConfig
  file,        \* the events of the file, until the constructor has them queued
  now,         \* now_
  nextStrategyOrderId,
  queue,       \* eventQueue_
  due,         \* dueEvents: what processDueEvents has still to process
  books,       \* books_: symbol -> book
  analytics,   \* analytics_: symbol -> side -> price -> quantity
  portfolio,   \* portfolio_
  inbox,       \* strategyEventsThisTick_
  latest,      \* history: the entry processed last, or Null
  believed,    \* history: the portfolio of the events the strategy was shown
  others,      \* history: cash and positions of all the other owners
  traded,      \* history: units the strategy has traded
  summary      \* what printSummary printed, or Null

vars == <<at, config, file, now, nextStrategyOrderId, queue, due, books,
          analytics, portfolio, inbox, latest, believed, others, traded, summary>>

engineVars == <<books, analytics, portfolio, inbox, latest, believed, others, traded, summary>>

(* The int that holds n, a sum of two of which the second is not negative. *)
(* Overflow is undefined in C++; the wrap-around of the hardware is the    *)
(* outcome taken for it, and the constructor's checks are there to rule it *)
(* out.                                                                    *)
Int32(n) == IF n <= MaxInt THEN n ELSE n - 2 * MaxInt - 2

Latency(c) ==
  c.marketCommunication + c.predictionGeneration + c.predictionTransfer

Init ==
  /\ at = "construct"
  /\ config \in Configs
  /\ file \in Files
  /\ now = 0
  /\ nextStrategyOrderId = FirstStrategyOrderId
  /\ queue = EmptyQueue
  /\ due = << >>
  /\ books = EmptyMap
  /\ analytics = EmptyMap
  /\ portfolio = EmptyPortfolio
  /\ inbox = << >>
  /\ latest = Null
  /\ believed = EmptyPortfolio
  /\ others = EmptyPortfolio
  /\ traded = 0
  /\ summary = Null

-----------------------------------------------------------------------------
(* Mutant: the constructor lets maxTime be the largest int. *)
ValidAnyMaxTime(c) ==
  /\ c.marketCommunication >= 0
  /\ c.predictionGeneration >= 0
  /\ c.predictionTransfer >= 0
  /\ Latency(c) <= MaxInt
  /\ c.maxTime >= 0
  /\ Latency(c) <= MaxInt - c.maxTime
  /\ c.strategyOwnerId >= 0

(* What TotalLatencyTicks and the constructor accept. *)
Valid(c) ==
  /\ c.marketCommunication >= 0
  /\ c.predictionGeneration >= 0
  /\ c.predictionTransfer >= 0
  /\ Latency(c) <= MaxInt
  /\ c.maxTime >= 0
  /\ c.maxTime # MaxInt
  /\ Latency(c) <= MaxInt - c.maxTime
  /\ c.strategyOwnerId >= 0

UsesReservedOwner(events, c) ==
  \E i \in DOMAIN events : events[i].owner_id = c.strategyOwnerId

(* The configuration is checked first, then the file is loaded. *)
Accepted == Valid(config) /\ file # Null /\ ~UsesReservedOwner(file, config)

(* Backtest::Backtest.  It also refuses a strategy that is a null pointer,  *)
(* which main never passes; that check is left out.                        *)
Construct ==
  /\ at = "construct"
  /\ \/ /\ Accepted
        /\ queue' = AddEvents(queue, file)
        /\ at' = "poll"
     \/ /\ ~Accepted
        /\ at' = "thrown"
        /\ UNCHANGED queue
  /\ file' = << >>
  /\ UNCHANGED <<config, now, nextStrategyOrderId, due, engineVars>>

-----------------------------------------------------------------------------
(* GetEvents moves the first event of the queue, which is due, to dueEvents. *)
PopDueEvent ==
  /\ at \in {"poll", "pollAgain"}
  /\ \E x \in queue.events :
       /\ IsDue(queue, x, now)
       /\ queue' = Pop(queue, x)
       /\ due' = Append(due, x)
  /\ UNCHANGED <<at, config, file, now, nextStrategyOrderId, engineVars>>

(* GetEvents returns: nothing in the queue is due. *)
StartProcessing ==
  /\ at \in {"poll", "pollAgain"}
  /\ \A x \in queue.events : x.event.time > now
  /\ at' = IF at = "poll" THEN "process" ELSE "processAgain"
  /\ UNCHANGED <<config, file, now, nextStrategyOrderId, queue, due, engineVars>>

BookOf(symbol) == IF symbol \in DOMAIN books THEN books[symbol] ELSE EmptyBook

AnalyticsOf(symbol) ==
  IF symbol \in DOMAIN analytics THEN analytics[symbol] ELSE [side \in Sides |-> EmptyMap]

(* Book::quantityAtPrice. *)
QuantityAtPrice(b, side, price) ==
  SumFunctionOnSet([n \in DOMAIN b.orders |-> b.orders[n].quantity],
                   {n \in DOMAIN b.orders : b.orders[n].side = side /\ b.orders[n].price = price})

(* Mutant: the price an order is modified away from is forgotten. *)
AnnouncesExceptModified(r, order_type) ==
  \/ r.type \in {"OrderCancelled", "OrderModifyAccepted", "OrderFilled", "OrderPartialFilled"}
  \/ r.type = "OrderAccepted" /\ order_type = "Add"

(* Response r to an event of this type makes processEvent refresh a level. *)
Announces(r, order_type) ==
  \/ r.type \in {"OrderCancelled", "OrderModified", "OrderModifyAccepted",
                 "OrderFilled", "OrderPartialFilled"}
  \/ r.type = "OrderAccepted" /\ order_type = "Add"

(* level_change_bids and level_change_asks. *)
ChangedPrices(rs, order_type, side) ==
  {rs[i].price : i \in {j \in DOMAIN rs : rs[j].side = side /\ Announces(rs[j], order_type)}}

(* One side of the analytics once MarketAnalytics::setLevel was called     *)
(* with the quantity of b at the changed prices: zero removes a level.     *)
SetLevels(level, b, side, changed) ==
  LET left == {price \in changed : QuantityAtPrice(b, side, price) # 0}
  IN [price \in (DOMAIN level \ changed) \cup left |->
        IF price \in changed THEN QuantityAtPrice(b, side, price) ELSE level[price]]

(* A symbol's analytics after the responses rs to an event of this type. *)
Refresh(levels, b, rs, order_type) ==
  [side \in Sides |-> SetLevels(levels[side], b, side, ChangedPrices(rs, order_type, side))]

(* The loop of processEvent on response r to the next of dueEvents. *)
Receive(acc, r) ==
  LET symbol == Head(due).event.symbol IN
  IF r.owner_id = config.strategyOwnerId
  THEN [inbox     |-> Append(acc.inbox, [symbol |-> symbol, event |-> r]),
        portfolio |-> Apply(acc.portfolio, symbol, r, config.feeTicks),
        others    |-> acc.others,
        traded    |-> IF IsFill(r) THEN acc.traded + r.quantity ELSE acc.traded]
  ELSE [acc EXCEPT !.others = Apply(@, symbol, r, 0)]

(* Backtest::processEvent on the next of dueEvents.  What the book answers *)
(* and what is received are bound by \E, which TLC evaluates once.         *)
ProcessEvent ==
  /\ at \in {"process", "processAgain"}
  /\ due # << >>
  /\ LET e == Head(due).event
     IN \E b \in {ProcessOrder(BookOf(e.symbol), e)} :
        \E received \in {FoldLeft(Receive, [inbox |-> inbox, portfolio |-> portfolio,
                                            others |-> others, traded |-> traded], b.responses)} :
          /\ books' = With(books, e.symbol, Reply(b, << >>))
          /\ analytics' = With(analytics, e.symbol,
                               Refresh(AnalyticsOf(e.symbol), b, b.responses, e.order_type))
          /\ inbox' = received.inbox
          /\ portfolio' = received.portfolio
          /\ others' = received.others
          /\ traded' = received.traded
  /\ latest' = Head(due)
  /\ due' = Tail(due)
  /\ UNCHANGED <<at, config, file, now, nextStrategyOrderId, queue, believed, summary>>

-----------------------------------------------------------------------------
IsNewOrder(c) == c.order_type \in {"Add", "IOC", "Market"}

(* The portfolio p once a strategy has counted in the event x it was shown. *)
Count(p, x) == Apply(p, x.symbol, x.event, config.feeTicks)

(* The strategy consumed strategyEventsThisTick_. *)
ShowInbox ==
  /\ believed' = FoldLeft(Count, believed, inbox)
  /\ inbox' = << >>

(* A new order of id 0 is given the next generated one. *)
Generates(c) == IsNewOrder(c) /\ c.order_id = 0

OrderId(c) == IF Generates(c) THEN nextStrategyOrderId ELSE c.order_id

(* nextStrategyOrderId_++, also where the command is then refused. *)
GenerateId(c) ==
  nextStrategyOrderId' = IF Generates(c) THEN Int32(nextStrategyOrderId + 1)
                         ELSE nextStrategyOrderId

(* Mutant: a new order's id is taken as it is. *)
SchedulableAnyNewId(c) == IsNewOrder(c) \/ c.order_id > 0

(* scheduleCommand accepts the order id of c: a generated one is refused   *)
(* once nextStrategyOrderId_ has wrapped around.                           *)
Schedulable(c) == IF IsNewOrder(c) THEN OrderId(c) >= 0 ELSE c.order_id > 0

(* The event that scheduleCommand makes of c. *)
Scheduled(c) ==
  [symbol |-> c.symbol, side |-> c.side, order_type |-> c.order_type, order_id |-> OrderId(c),
   owner_id |-> config.strategyOwnerId, quantity |-> c.quantity, price |-> c.price,
   time |-> Int32(now + Latency(config))]

(* Mutant: a command waits for the next tick's processDueEvents. *)
ScheduleForNextTick(c) ==
  /\ queue' = AddEvent(queue, Scheduled(c))
  /\ at' = "tick"

(* Backtest::scheduleCommand; run() then processes what is due once more. *)
Schedule(c) ==
  /\ queue' = AddEvent(queue, Scheduled(c))
  /\ at' = "pollAgain"

(* Strategy::onTimeMove returns command c, or none. *)
OnTimeMove(c) ==
  /\ at = "process" /\ due = << >>
  /\ c # NoCommand => queue.order_counter < MaxAdded
  /\ ShowInbox
  /\ \/ /\ c = NoCommand
        /\ at' = "tick"
        /\ UNCHANGED <<queue, nextStrategyOrderId>>
     \/ /\ c # NoCommand /\ Schedulable(c)
        /\ GenerateId(c) /\ Schedule(c)
     \/ /\ c # NoCommand /\ ~Schedulable(c)
        /\ GenerateId(c)
        /\ at' = "thrown"
        /\ UNCHANGED queue
  /\ UNCHANGED <<config, file, now, due, books, analytics, portfolio, latest, others,
                 traded, summary>>

(* Mutant: strategyEventsThisTick_ is cleared at the end of the tick. *)
TickClears ==
  /\ at = "tick" \/ (at = "processAgain" /\ due = << >>)
  /\ now' = Int32(now + 1)
  /\ at' = IF now' <= config.maxTime THEN "poll" ELSE "done"
  /\ inbox' = << >>
  /\ UNCHANGED <<config, file, nextStrategyOrderId, queue, due, books, analytics,
                 portfolio, latest, believed, others, traded, summary>>

(* now_++ and the loop's condition. *)
Tick ==
  /\ at = "tick" \/ (at = "processAgain" /\ due = << >>)
  /\ now' = Int32(now + 1)
  /\ at' = IF now' <= config.maxTime THEN "poll" ELSE "done"
  /\ UNCHANGED <<config, file, nextStrategyOrderId, queue, due, engineVars>>

-----------------------------------------------------------------------------
Prices(b, side) == {b.orders[n].price : n \in {m \in DOMAIN b.orders : b.orders[m].side = side}}

BestPrice(b, side) ==
  CHOOSE p \in Prices(b, side) : \A q \in Prices(b, side) \ {p} : Better(side, p, q)

(* Book::topOfBook: a quote, or nothing when a side is empty. *)
HasQuote(b) ==
  \A side \in Sides : /\ Prices(b, side) # {}
                     /\ QuantityAtPrice(b, side, BestPrice(b, side)) > 0

(* Mutant: a position is marked at the bid. *)
TwiceMarkAtBid(b) == BestPrice(b, "Buy") + BestPrice(b, "Buy")

(* Twice the mark, which keeps it whole. *)
TwiceMark(b) == BestPrice(b, "Buy") + BestPrice(b, "Sell")

(* Twice what a position adds to equity; without a mark, nothing. *)
TwiceValue(symbol) ==
  IF symbol \in DOMAIN books /\ HasQuote(books[symbol])
  THEN Position(portfolio, symbol) * TwiceMark(books[symbol])
  ELSE 0

(* Backtest::printSummary, which main calls when run() has returned. *)
PrintSummary ==
  /\ at = "done"
  /\ at' = "printed"
  /\ summary' = [cash |-> portfolio.cash,
                 twiceEquity |-> 2 * portfolio.cash
                                   + SumFunction([symbol \in DOMAIN portfolio.positions |->
                                                    TwiceValue(symbol)])]
  /\ UNCHANGED <<config, file, now, nextStrategyOrderId, queue, due, books, analytics,
                 portfolio, inbox, latest, believed, others, traded>>

Loop == PopDueEvent \/ StartProcessing \/ ProcessEvent \/ Tick \/ PrintSummary

Next ==
  \/ Construct
  \/ \E c \in Commands \cup {NoCommand} : OnTimeMove(c)
  \/ Loop

Spec == Init /\ [][Next]_vars

(* The program runs: it is one thread, and onTimeMove returns. *)
FairSpec == Spec /\ WF_vars(Next)

-----------------------------------------------------------------------------
(***************************************************************************)
(* Properties.                                                             *)
(***************************************************************************)
Places == {"construct", "poll", "process", "tick", "pollAgain", "processAgain", "done",
           "printed", "thrown"}

(* The types of the clock and the id counter, of the configuration, of     *)
(* what is queued, due and shown, and of books and analytics between two   *)
(* calls: include/backtester/backtest.hpp, 33-57.                          *)
TypeOK ==
  /\ at \in Places
  /\ config \in Configs
  /\ now \in -MaxInt - 1 .. MaxInt
  /\ nextStrategyOrderId \in -MaxInt - 1 .. MaxInt
  /\ \A x \in queue.events : x.order \in 0 .. queue.order_counter - 1
  /\ \A i \in DOMAIN due : due[i] \notin queue.events
  /\ \A symbol \in DOMAIN books :
       books[symbol].taker = Null /\ books[symbol].responses = << >>
  /\ DOMAIN analytics = DOMAIN books
  /\ \A i \in DOMAIN inbox : inbox[i].event.type \in ResponseEvents
  /\ latest = Null \/ latest.order \in 0 .. queue.order_counter - 1

-----------------------------------------------------------------------------
(* The analytics of a symbol hold the quantity of its book at every price, *)
(* although processEvent (backtest.cpp:182-203) only refreshes the levels  *)
(* that the responses name: a level a call changes without naming it would *)
(* stay stale until something else happens at its price.                   *)
AnalyticsMirrorBooks ==
  \A symbol \in DOMAIN books, side \in Sides :
    LET b == books[symbol]
        prices == {b.orders[n].price : n \in {m \in DOMAIN b.orders : b.orders[m].side = side}}
    IN analytics[symbol][side] = [p \in prices |-> QuantityAtPrice(b, side, p)]

(* The portfolio onTimeMove is given is the one a strategy would work out  *)
(* from the events it was ever shown plus those it is being shown: no fill *)
(* reaches one without the other, also the fills of a command that acts in *)
(* the tick it was decided in (backtest.cpp:82-101).                       *)
PortfolioFollowsEvents ==
  FoldLeft(Count, believed, inbox) = portfolio

(* What the strategy bought the other owners sold, at the same price: the  *)
(* two reports of a trade (Book::Fill) and Portfolio::apply lose nothing.  *)
TradesBalance ==
  /\ \A symbol \in DOMAIN books : Position(portfolio, symbol) + Position(others, symbol) = 0
  /\ portfolio.cash + others.cash = -config.feeTicks * traded

(* What printSummary prints (backtest.cpp:106-142) is what the other side  *)
(* of the strategy's trades explains: the cash they paid or received less  *)
(* the fees, and for every symbol that ends with a bid and an ask the      *)
(* units they are short or long, at the middle of the two.  The position   *)
(* in any other symbol has no part in equity and finalPnlTicks.            *)
SummaryExplained ==
  at = "printed" =>
    LET quoted == {symbol \in DOMAIN books : \A side \in Sides : Prices(books[symbol], side) # {}}
    IN /\ summary.cash = -others.cash - config.feeTicks * traded
       /\ summary.twiceEquity - 2 * summary.cash =
            SumFunction([symbol \in quoted |->
                           -Position(others, symbol) * (Max(Prices(books[symbol], "Buy"))
                                                          + Min(Prices(books[symbol], "Sell")))])

(* When the strategy decides, when a tick is over, and when the run is,    *)
(* nothing is waiting whose time has come: a command with no latency acts  *)
(* in its own tick, and what never acts was due after maxTime.             *)
NothingOverdue ==
  /\ at \in {"process", "processAgain", "tick"} => \A x \in queue.events : x.event.time > now
  /\ at = "done" => due = << >> /\ \A x \in queue.events : x.event.time > config.maxTime

(* README, "Deterministic event ordering": events act in the order of      *)
(* their times, then of their insertion, each at its own time (or in the   *)
(* first tick, when its time is negative).  In particular no command acts  *)
(* before an event that was to act before it, and none before its latency. *)
EventsActOnTime ==
  [][latest' # latest =>
       /\ latest # Null =>
            \/ latest.event.time < latest'.event.time
            \/ latest.event.time = latest'.event.time /\ latest.order < latest'.order
       /\ latest'.event.time = now \/ (latest'.event.time < 0 /\ now = 0)]_vars

(* Whatever the configuration and the strategy, run() ends: neither now_++ *)
(* nor now_ + latency leaves int, and no tick's loops run forever.         *)
EveryRunEnds == <>(at \in {"printed", "thrown"})

(* Every order of the strategy that is queued, due or rests has a positive *)
(* id, although nothing checks nextStrategyOrderId_++ (backtest.cpp:216):  *)
(* an id generated after the overflow ends the run before it is queued,    *)
(* and what the file holds under the strategy's owner id is never queued.  *)
StrategyIdsPositive ==
  /\ \A x \in queue.events \cup ToSet(due) :
       x.event.owner_id = config.strategyOwnerId => x.event.order_id > 0
  /\ \A symbol \in DOMAIN books : \A n \in DOMAIN books[symbol].orders :
       books[symbol].orders[n].owner_id = config.strategyOwnerId => n > 0

(* An event leaves the orders of other owners alone on its own side of the *)
(* book, and a CANCEL leaves alone all of them, also where an id that      *)
(* scheduleCommand generated (backtest.cpp:214) is the id of a historical  *)
(* order: the collision costs the strategy its order and nobody else.      *)
OthersLeftAlone ==
  [][latest' # latest =>
       LET e == latest'.event
           old == BookOf(e.symbol).orders
           new == books'[e.symbol].orders
       IN \A n \in DOMAIN old :
            /\ old[n].owner_id # e.owner_id
            /\ old[n].side = e.side \/ e.order_type = "Cancel"
            => n \in DOMAIN new /\ new[n] = old[n]]_vars

(* An event of the strategy that acts is answered in the same step, and    *)
(* the answer waits for the next onTimeMove: it names the event's id and   *)
(* symbol, also when the id met another order's and nothing was done       *)
(* (backtest.cpp:176-182 keeps the answers by owner, not by order).        *)
EveryCommandAnswered ==
  [][latest' # latest /\ latest'.event.owner_id = config.strategyOwnerId =>
       \E i \in Len(inbox) + 1 .. Len(inbox') :
         /\ inbox'[i].symbol = latest'.event.symbol
         /\ inbox'[i].event.order_id = latest'.event.order_id]_vars
=============================================================================
