# Formal models of Event-backtester

TLA+ specifications of the backtester in `src/`, the TLC configurations that
check them on small instances, and proofs, checked by TLAPS, about the order
book, its destructor, the loop, the fair-price strategy, the treap and the
loaders for values of any size.

Run from this directory: `tlc -config MCBook.cfg MCBook.tla` checks a model,
`tlapm BookProofs.tla` (and the other `...Proofs` modules) checks the proofs.
`PROJECT.json` maps each definition to the lines it stands for.

## 1. The system

A single-threaded C++17 program. A file of historical events is queued; a loop
over integer time sends what is due to one order book per symbol, shows the
result to a strategy, queues the strategy's command, and advances the clock.

| Component | Source | State | Operations |
|---|---|---|---|
| Order book | `src/book.cpp`, `book.hpp` | `bids`, `asks`: price to `{first, last, total_quantity}`; the nodes of doubly linked lists; `location`: order id to node, side, owner, price | `ProcessOrder` (ADD, CANCEL, MOD, IOC, MARKET), `topOfBook`, `quantityAtPrice`, destructor |
| Event queue | `event_queue.hpp` | a priority queue of (event, insertion number), `order_counter` | `AddEvent`, `GetEvents` |
| Backtest loop | `src/backtest.cpp` | `now_`, `nextStrategyOrderId_`, `strategyEventsThisTick_`, and the other components | constructor, `run`, `processDueEvents`, `processEvent`, `scheduleCommand`, `printSummary` |
| Portfolio | `src/portfolio.cpp` | cash, positions by symbol | `apply`, `position`, `cash` |
| Market analytics | `market_analytics.hpp`, `src/price_level_treap.cpp` | per side a treap of price levels: vector of nodes, root, free list, random engine | `setLevel`, `clear`, `reserve`, range and depth queries, `validate` |
| Strategies | `strategy.hpp`, `src/fair_price_strategy.cpp` | configuration only | `onTimeMove` |
| Loaders | `src/io.cpp`, `src/config.cpp` | the stream's position and its eof and fail bits; line number and keys seen | `LoadEventsFromFile`, `LoadBacktestConfigFromFile` |
| Wiring | `main.cpp` | none | `main` |

Interactions. Everything is a call on one thread: `run` polls the queue, calls
`Book::ProcessOrder`, hands the responses that belong to the strategy to the
portfolio and to the strategy's inbox, and refreshes the analytics of the levels
the responses name. `onTimeMove` reads books, analytics and portfolio and
returns at most one command, which goes back through the queue, after the
configured latency, to the same book.

What is hard, then, is not concurrency. It is
- linked lists, maps, an index and cached sums that must agree after any
  sequence of calls, and that do not agree in the middle of one;
- order: FIFO within a price, insertion order within a time, and a tick in which
  the queue is drained twice;
- copies that are refreshed only by what a response says (analytics, portfolio);
- values at the edge: orders without quantity, `int` time plus latency, ranges of
  prices clipped at the limits of `int`;
- a randomised tree with a free list;
- pointers that are walked once more at the very end, by the destructor;
- input that ends in the middle of something.

What makes each component correct:
- order book: price-time priority; lists, index and sums agree; never crossed;
  every unit of an order accounted for; every call returns, and none throws;
- event queue and loop: events act in order of time and insertion, at their
  time; nothing due is left over; every run ends; the constructor's checks are
  enough for that;
- portfolio, analytics and summary: what they hold and print follows from the
  books and from what the strategy is shown; an id of the strategy that meets
  another order's hurts nobody else and is answered;
- destructor: every node is deleted, and none twice;
- treap: it is a map from price to quantity, its sums and shape are right for any
  priorities, and its queries answer what the map would;
- strategy: the position limit, orders that trade at once, never both sides of a
  book, and more reluctance the larger the position;
- loaders: what is loaded is what is written, and an error names its line.

`PROJECT.json` lists the hazards line by line, each with the properties that
would catch it.

## 2. Modules

```
OrderTypes                   vocabulary of types.hpp, and Book::Fill
├── MatchingRules            the book's rules on a plain set of orders
│   ├── PriceTimeBook        abstract state machine of the rules
│   └── Backtest             + EventQueue, Portfolio: the loop and the summary
│       └── FairPrice        the loop with the fair-price strategy
│           └── BacktestProofs      a whole call of ProcessOrder, then theorems
│                                   about the loop and the strategy
├── Book                     book.cpp with its lists, maps and index
│   ├── BookProofs           the book's inductive invariant
│   └── BookDestructor       Book::~Book after any sequence of calls
│       └── BookPromisesProofs      on BookProofs: the refinement, queries,
│                                   responses and the destructor
├── Loader, LoaderProofs             io.cpp
├── ConfigLoader, ConfigLoaderProofs config.cpp
├── PriceLevels              abstract map, and reference answers to queries
└── Treap                    price_level_treap.cpp
    └── TreapProofs          the treap's inductive invariant, the refinement
                             of PriceLevels, and the queries
SumProofs, FoldProofs        lemmas about sums over sets and folds of sequences
MCBook, MCBookDestructor, MCBacktest, MCFairPrice, MCTreap, MCLoader,
MCConfigLoader               instances for TLC
```

**Book** has the code's data structure. `levels[side][price]` is a
`Location_Rest`, `nodes` holds the live `LevelNode`s by order id, `location` the
index (its pointer is the id itself). Following a pointer to a deleted node
leaves the domain of `nodes` and is an evaluation error. A call is the handler
up to the matching loop (`ProcessAdd`, `ProcessCancel`, `ProcessMod`,
`ProcessIOC`, `ProcessMarket`), one `Match...` step per iteration of the inner
loop, and `ReturnRested` or `ReturnExpired`. No other call starts in between:
`taker` is the order being matched. In the middle of a sweep `first` and `prev`
dangle, as they do in the code; `it`, the cursor, is what is right then. `before`
is history only: which of two orders at a price came first; so is `request`, the
event of the latest call, without which the refinement below would not notice an
answer meant for somebody else's request. Ids name nodes, so
the model has no second live node with the same id; that is what `rest_order`'s
exception would announce, and `NeverThrows` shows it does not arise.

**BookDestructor** adds the end of a book's life to `Book`: between two calls the
destructor enters the levels one after the other, in the order of the map, and
deletes one node per step, reading its `nxt` first, as `clearLevels` does. A
deleted node leaves the domain of `nodes`, so a cursor outside it is a use after
free, and whatever is left in `nodes` at the end has leaked.

**MatchingRules / PriceTimeBook** have no levels, lists or index: resting orders
as a function, `before`, and "the next maker is the one ahead of all others".
`Book!ImplementsPriceTime` maps `Book`'s state to it, step for step, call for
call.

**Backtest** uses `MatchingRules!ProcessOrder` for a whole call of the book: no
other code runs during a call, and `Book` has been shown to do what the rules
say. `at` is the program counter; one action per pop of the queue, per event
processed, per decision, per tick. `onTimeMove` returns any of `Commands` or
nothing. `Int32` is `int`'s range scaled to `MaxInt`; the wrap-around it gives
an overflow (undefined in C++) is what the constructor's checks must rule out for
times. Nothing rules it out for `nextStrategyOrderId_`: there the model goes on
with the wrapped value, which `Schedulable` refuses when it is generated.
`processEvent`'s loop over the responses is a fold of `Receive`.
A file may be `Null`: the loader throws, after the configuration was checked, as
in the constructor. After the loop `PrintSummary` is `printSummary`: cash, and
equity at the middle of bid and ask (twice of it, to stay whole).
`latest`, `believed`, `others`, `traded` are history for the properties. The
analytics are a map here, which `Treap` is shown to implement; responses are
forgotten after each call.

**FairPrice** replaces the free strategy by the fair-price one, twice.
`AnyEdgeSpec` leaves open whether the edges suffice: on a side where the limit
leaves room the strategy may take one unit, or wait. What it satisfies holds for
every bias, weight, base edge and penalty, also for the doubles of the code,
whatever their rounding. `FairPriceSpec` computes the edges as the code does, on
whole numbers (everything times `Scale`, the divisor of mid and imbalance), and
buys before it sells. It implements the first (`ImplementsAnyEdge`).

**Loader** has one step per extraction of `input >> time >> symbol >> ...`, with
the stream's `eof` and `fail`. A file is its tokens, each a number that fits
`int`, one that does not (consumed, and a failure), or a word (a failure where a
number is read, and left in the stream); and whether whitespace follows the last
one, without which reading it already sets eof. Where a number is read, a text
such as `10x` is two tokens, as it is for the stream.

**ConfigLoader** has one step per line. What `Trim` and `find` make of a line,
and what `std::stoi` and `std::stod` make of a value, is given with the file;
which of it is accepted, in which order, and what the exception says is the model.

**Treap** takes the vector of nodes as a value through the code's functions
(`splitLessThan`, `merge`, `insertNode`, ...). Those that call themselves or loop
down the tree are recursive functions, of an index, of a pair of indices, or of
an index and what the code passes along. A new level's priority
is any of `Priorities`, where the code draws 64 random bits; equal ones are
included. The free list keeps its capacity, which `createNode` must secure.
What the code throws is an outcome: a negative quantity, a level without an index
left (`RefuseLevel`), a reservation beyond the indices and a negative distance in
ticks. `MaxNodes` is the limit of `int` where it limits indices; it is a constant
apart from `MaxInt`, which limits prices, so that an instance can reach either.

**PriceLevels** is the map, with room for `MaxLevels` prices, and each query's
answer over it. Its levels from the
best on are given by rank ("the price with as many better ones"), not by a sort,
because `SortSeq` has no definition the provers could use.

## 3. Runs

| Run | Module, configuration | Checks | Distinct states |
|---|---|---|---|
| `book` | `MCBook.cfg` | `TypeOK`, `WellFormed`, `QueriesAgree`, `NotCrossed`, `NeverThrows`, `UnitsAccountedFor`, `LevelChangesAnnounced`, `LoopsMakeProgress`, `ImplementsPriceTime` | 37,649 |
| `book_returns` | `MCBookReturns.cfg` | `CallsReturn` | under fairness |
| `book_sell_price` | `MCBookSellPrice.cfg` | `SellsTradeAtSellPrice`, violated | |
| `book_destructor` | `MCBookDestructor.cfg` | `NoUseAfterFree`, `NothingLeaks` | 7,503 |
| `backtest_clock` | `MCBacktestClock.cfg` | `TypeOK`, `NothingOverdue`, `EventsActOnTime`, `StrategyIdsPositive`, `EveryRunEnds` | 31,595 |
| `backtest_levels` | `MCBacktestLevels.cfg` | `AnalyticsMirrorBooks`, `PortfolioFollowsEvents`, `TradesBalance`, `SummaryExplained`, `OthersLeftAlone`, `EveryCommandAnswered` | 880,544 |
| `fair_price` | `MCFairPrice.cfg` | `PositionWithinLimit`, `NeverRests` | 204,465 |
| `fair_price_edges` | `MCFairPriceEdges.cfg` | `OneSideOnly`, `HarderToExtend`, `ImplementsAnyEdge` | 222,502 |
| `treap` | `MCTreap.cfg` | `TypeOK`, `AlwaysValid`, `ShapeIsCanonical`, `RangeQueriesAgree`, `DepthQueriesAgree`, `ReleaseNeverAllocates`, `ImplementsMap` | 112,282 |
| `loader` | `MCLoader.cfg` | `LoadedAsWritten`, `WholeFilesLoad`, `LoadingEnds` | 56,140 |
| `loader_incomplete` | `MCLoaderIncomplete.cfg` | `IncompleteRefused`, violated | |
| `config_loader` | `MCConfigLoader.cfg` | `ConfigAsWritten`, `ErrorNamesFirstBadLine` | 47,591 |

What they show.
- `book`: whatever is added, cancelled, modified or matched, by right or wrong
  owners, the lists, maps and index agree, also in the middle of a loop; the
  queries answer what the resting orders say; bids stay below asks; the responses
  of a call account for every unit and name every level it changes; each call
  does what the abstract book does.
- `book_returns`: every call comes to an end.
- `book_sell_price`: the comment at `book.cpp:532`, "we use the price of the
  SELL order", does not describe `matchSell`: a sell order trades at the price of
  the resting buy order. The code is the usual rule; the comment (also at 313) was
  carried over from `matchBuy`.
- `backtest_clock`: for every configuration around the limits of `int`, valid
  or not, events act in order, each in its own tick (an event with a negative
  time in the first), a command without latency in the tick it was decided in,
  and the run ends, also where a generated order id has overflowed: that id
  reaches neither the queue nor a book.
- `book_destructor`: whatever was called before, the destructor deletes every
  node and follows no pointer to one that is gone.
- `backtest_levels`: the analytics equal the books although only announced
  levels are refreshed; the portfolio is what the strategy can work out from the
  events it was shown; what one owner gains the others lose, less the fees; and
  `printSummary` prints what the other side of the strategy's trades explains,
  positions without a two-sided quote left out. Ids that `scheduleCommand`
  generates meet ids of the file here (nothing in the code prevents it):
  the strategy is told in the same step, and no order of another owner on the
  event's own side changes (and a CANCEL changes none at all).
- `fair_price`: without latency the position limit holds and every order trades
  as it arrives; with a negative limit, which nothing refuses, it never trades.
  With latency neither is claimed: the strategy does not count
  what it has pending, so its position and its resting orders can exceed the
  limit by as many units as there are ticks; the repository's README lists
  pending-order-aware limits as planned.
- `fair_price_edges`: with a base edge that is not negative no reachable book
  makes both sides attractive, so testing the buy side first costs nothing;
  a strategy that would extend its position would extend any smaller one too.
- `loader`: event by event what is loaded is what is written; a file of whole
  records is never refused or cut short, with or without a last newline; what a
  loaded file leaves unread is less than a record, or a last record whose price
  does not fit `int`; loading ends for every file.
- `loader_incomplete`: `io.cpp:76` takes eof as the sign that the file was read
  to its end, but a record that is cut off sets eof too: it is dropped, without
  the exception "malformed events file" that the same record gets elsewhere.
- `config_loader`: no line is lost or overridden, and the number in an exception
  is that of the first wrong line, comments and blank lines counted.
- `treap`: the tree is valid and its shape depends on its contents only; it
  implements a map; range queries, clipping at the limits of `int` included, and
  depth queries agree with their definitions over that map; `releaseNode` never
  needs memory. There are fewer indices than prices, so a level may be refused:
  that happens only when every index holds one, and changes nothing.

Bounds, each the smallest at which the cases happen:
- `MCBook`: 4 ids, so that a level has a first, two inner nodes and a last, or a
  sweep crosses two levels and rests; 2 owners, for foreign cancels and mods;
  prices 0 and 1, so that a level with an illegal price for MOD and IOC takes
  part; quantities 0, 1, 2, for empty orders, partial and complete fills. Ids and
  owners are symmetric (nothing orders them). `VIEW Latest` leaves out the
  responses of a finished call, which nothing reads and no invariant mentions
  outside a call; action properties are evaluated on every generated step.
  `MCBookReturns` and `MCBookSellPrice` use neither symmetry nor a view.
- `MCBookDestructor`: 4 ids, one owner, prices and quantities as in `MCBook`:
  lists of up to four nodes and two levels a side, after cancels in their middle;
  symmetry and view as in `MCBook`.
- `MCBacktest`, clock: `MaxInt = 4`, latencies and `maxTime` at -1, 0, 1, 2 and
  the limit; files of up to 2 events at times -1 to 2, one of them perhaps with
  the strategy's owner id, or no file; the first generated id is the last one
  that fits, so that the second overflows. `MaxAdded` caps the events ever queued, the only cap
  that is not the code's: the strategy stops sending, it never stops deciding.
- `MCBacktest`, levels: 2 symbols, files of up to 3 events over 3 ticks, among them
  a modification to another price, a cancel and an IOC, with four commands; the
  first generated id is the id of a historical order.
- `MCFairPrice`: limits -1, 1 and 2, up to 4 events, 5 ticks, one historical id equal
  to the strategy's first generated id; for the edges, five strategies that
  always buy, always sell, or follow the imbalance with and without a penalty.
- `MCLoader`: up to two records of eight fields, so that a second record follows
  a complete first one, each file cut off at every token, with one field dropped
  or replaced by an odd one. A third record would repeat the second.
- `MCConfigLoader`: up to 3 lines, so that a duplicate has a line between; an
  `int` key twice over, the `double` key, an unknown key, and values that are good
  for both, for one, or for none of the parsers.
- `MCTreap`: 5 prices reaching both limits of a small `int` and 4 indices, so that a
  fifth level finds no room; 2 priorities, so that there are ties among 4 nodes
  (two priorities do not give every shape of four nodes; the proofs are about all
  of them); a reservation within the indices and one beyond them. `VIEW
  WithoutCall` leaves out the history variable `call`, which only `ImplementsMap`
  reads, a property of steps.

Deadlock checking is off where the program ends: a run at `printed` or with an
exception at `thrown`, a book when it is gone, a loader when it has returned.

Fairness. `Book!FairSpec` asks that a call in progress takes its next iteration,
`Backtest!FairSpec` that the program takes its next step (and that `onTimeMove`
returns), `Loader!FairSpec` that every extraction returns. All are weak fairness of a single thread executing; neither assumes
anything about the order of steps.

## 4. Proofs

What TLC checks on a small instance is proved here for every value of the
constants: any sets of ids, owners and symbols, any events with integer prices
and quantities, files of any length, configurations valid or not, any strategy,
any limit of `int`.

Assumptions, all of them types: events and commands are records of the right
fields (`EventsAssumption`, `FilesAssumption`, `CommandsAssumption`), the fields
of a configuration are integers, `MaxInt` is a positive number and the first
generated id one of `1 .. MaxInt`, `Null` is no id and no event, and `NoCommand`
no command. For the treap (`ConstantsAssumption`), prices are within the limits of
`int`, which are any two integers, quantities are integers, and priorities,
reservations and the number of indices natural numbers. TLC evaluates each of them in the runs.

### The order book

`BookProofs`:

| Theorem | States |
|---|---|
| `BookInvariant` | `Spec => []IInv` |
| `TypeCorrect` | `Spec => []TypeOK` |
| `StructureCorrect` | `Spec => []WellFormed` |
| `NeverCrossed` | `Spec => []NotCrossed` |
| `RestNeverThrows` | `Spec => []NeverThrows` |
| `LoopProgress` | `Spec => LoopsMakeProgress` |

The inductive invariant is `IInv == StateTypes /\ WellFormed /\ NotCrossed /\
NeverThrows` (`TypeOK` is `StateTypes` and the type of `request`). `WellFormed`
alone is not about reachability: links that are inverse to each other also
describe a list and a separate cycle. What rules the cycle out, without
recursion, is the order of arrival: neighbours of a list are adjacent in
`before`, which is a strict total order on each level. During a sweep `first` is
wrong, so `WellFormed` speaks of `Oldest`, the cursor while there is one;
`SweepOnBestLevel` keeps the cursor on the best opposite level, which is why a
partial sweep cannot leave the book crossed. `NeverThrows` needs to know that
the taker's id is not in the index all through the call.

The proof has a lemma per handler and per kind of step, and under it one step
per conjunct: `UnlinkKeeps` (removal from a list), `RestKeeps` (both branches of
`rest_order`), `MatchKeeps` (one iteration: maker kept or deleted, loop ended or
not), each with its typing lemma, then `NextIInv`.

`BookPromisesProofs` builds on `IInv`:

| Theorem | States |
|---|---|
| `BookImplementsPriceTime` | `Spec => ImplementsPriceTime` |
| `ChangesAreAnnounced` | `Spec => LevelChangesAnnounced` |
| `QueriesCorrect` | `Spec => []QueriesAgree` |
| `UnitsAreAccountedFor` | `Spec => []UnitsAccountedFor` |
| `LifeInvariant` | `LifeSpec => []LifeInv` |
| `DestructorReadsLiveNodes` | `LifeSpec => []NoUseAfterFree` |
| `DestructorFreesAll` | `LifeSpec => []NothingLeaks` |

- The refinement maps `location` and `nodes` to the orders of `PriceTimeBook`. A
  handler is a call of the rules; an iteration of a matching loop is one fill,
  because the cursor is the order that is ahead of all others (`SweepOnBestLevel`
  and `ListsAreFifo`); what follows the loop is the rules' `Return`.
- `LevelChangesAnnounced`: a fill and a removal answer with their level, but
  resting does not. `RestAnnounced` is the missing half: an order that may rest
  was already accepted, at the price at which it would rest.
- `QueriesAgree` needs `TotalsAgree`: each level's `total_quantity` is the sum
  over its nodes, in the middle of a sweep too.
- `UnitsAccountedFor` needs `Accounted`: the response that accepted the order is
  among those of the call, and what it accepted is what the fills after it traded
  plus what the order has left.
- The destructor: while the book is alive its steps are those of `Book`, so
  `IInv` holds when it starts. From there `LifeInv` says which nodes are live:
  those of the levels not yet entered, and in the level being walked those from
  the cursor on in order of arrival. It is `before`, again, that makes "the rest
  of the list" a set without recursion.

### A whole call

The first part of `BacktestProofs` is about the operator `ProcessOrder`, one call
of the book as `Backtest` makes it: `Submit`, then a fold of fills, then `Finish`.

| Theorem | States, for any uncrossed book and any event |
|---|---|
| `CallDone` | the book is left uncrossed; the event's id is answered; other owners' orders on its side stay as they are; the trades balance; every level that changed is named |
| `CallStranger` | an owner with no order in the book hears nothing and has none afterwards |
| `CallFromThere` | the only order that can be new in the book has the event's owner and id |
| `MarketableTakes` | an order for one unit that meets another is refused or filled, and never rests |

Each is an invariant of the fold, kept by `Submit`, by one fill and by `Finish`.

### Sums and folds

`SumProofs` and `FoldProofs` state what the sums and folds of the community
modules return (of nothing, of one more element, of equal functions). An
induction theorem that takes the statement as an operator parameter cannot be used
here. Two replacements are enough: a set of numbers that contains 0 and with each
number the next is all of them (`SumProofs!NatSet`), and a nonempty family of
subsets of a finite set has a smallest member (`SmallestMember`), which a false
statement about finite sets would have as its first counterexample.

### The loop

The second part of `BacktestProofs`:

| Theorem | States |
|---|---|
| `OrderInvariant`, `RunInvariant` | `Spec => []OrderInv`, `Spec => []RunInv` |
| `NothingIsOverdue` | `Spec => []NothingOverdue` |
| `EventsAreOnTime` | `Spec => EventsActOnTime` |
| `BacktestTyped` | `Spec => []TypeOK` |
| `AnalyticsAreCurrent` | `Spec => []AnalyticsMirrorBooks` |
| `PortfolioIsExplained` | `Spec => []PortfolioFollowsEvents` |
| `TradesAreBalanced` | `Spec => []TradesBalance` |
| `SummaryIsExplained` | `Spec => []SummaryExplained` |
| `StrategyIdsArePositive` | `Spec => []StrategyIdsPositive` |
| `OthersAreLeftAlone` | `Spec => OthersLeftAlone` |
| `EveryCommandIsAnswered` | `Spec => EveryCommandAnswered` |

`OrderInv` has four parts: the entries are typed and carry insertion numbers below
the counter; the clock is within `0 .. maxTime + 1`, below the largest `int`
while the loop runs (`NoOverflow` is what the constructor's checks are for);
what was processed precedes what is due, which precedes what is queued; what is
due is due now, and after `GetEvents` has returned the queue holds later events
only. The first processed event being in the past of everything else is what
makes "a command queues behind" inductive.

`RunInv` adds: what waits are events, and generated ids are in `int`
(`EventsTyped`); every book is between two calls and uncrossed, with integer
quantities above zero, and the analytics mirror it (`MarketInv`); the portfolio
is what the strategy works out, and its positions and cash are those of all the
others with the sign changed, but for the fees (`Accounts`). `CallDone` carries
each part through `ProcessEvent`: levels that are named are enough to refresh
(`RefreshMirrors`), and both sides of a trade at one price keep the balance. The
responses come one by one, so between two of them `Heard` says how far the
balance is off. `SummaryExplained` compares two sums over different sets of
symbols: both are extended by zeros to their union. `StrategyIdsArePositive` adds to
`RunInv` that the id counter is positive, or has just overflowed and takes nothing
with it but an exception; `CallFromThere` carries it into the books.

### The strategy

Also in `BacktestProofs`, about `FairPrice`:

| Theorem | States |
|---|---|
| `DecisionsWithinLimit` | `FairPriceSpec => ImplementsAnyEdge` |
| `AnyEdgeRuns` | `AnyEdgeSpec => []RunInv` |
| `LimitInvariant` | `AnyEdgeSpec => []LimitInv` |
| `PositionIsLimited` | `AnyEdgeSpec => []PositionWithinLimit` |
| `OrdersNeverRest` | `AnyEdgeSpec => []NeverRests` |
| `FairPriceWithinLimit` | `FairPriceSpec => [](PositionWithinLimit /\ NeverRests)` |
| `OnlyOneSide` | `FairPriceSpec => []OneSideOnly` |
| `EdgeIsHarder` | `FairPriceSpec => []HarderToExtend` |

Neither the limit nor "never rests" is inductive alone: the strategy looks at the
position before the order acts. `LimitInv` adds `OneTake`: without latency at most
one order of the strategy is under way, from the decision to the second
`processDueEvents` of the same tick, everything else in the queue is later, and
the order still fits the book and the limit it was made for. `MarketableTakes`
then says that it is refused or filled; `CallStranger` that nobody else's event
moves the position. `OnlyOneSide` and `EdgeIsHarder` are arithmetic: the two edges
together are the spread less twice the base edge, for any scale, and the products
with the penalty are compared through a lemma each, since the provers do not
multiply two unknowns.

### The treap

`TreapProofs`, for any prices, quantities, priorities and reservations:

| Theorem | States |
|---|---|
| `Invariance` | `Spec => []IInv` |
| `TreapTypeCorrect` | `Spec => []TypeOK` |
| `ReleasesFit` | `Spec => ReleaseNeverAllocates` |
| `CanonicalShape` | `Spec => []ShapeIsCanonical` |
| `TreapImplementsMap` | `Spec => ImplementsMap` |
| `RangeQueriesCorrect` | `Spec => []RangeQueriesAgree` |
| `DepthQueriesCorrect` | `Spec => []DepthQueriesAgree` |
| `ValidAfterEveryCall` | `Spec => []AlwaysValid` |

- The invariant has to say "this set of nodes is a treap under this root" without
  recursion. `Span(t, S, i)` is the set of the nodes of `S` between which and `i`,
  in the order of prices, nothing has a higher priority than `i`: the subtree of
  `i` in a treap of `S`, from prices and priorities alone. `Tree(t, S, r)` says
  that `r` and the children of each node are the ones with the highest priority
  where they should be, and that the sums in each node are those of its span.
  `IInv` adds that the nodes not in use are blank and are those of the free list,
  each once, that the list's capacity suffices for all nodes, that there are no more
  of them than indices, and that what is in use has a legal price, quantity and priority. TLC checks it on the instance of
  the run `treap`.
- The model's functions are recursive over the links of a vector of nodes.
  `Recursion` shows that an equation defines a function when each value depends
  on those of lower rank only; it is about the domain's ranks and has no operator
  as a parameter, and the next approximation is itself a function. A vector of
  which all the links lead down in some rank is `Grounded`; one with a `Tree` in
  it and no links elsewhere is (`TreeGrounded`: the rank is the size of the span). Each operation then has a
  lemma that unfolds it once, and one that climbs from the leaves
  (`SplitTree`, `MergeTree`, `InsertTree`, `EraseTree`, `UpdateTree`), saying
  which set of nodes it returns a `Tree` of, and that it leaves the nodes outside
  that set alone.
- `CreateNode`, from the free list or at the end of the vector, and
  `RemoveLevel` restore the rest of `IInv`; `ReleasesFit` is then a matter of
  counting: the free list holds some of the nodes, and there is room for all.
- A `Tree` has one shape only, which is `ShapeIsCanonical`; the map `Held` has the
  prices and quantities of the live nodes, which is the refinement. An index of
  the vector is in use or free, so `createNode` has room exactly when the map has
  fewer levels than there are indices (`RoomIs`).
- The queries climb in the same way, each with what it answers for any subtree
  and any argument: the sum below a bound, the first levels, the level at a depth.
  `AheadOf`, the nodes with better prices, relates positions in the tree to those
  in the map, and `FromBest` to the order in which `collectTopLevels` appends.

### The loaders

`LoaderProofs` (`EventsAreTheFile`, `WholeFilesAreLoaded`) and
`ConfigLoaderProofs` (`LoadedConfigIsTheFile`, `FirstBadLineNamed`) prove the
loaders' invariants for files of any length: what is stored is the part of the
file before the position, what is left is the part behind it, and a failure says
what stood there.

### Model-checked only

- Liveness: `CallsReturn`, `EveryRunEnds`, `LoadingEnds`. TLAPS has neither
  fairness nor ENABLED. `LoopProgress` is the part of the first that is proved.

Every other property of the passing runs is one of the theorems.

## 5. Not modelled

- `main`: it calls what is modelled, once each, with fixed arguments.
- The constructor's check that the strategy is not null (`backtest.cpp:46`): what
  `Commands` stands for is a strategy.
- `levelQuantity`, `IsEmpty`, `books()`, `analytics()`: nothing calls them.
- Rounding of doubles: prices, cash, fees and the strategy's parameters are whole
  numbers; `AnyEdgeSpec` covers the strategy's edges whatever the rounding.
- The characters of a file: how a stream splits a text into tokens, and what
  `Trim`, `std::stoi` and `std::stod` return, are inputs. A read error in the
  middle of the events file, which `std::ifstream` does not tell apart from
  its end in this code, is left out.
- The width of quantities, prices and cash: sums of them are unbounded here.
- Moving a treap: nothing in the program does.
- Running out of memory.

## 6. Plan

Done: every component but `main`, with the proofs of section 4: each property
of the runs is proved but for liveness. What could follow:

1. The treap in place of the map in `Backtest`, by the refinement; nothing in the
   loop depends on more than the map.
2. `FairPriceSpec` with the halves and quotients of doubles, for bounds on how far
   rounding can move a decision.
3. What the loop calls when a strategy counts its pending orders, once the code
   has it.
