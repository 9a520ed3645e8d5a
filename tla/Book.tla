-------------------------------- MODULE Book --------------------------------
(***************************************************************************)
(* src/book.cpp: one symbol's limit order book, with its real data         *)
(* structure.  Each side is a map from price to a level; a level holds the *)
(* first and last node of a doubly linked list and the total quantity of   *)
(* the list; `location' finds the node of an order id.                     *)
(*                                                                         *)
(* A node is named by its order_id (a const member): there is at most one  *)
(* live node per id as long as rest_order never throws, which NeverThrows  *)
(* states.  A freed node is outside DOMAIN nodes, so a use after free is   *)
(* an evaluation error.                                                    *)
(*                                                                         *)
(* A call of ProcessOrder runs alone.  It is modelled as its handler, then *)
(* one step per iteration of the inner matching loop, then its return;     *)
(* `taker' is the order being matched, so it also says that a call is in   *)
(* progress, and `it' is the loop's cursor.                                *)
(***************************************************************************)
EXTENDS OrderTypes, FiniteSets, Functions

CONSTANTS
  Ids,       \* order ids
  Owners,    \* participants
  Events,    \* the events that may be sent to the book
  Null       \* nullptr, and the absence of a taker

EventRecord ==
  [order_type : OrderTypes, side : Sides, order_id : Ids, owner_id : Owners,
   quantity : Int, price : Int]

ASSUME EventsAssumption == Events \subseteq EventRecord

ASSUME NullAssumption == Null \notin Ids /\ Null \notin EventRecord

VARIABLES
  levels,    \* bids and asks: side -> price -> Location_Rest
  nodes,     \* the live LevelNodes, by order id
  location,  \* order id -> Location_ID
  taker,     \* order_data of the call in progress, or Null
  it,        \* the inner loop's cursor between two iterations, or Null
  responses, \* the responses of the latest call
  threw,     \* rest_order threw std::logic_error
  before,    \* history: pairs of ids resting at one price, first come first
  request    \* history: the event of the latest call, or Null

vars == <<levels, nodes, location, taker, it, responses, threw, before, request>>
bookVars == <<levels, nodes, location, before>>

Init ==
  /\ levels = [side \in Sides |-> EmptyMap]
  /\ nodes = EmptyMap
  /\ location = EmptyMap
  /\ taker = Null
  /\ it = Null
  /\ responses = << >>
  /\ threw = FALSE
  /\ before = {}
  /\ request = Null

-----------------------------------------------------------------------------
(* The end of a level's list that the book would sweep first. *)
IsBest(side, p) ==
  /\ p \in DOMAIN levels[side]
  /\ \A q \in DOMAIN levels[side] \ {p} : Better(side, p, q)

(* asks.begin()->first and bids.rbegin()->first. *)
BestPrice(side) == CHOOSE p \in DOMAIN levels[side] : IsBest(side, p)

(* Book::topOfBook returns a quote, not nullopt. *)
HasQuote ==
  \A side \in Sides :
    /\ DOMAIN levels[side] # {}
    /\ levels[side][BestPrice(side)].total_quantity > 0

(* Book::quantityAtPrice. *)
QuantityAtPrice(side, p) ==
  IF p \in DOMAIN levels[side] THEN levels[side][p].total_quantity ELSE 0

(* A call that ends in its handler. *)
Reply(rs) ==
  /\ responses' = rs
  /\ UNCHANGED <<taker, it, threw>>

(* A call that goes on to match o. *)
Engage(o, rs) ==
  /\ taker' = o
  /\ responses' = rs
  /\ UNCHANGED <<it, threw>>

Idle == taker = Null /\ ~threw

(* location.find(id) != location.end() *)
Known(id) == id \in DOMAIN location

(* Something of the order being matched is still to trade. *)
HasLeft(o) == o.quantity > 0

-----------------------------------------------------------------------------
(* Mutant: anybody may cancel or modify an order. *)
RemovableByAnyone(id, owner_id) ==
  /\ Known(id)
  /\ location[id].price \in DOMAIN levels[location[id].side]

(* Book::removeFromSide finds the order and it belongs to owner_id. *)
Removable(id, owner_id) ==
  /\ Known(id)
  /\ location[id].price \in DOMAIN levels[location[id].side]
  /\ nodes[id].owner_id = owner_id

(* Mutant: a cancelled order leaves its quantity in the level's total. *)
AfterUnlinkSameTotal(level, node) ==
  [first |-> IF node.prev # Null THEN level.first ELSE node.nxt,
   last  |-> IF node.nxt # Null THEN level.last ELSE node.prev,
   total_quantity |-> level.total_quantity]

(* Mutant: the level still ends with the node that was its last. *)
AfterUnlinkSameLast(level, node) ==
  [first |-> IF node.prev # Null THEN level.first ELSE node.nxt,
   last  |-> level.last,
   total_quantity |-> level.total_quantity - node.quantity]

(* A level without one of its nodes. *)
AfterUnlink(level, node) ==
  [first |-> IF node.prev # Null THEN level.first ELSE node.nxt,
   last  |-> IF node.nxt # Null THEN level.last ELSE node.prev,
   total_quantity |-> level.total_quantity - node.quantity]

(* Book::removeFromSide unlinks and deletes the node of order id. *)
Unlink(id) ==
  LET side == location[id].side
      p    == location[id].price
      node == nodes[id]
      rest == AfterUnlink(levels[side][p], node)
  IN /\ nodes' = [n \in DOMAIN nodes \ {id} |->
                    [nodes[n] EXCEPT
                       !.nxt = IF n = node.prev THEN node.nxt ELSE @,
                       !.prev = IF n = node.nxt THEN node.prev ELSE @]]
     /\ levels' = [levels EXCEPT ![side] =
                     IF rest.first = Null THEN Without(@, p) ELSE With(@, p, rest)]
     /\ location' = Without(location, id)
     /\ before' = {pair \in before : pair[1] # id /\ pair[2] # id}

(* The Order that removeFromSide returns. *)
Removed(id) ==
  [side |-> location[id].side, order_id |-> id, owner_id |-> nodes[id].owner_id,
   quantity |-> nodes[id].quantity, price |-> location[id].price]

-----------------------------------------------------------------------------
(* The handlers. *)

(* Mutant: ADD does not look for its id in the book. *)
ProcessAddUnchecked(e) ==
  /\ Idle /\ e.order_type = "Add"
  /\ Engage(e, <<Echo(e, "OrderAccepted")>>)
  /\ UNCHANGED bookVars

ProcessAdd(e) ==
  /\ Idle /\ e.order_type = "Add"
  /\ \/ /\ Known(e.order_id)
        /\ Reply(<<Echo(e, "OrderRejected")>>)
     \/ /\ ~Known(e.order_id)
        /\ Engage(e, <<Echo(e, "OrderAccepted")>>)
  /\ UNCHANGED bookVars

ProcessCancel(e) ==
  /\ Idle /\ e.order_type = "Cancel"
  /\ \/ /\ ~Removable(e.order_id, e.owner_id)
        /\ Reply(<<Echo(e, "OrderCancelFailed")>>)
        /\ UNCHANGED bookVars
     \/ /\ Removable(e.order_id, e.owner_id)
        /\ Unlink(e.order_id)
        /\ Reply(<<Echo(Removed(e.order_id), "OrderCancelled")>>)

(* ProcessMod's own checks, before it calls try_remove. *)
Modifiable(e) ==
  /\ e.quantity > 0 /\ e.price > 0
  /\ Known(e.order_id)
  /\ location[e.order_id].owner_id = e.owner_id
  /\ location[e.order_id].side = e.side

ProcessMod(e) ==
  /\ Idle /\ e.order_type = "Mod"
  /\ \/ /\ ~(Modifiable(e) /\ Removable(e.order_id, e.owner_id))
        /\ Reply(<<Echo(e, "OrderModifyFailed")>>)
        /\ UNCHANGED bookVars
     \/ /\ Modifiable(e) /\ Removable(e.order_id, e.owner_id)
        /\ Unlink(e.order_id)
        /\ Engage(e, <<Echo(Removed(e.order_id), "OrderModified"),
                       Echo(e, "OrderModifyAccepted")>>)

ProcessIOC(e) ==
  /\ Idle /\ e.order_type = "IOC"
  /\ \/ /\ e.quantity <= 0 \/ e.price <= 0 \/ Known(e.order_id)
        /\ Reply(<<Echo(e, "OrderRejected")>>)
     \/ /\ e.quantity > 0 /\ e.price > 0 /\ ~Known(e.order_id)
        /\ Engage(e, <<Echo(e, "OrderAccepted")>>)
  /\ UNCHANGED bookVars

ProcessMarket(e) ==
  /\ Idle /\ e.order_type = "Market"
  /\ \/ /\ e.quantity <= 0 \/ Known(e.order_id)
        /\ Reply(<<Echo(e, "OrderRejected")>>)
     \/ /\ e.quantity > 0 /\ ~Known(e.order_id)
        /\ Engage(e, <<Echo(e, "OrderAccepted")>>)
  /\ UNCHANGED bookVars

ProcessOrder(e) ==
  /\ request' = e
  /\ \/ ProcessAdd(e)
     \/ ProcessCancel(e)
     \/ ProcessMod(e)
     \/ ProcessIOC(e)
     \/ ProcessMarket(e)

-----------------------------------------------------------------------------
(***************************************************************************)
(* One iteration of the inner matching loop over the best level p of       *)
(* `side'.  Between two iterations the level's `first' and the cursor's    *)
(* `prev' still name freed nodes; they are repaired, or the level erased,  *)
(* only when the inner loop ends.                                          *)
(***************************************************************************)
Match(side, p) ==
  LET maker == IF it = Null THEN levels[side][p].first ELSE it
      delta == Smaller(taker.quantity, nodes[maker].quantity)
      left  == taker.quantity - delta
      kept  == nodes[maker].quantity - delta
      cursor == IF kept = 0 THEN nodes[maker].nxt ELSE maker
      ends  == left = 0 \/ cursor = Null
      freed == IF kept = 0 THEN {maker} ELSE {}
      level == levels[side][p]
      rest  == [first |-> IF ends THEN cursor ELSE level.first,
                last |-> level.last,
                total_quantity |-> level.total_quantity - delta]
  IN /\ nodes' = [n \in DOMAIN nodes \ freed |->
                    [nodes[n] EXCEPT
                       !.quantity = IF n = maker THEN kept ELSE @,
                       !.prev = IF ends /\ n = cursor THEN Null ELSE @]]
     /\ levels' = [levels EXCEPT ![side] =
                     IF cursor = Null THEN Without(@, p) ELSE With(@, p, rest)]
     /\ location' = [n \in DOMAIN location \ freed |-> location[n]]
     /\ before' = {pair \in before : pair[1] \notin freed /\ pair[2] \notin freed}
     /\ it' = IF ends THEN Null ELSE cursor
     /\ taker' = [taker EXCEPT !.quantity = left]
     /\ responses' = responses \o
          <<Fill(taker.order_id, taker.owner_id, taker.side, left, delta, p),
            Fill(maker, nodes[maker].owner_id, side, kept, delta, p)>>
     /\ UNCHANGED threw

(* Mutant: the loops do not test what is left of the order. *)
CanMatchNothing(side, p) ==
  /\ taker # Null
  /\ taker.side = Opposite(side)
  /\ IsBest(side, p)
  /\ it = Null => Crosses(taker, p)

(* The loops' conditions: it is outside the inner loop that a price is compared. *)
CanMatch(side, p) ==
  /\ taker # Null
  /\ taker.side = Opposite(side)
  /\ HasLeft(taker)
  /\ IsBest(side, p)
  /\ it = Null => Crosses(taker, p)

MatchBuy ==
  \E p \in DOMAIN levels["Sell"] :
    CanMatch("Sell", p) /\ taker.order_type # "Market" /\ Match("Sell", p)

MatchSell ==
  \E p \in DOMAIN levels["Buy"] :
    CanMatch("Buy", p) /\ taker.order_type # "Market" /\ Match("Buy", p)

MarketBuy ==
  \E p \in DOMAIN levels["Sell"] :
    CanMatch("Sell", p) /\ taker.order_type = "Market" /\ Match("Sell", p)

MarketSell ==
  \E p \in DOMAIN levels["Buy"] :
    CanMatch("Buy", p) /\ taker.order_type = "Market" /\ Match("Buy", p)

(* The outer loop ends: nothing left to match, or no level to match with. *)
LoopEnds ==
  /\ taker # Null /\ ~threw
  /\ it = Null
  /\ \/ ~HasLeft(taker)
     \/ \A p \in DOMAIN levels[Opposite(taker.side)] : ~Crosses(taker, p)

-----------------------------------------------------------------------------
(* Mutant: the constructor's ids change places. *)
NewNodeSwapped(o, prev) ==
  [nxt |-> Null, prev |-> prev, owner_id |-> o.order_id, quantity |-> o.quantity]

NewNode(o, prev) ==
  [nxt |-> Null, prev |-> prev, owner_id |-> o.owner_id, quantity |-> o.quantity]

InitLevel(o) ==
  /\ nodes' = With(nodes, o.order_id, NewNode(o, Null))
  /\ levels' = [levels EXCEPT ![o.side] =
                  With(@, o.price, [first |-> o.order_id, last |-> o.order_id,
                                    total_quantity |-> o.quantity])]

AddOrder(o) ==
  LET level == levels[o.side][o.price] IN
  /\ nodes' = With([nodes EXCEPT ![level.last].nxt = o.order_id],
                   o.order_id, NewNode(o, level.last))
  /\ levels' = [levels EXCEPT ![o.side] =
                  With(@, o.price, [first |-> level.first, last |-> o.order_id,
                                    total_quantity |-> level.total_quantity + o.quantity])]

(* Book::rest_order, without its check. *)
RestOrder(o) ==
  /\ \/ o.price \notin DOMAIN levels[o.side] /\ InitLevel(o)
     \/ o.price \in DOMAIN levels[o.side] /\ AddOrder(o)
  /\ location' = With(location, o.order_id,
                      [side |-> o.side, owner_id |-> o.owner_id, price |-> o.price])
  /\ before' = before \cup {<<m, o.order_id>> :
                  m \in {n \in DOMAIN location :
                           /\ location[n].side = o.side
                           /\ location[n].price = o.price}}

(* ProcessAdd and ProcessMod return: what is left of the order rests. *)
ReturnRested ==
  /\ LoopEnds
  /\ taker.order_type \in {"Add", "Mod"}
  /\ \/ /\ ~HasLeft(taker)
        /\ taker' = Null
        /\ UNCHANGED <<bookVars, threw>>
     \/ /\ HasLeft(taker) /\ ~Known(taker.order_id)
        /\ RestOrder(taker)
        /\ taker' = Null
        /\ UNCHANGED threw
     \/ /\ HasLeft(taker) /\ Known(taker.order_id)
        /\ threw' = TRUE
        /\ UNCHANGED <<bookVars, taker>>
  /\ UNCHANGED <<it, responses>>

(* Mutant: the outer loop spins on an order with nothing left. *)
ReturnExpiredSpins ==
  /\ LoopEnds
  /\ taker.order_type \in {"IOC", "Market"}
  /\ \/ ~HasLeft(taker) /\ UNCHANGED vars
     \/ /\ HasLeft(taker)
        /\ responses' = Append(responses, Echo(taker, "OrderExpired"))
        /\ taker' = Null
        /\ UNCHANGED <<bookVars, it, threw>>

(* ProcessIOC and ProcessMarket return: what is left of the order expires. *)
ReturnExpired ==
  /\ LoopEnds
  /\ taker.order_type \in {"IOC", "Market"}
  /\ responses' = IF HasLeft(taker)
                  THEN Append(responses, Echo(taker, "OrderExpired"))
                  ELSE responses
  /\ taker' = Null
  /\ UNCHANGED <<bookVars, it, threw>>

Call ==
  /\ UNCHANGED request
  /\ \/ MatchBuy \/ MatchSell \/ MarketBuy \/ MarketSell
     \/ ReturnRested \/ ReturnExpired

Next == (\E e \in Events : ProcessOrder(e)) \/ Call

Spec == Init /\ [][Next]_vars

(* A call runs to its end: the program is sequential. *)
FairSpec == Spec /\ WF_vars(Call)

-----------------------------------------------------------------------------
(***************************************************************************)
(* Properties.                                                             *)
(***************************************************************************)
IdOrNull == Ids \cup {Null}

Level == [first : IdOrNull, last : IdOrNull, total_quantity : Int]

Node == [nxt : IdOrNull, prev : IdOrNull, owner_id : Owners, quantity : Int]

LocationID == [side : Sides, owner_id : Owners, price : Int]

OrderEvent ==
  [type : ResponseEvents, side : Sides, order_id : Ids, owner_id : Owners,
   quantity : Int, price : Int]

(* What the program keeps has its type: include/backtester/book.hpp, lines *)
(* 40-75.                                                                  *)
StateTypes ==
  /\ levels = [side \in Sides |-> levels[side]]
  /\ \A side \in Sides :
       /\ DOMAIN levels[side] \subseteq Int
       /\ levels[side] \in [DOMAIN levels[side] -> Level]
  /\ DOMAIN nodes \subseteq Ids
  /\ nodes \in [DOMAIN nodes -> Node]
  /\ DOMAIN location \subseteq Ids
  /\ location \in [DOMAIN location -> LocationID]
  /\ taker \in EventRecord \cup {Null}
  /\ it \in IdOrNull
  /\ responses \in Seq(OrderEvent)
  /\ threw \in BOOLEAN
  /\ before \subseteq Ids \X Ids

(* Every variable has its type; a call in progress is one of the events.   *)
TypeOK == StateTypes /\ request \in Events \cup {Null}

-----------------------------------------------------------------------------
(* Node n is in the list of the level at price p of `side'. *)
At(n, side, p) == location[n].side = side /\ location[n].price = p

SameLevel(m, n) ==
  location[m].side = location[n].side /\ location[m].price = location[n].price

(* The level that the inner matching loop is in the middle of. *)
Swept(side, p) == it # Null /\ At(it, side, p)

(* The oldest live node of a level: during a sweep, the cursor. *)
Oldest(side, p) == IF Swept(side, p) THEN it ELSE levels[side][p].first

(* `location' indexes exactly the live nodes, at the side, price and owner *)
(* they rest with; an order that rests has something left to trade.        *)
IndexMatchesNodes ==
  /\ DOMAIN nodes = DOMAIN location
  /\ \A n \in DOMAIN nodes :
       /\ location[n].owner_id = nodes[n].owner_id
       /\ location[n].price \in DOMAIN levels[location[n].side]
       /\ nodes[n].quantity > 0

(* A level that exists has a first and a last live node of its own. *)
LevelsNonEmpty ==
  \A side \in Sides : \A p \in DOMAIN levels[side] :
    /\ Oldest(side, p) \in DOMAIN nodes
    /\ At(Oldest(side, p), side, p)
    /\ ~Swept(side, p) => nodes[Oldest(side, p)].prev = Null
    /\ levels[side][p].last \in DOMAIN nodes
    /\ At(levels[side][p].last, side, p)

(* nxt and prev are inverse, stay in one level, and end at first and last. *)
LinksAreInverse ==
  \A n \in DOMAIN nodes :
    LET side == location[n].side  p == location[n].price IN
    /\ IF n = levels[side][p].last
       THEN nodes[n].nxt = Null
       ELSE /\ nodes[n].nxt \in DOMAIN nodes
            /\ SameLevel(n, nodes[n].nxt)
            /\ nodes[nodes[n].nxt].prev = n
    /\ n # Oldest(side, p) =>
         /\ nodes[n].prev \in DOMAIN nodes
         /\ SameLevel(n, nodes[n].prev)
         /\ nodes[nodes[n].prev].nxt = n

(* `before' is a strict total order on the nodes of each level. *)
ArrivalIsOrder ==
  /\ \A pair \in before :
       /\ pair[1] \in DOMAIN nodes /\ pair[2] \in DOMAIN nodes
       /\ SameLevel(pair[1], pair[2])
       /\ pair[1] # pair[2]
  /\ \A m, n \in DOMAIN nodes :
       SameLevel(m, n) /\ m # n =>
         (<<m, n>> \in before <=> <<n, m>> \notin before)
  /\ \A k, m, n \in DOMAIN nodes :
       <<k, m>> \in before /\ <<m, n>> \in before => <<k, n>> \in before

(* The list of a level is in arrival order: its head came first, its last  *)
(* came last, and no node arrived between two neighbours.                  *)
ListsAreFifo ==
  \A n \in DOMAIN nodes :
    LET side == location[n].side  p == location[n].price IN
    /\ n # Oldest(side, p) => <<Oldest(side, p), n>> \in before
    /\ n # levels[side][p].last =>
         /\ <<n, levels[side][p].last>> \in before
         /\ <<n, nodes[n].nxt>> \in before
         /\ \A m \in DOMAIN nodes :
              SameLevel(m, n) /\ <<n, m>> \in before /\ m # nodes[n].nxt
                => <<nodes[n].nxt, m>> \in before

(* In the middle of a sweep the cursor is on the best level of the side    *)
(* opposite to a taker that still wants it.                                *)
SweepOnBestLevel ==
  it # Null =>
    /\ taker # Null
    /\ taker.quantity > 0
    /\ it \in DOMAIN nodes
    /\ location[it].side = Opposite(taker.side)
    /\ IsBest(location[it].side, location[it].price)
    /\ Crosses(taker, location[it].price)

(* The lists and the index agree whatever was added, cancelled, modified   *)
(* or matched: book.cpp lines 258-475 and 477-577.                         *)
WellFormed ==
  /\ IndexMatchesNodes
  /\ LevelsNonEmpty
  /\ LinksAreInverse
  /\ ArrivalIsOrder
  /\ ListsAreFifo
  /\ SweepOnBestLevel

(* topOfBook and quantityAtPrice (book.cpp:36, 58), which read the maps    *)
(* and the totals that five functions keep, answer what the resting orders *)
(* say: the sum of their quantities at a price, a quote exactly when both  *)
(* sides have an order, at the best price of each.                         *)
QueriesAgree ==
  /\ \A side \in Sides :
       \A p \in DOMAIN levels[side] \cup {location[n].price : n \in DOMAIN location} :
         QuantityAtPrice(side, p) =
           SumFunctionOnSet([n \in DOMAIN nodes |-> nodes[n].quantity],
                            {n \in DOMAIN nodes : At(n, side, p)})
  /\ HasQuote <=> \A side \in Sides : \E n \in DOMAIN location : location[n].side = side
  /\ HasQuote => \A n \in DOMAIN location :
                   ~Better(location[n].side, location[n].price, BestPrice(location[n].side))

(* No bid is at or above an ask, even between two fills: topOfBook's quote *)
(* (book.cpp:36) always has a positive spread, which the fair-price        *)
(* strategy's mid and edges presume.                                       *)
NotCrossed ==
  \A bid \in DOMAIN levels["Buy"], ask \in DOMAIN levels["Sell"] : bid < ask

(* rest_order's guard (book.cpp:433) never fires: no sequence of calls     *)
(* brings an order to rest while its id is still in the book, because the  *)
(* id of the order being matched is never also resting.                    *)
NeverThrows ==
  /\ ~threw
  /\ taker # Null => taker.order_id \notin DOMAIN location

(* The response that accepts the order of a call; the first response to a  *)
(* MOD is about the order it takes away.                                   *)
Accepting == IF responses[1].type = "OrderModified" THEN 2 ELSE 1

TakerTraded ==
  SumFunctionOnSet([i \in DOMAIN responses |-> responses[i].quantity],
                   {i \in DOMAIN responses :
                      IsFill(responses[i]) /\ responses[i].order_id = taker.order_id})

(* The quantity a call accepted is the quantity its responses give out:    *)
(* what traded, plus what is still to be matched, rests or expired.        *)
UnitsAccountedFor ==
  taker # Null => responses[Accepting].quantity = TakerTraded + taker.quantity

(* Whenever the quantity at a price changes, the call's responses name the *)
(* price and side in one of the ways that make Backtest::processEvent      *)
(* (backtest.cpp:184-187) refresh its analytics for that level.            *)
Announced(side, p) ==
  \E i \in DOMAIN responses' :
    /\ responses'[i].side = side
    /\ responses'[i].price = p
    /\ \/ responses'[i].type \in {"OrderCancelled", "OrderModified", "OrderModifyAccepted",
                                  "OrderFilled", "OrderPartialFilled"}
       \/ responses'[i].type = "OrderAccepted" /\ request'.order_type = "Add"

LevelChangesAnnounced ==
  [][\A side \in Sides :
       \A p \in DOMAIN levels[side] \cup DOMAIN levels'[side] :
         QuantityAtPrice(side, p) # QuantityAtPrice(side, p)' => Announced(side, p)]_vars

(* matchSell's comment (book.cpp:532), "we use the price of the SELL       *)
(* order": a limit order to sell trades at its own price.                  *)
SellsTradeAtSellPrice ==
  \A i \in DOMAIN responses :
    /\ taker # Null /\ taker.side = "Sell" /\ taker.order_type # "Market"
    /\ IsFill(responses[i])
    => responses[i].price = taker.price

(* Every iteration of a matching loop trades at least one unit, so no call *)
(* runs longer than its quantity: no order without quantity ever rests     *)
(* (ADD, book.cpp:106, unlike IOC and MARKET, does not check it).          *)
LoopsMakeProgress ==
  [][taker # Null /\ taker' # Null => threw' \/ taker'.quantity < taker.quantity]_vars

(* Every call returns: the loops of matchBuy, matchSell, marketBuy and     *)
(* marketSell (book.cpp 258-358, 477-577) end.                             *)
CallsReturn == taker # Null ~> taker = Null

-----------------------------------------------------------------------------
(* The abstract book this one is meant to be. *)
Engine ==
  [orders |-> [n \in DOMAIN location |->
                 [side |-> location[n].side, owner_id |-> location[n].owner_id,
                  price |-> location[n].price, quantity |-> nodes[n].quantity]],
   before |-> before,
   taker |-> taker,
   responses |-> responses]

PriceTime == INSTANCE PriceTimeBook WITH engine <- Engine

(* README line 44, "Price-time priority / FIFO within a price level": the  *)
(* lists, maps and index of book.cpp do what the abstract book does.       *)
ImplementsPriceTime == PriceTime!Spec
=============================================================================
