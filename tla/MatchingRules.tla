---------------------------- MODULE MatchingRules ---------------------------
(***************************************************************************)
(* What an order book promises, as operators on a value: the set of        *)
(* resting orders, which of two orders at one price came first, the order  *)
(* being matched and the responses of the current call.  There are no      *)
(* levels, lists or indexes here; src/book.cpp's are in module Book, which *)
(* is shown to implement module PriceTimeBook, the state machine built     *)
(* from these operators.  Backtest runs whole calls with ProcessOrder.     *)
(***************************************************************************)
EXTENDS OrderTypes, FiniteSets, SequencesExt

CONSTANT Null          \* no order, no pointer

EmptyBook ==
  [orders |-> EmptyMap, before |-> {}, taker |-> Null, responses |-> << >>]

(* Resting order m of book b has priority over resting order n. *)
Ahead(b, m, n) ==
  LET x == b.orders[m]  y == b.orders[n] IN
  \/ Better(x.side, x.price, y.price)
  \/ x.price = y.price /\ <<m, n>> \in b.before

(* m is the order on `side' that must trade next. *)
IsNextMaker(b, side, m) ==
  /\ m \in DOMAIN b.orders
  /\ b.orders[m].side = side
  /\ \A n \in DOMAIN b.orders \ {m} :
       b.orders[n].side = side => Ahead(b, m, n)

(* The taker of b may trade now. *)
CanFill(b) ==
  /\ b.taker # Null
  /\ b.taker.quantity > 0
  /\ \E m \in DOMAIN b.orders :
       /\ b.orders[m].side = Opposite(b.taker.side)
       /\ Crosses(b.taker, b.orders[m].price)

Withdraw(b, id) ==
  [b EXCEPT !.orders = Without(@, id),
            !.before = {pair \in @ : pair[1] # id /\ pair[2] # id}]

(* Order o joins the book behind every order of its side and price. *)
Rest(b, o) ==
  [b EXCEPT
     !.orders = With(@, o.order_id, [side |-> o.side, owner_id |-> o.owner_id,
                                     price |-> o.price, quantity |-> o.quantity]),
     !.before = @ \cup {<<m, o.order_id>> :
                          m \in {n \in DOMAIN b.orders :
                                   /\ b.orders[n].side = o.side
                                   /\ b.orders[n].price = o.price}}]

Reply(b, rs) == [b EXCEPT !.responses = rs]

Engage(b, o, rs) == [b EXCEPT !.taker = o, !.responses = rs]

(* The order resting under id, in the form Echo reads. *)
Resting(b, id) ==
  [side |-> b.orders[id].side, order_id |-> id,
   owner_id |-> b.orders[id].owner_id, quantity |-> b.orders[id].quantity,
   price |-> b.orders[id].price]

(* Mutant: whoever knows an id may cancel or modify its order. *)
OwnsKnown(b, e) == e.order_id \in DOMAIN b.orders

Owns(b, e) ==
  /\ e.order_id \in DOMAIN b.orders
  /\ b.orders[e.order_id].owner_id = e.owner_id

(* Mutant: an id that is taken is dropped without a word. *)
SubmitAddUnanswered(b, e) ==
  IF e.order_id \in DOMAIN b.orders
  THEN Reply(b, << >>)
  ELSE Engage(b, e, <<Echo(e, "OrderAccepted")>>)

SubmitAdd(b, e) ==
  IF e.order_id \in DOMAIN b.orders
  THEN Reply(b, <<Echo(e, "OrderRejected")>>)
  ELSE Engage(b, e, <<Echo(e, "OrderAccepted")>>)

SubmitCancel(b, e) ==
  IF Owns(b, e)
  THEN Reply(Withdraw(b, e.order_id),
             <<Echo(Resting(b, e.order_id), "OrderCancelled")>>)
  ELSE Reply(b, <<Echo(e, "OrderCancelFailed")>>)

SubmitMod(b, e) ==
  IF /\ e.quantity > 0 /\ e.price > 0
     /\ Owns(b, e)
     /\ b.orders[e.order_id].side = e.side
  THEN Engage(Withdraw(b, e.order_id), e,
              <<Echo(Resting(b, e.order_id), "OrderModified"),
                Echo(e, "OrderModifyAccepted")>>)
  ELSE Reply(b, <<Echo(e, "OrderModifyFailed")>>)

SubmitIOC(b, e) ==
  IF e.quantity <= 0 \/ e.price <= 0 \/ e.order_id \in DOMAIN b.orders
  THEN Reply(b, <<Echo(e, "OrderRejected")>>)
  ELSE Engage(b, e, <<Echo(e, "OrderAccepted")>>)

SubmitMarket(b, e) ==
  IF e.quantity <= 0 \/ e.order_id \in DOMAIN b.orders
  THEN Reply(b, <<Echo(e, "OrderRejected")>>)
  ELSE Engage(b, e, <<Echo(e, "OrderAccepted")>>)

(* Book::ProcessOrder up to the matching loop. *)
Submit(b, e) ==
  CASE e.order_type = "Add"    -> SubmitAdd(b, e)
    [] e.order_type = "Cancel" -> SubmitCancel(b, e)
    [] e.order_type = "Mod"    -> SubmitMod(b, e)
    [] e.order_type = "IOC"    -> SubmitIOC(b, e)
    [] e.order_type = "Market" -> SubmitMarket(b, e)

(* The taker trades with resting order m, at m's price. *)
FillWith(b, m) ==
  LET maker == b.orders[m]
      delta == Smaller(b.taker.quantity, maker.quantity)
      left  == b.taker.quantity - delta
      kept  == IF maker.quantity = delta
               THEN Withdraw(b, m)
               ELSE [b EXCEPT !.orders[m].quantity = @ - delta]
  IN [kept EXCEPT
        !.taker.quantity = left,
        !.responses = @ \o
           <<Fill(b.taker.order_id, b.taker.owner_id, b.taker.side,
                  left, delta, maker.price),
             Fill(m, maker.owner_id, maker.side,
                  maker.quantity - delta, delta, maker.price)>>]

(* What becomes of the taker when it can trade no more. *)
Finish(b) ==
  LET o == b.taker
      free == [b EXCEPT !.taker = Null]
  IN CASE o.quantity <= 0 -> free
       [] o.quantity > 0 /\ o.order_type \in {"Add", "Mod"} -> Rest(free, o)
       [] o.quantity > 0 /\ o.order_type \in {"IOC", "Market"} ->
            [free EXCEPT !.responses = Append(@, Echo(o, "OrderExpired"))]

(* One fill against the order with priority, if there is one to make. *)
FillNext(b) ==
  IF CanFill(b)
  THEN FillWith(b, CHOOSE m \in DOMAIN b.orders :
                     IsNextMaker(b, Opposite(b.taker.side), m))
  ELSE b

FillStep(b, i) == FillNext(b)

(* A whole call of Book::ProcessOrder: every fill takes at least one unit, *)
(* so e.quantity fills are enough.                                         *)
ProcessOrder(b, e) ==
  LET engaged == Submit(b, e)
      matched == FoldLeft(FillStep, engaged, [i \in 1 .. e.quantity |-> i])
  IN IF engaged.taker = Null THEN engaged ELSE Finish(matched)
=============================================================================
