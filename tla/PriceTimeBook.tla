---------------------------- MODULE PriceTimeBook ---------------------------
(***************************************************************************)
(* The abstract order book: "Price-time priority / FIFO within a price     *)
(* level".  A call of ProcessOrder is Receive, then one Trade for every    *)
(* pair of orders that trade, then Return; the next call starts only when  *)
(* no order is being matched.                                              *)
(***************************************************************************)
EXTENDS MatchingRules

CONSTANT Events        \* the events that may be sent to the book

VARIABLES
  engine,    \* the book, the order being matched and the responses
  request    \* the event of the latest call, or Null

vars == <<engine, request>>

Init == engine = EmptyBook /\ request = Null

Receive(e) ==
  /\ engine.taker = Null
  /\ request' = e
  /\ engine' = Submit(engine, e)

Trade ==
  /\ CanFill(engine)
  /\ \E m \in DOMAIN engine.orders :
       /\ IsNextMaker(engine, Opposite(engine.taker.side), m)
       /\ engine' = FillWith(engine, m)
  /\ UNCHANGED request

Return ==
  /\ engine.taker # Null
  /\ ~CanFill(engine)
  /\ engine' = Finish(engine)
  /\ UNCHANGED request

Next ==
  \/ \E e \in Events : Receive(e)
  \/ Trade
  \/ Return

Spec == Init /\ [][Next]_vars
=============================================================================
