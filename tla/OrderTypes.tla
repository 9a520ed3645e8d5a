----------------------------- MODULE OrderTypes -----------------------------
(***************************************************************************)
(* The vocabulary of include/backtester/types.hpp shared by every model of *)
(* the matching engine: sides, order types, the events sent to a book and  *)
(* the OrderEvent responses a book answers with.                           *)
(*                                                                         *)
(* The time field of an event is left out here: a book copies it into the  *)
(* responses and never reads it.  The scheduler's modules add it back.     *)
(***************************************************************************)
EXTENDS Integers, Sequences

Sides == {"Buy", "Sell"}

Opposite(side) == IF side = "Buy" THEN "Sell" ELSE "Buy"

OrderTypes == {"Add", "Cancel", "Mod", "Market", "IOC"}

ResponseEvents ==
  {"OrderAccepted", "OrderRejected", "OrderFilled", "OrderPartialFilled",
   "OrderCancelled", "OrderCancelFailed", "OrderModified",
   "OrderModifyFailed", "OrderModifyAccepted", "OrderExpired"}

(***************************************************************************)
(* A response that repeats the identity, quantity and price of `o', which  *)
(* is an event or a resting order put in the form of one.                  *)
(***************************************************************************)
Echo(o, type) ==
  [type |-> type, side |-> o.side, order_id |-> o.order_id,
   owner_id |-> o.owner_id, quantity |-> o.quantity, price |-> o.price]

(* Mutant: the report gives what is left instead of what was traded. *)
FillOfRemaining(order_id, owner_id, side, remaining, traded, price) ==
  [type |-> IF remaining > 0 THEN "OrderPartialFilled" ELSE "OrderFilled",
   side |-> side, order_id |-> order_id, owner_id |-> owner_id,
   quantity |-> remaining, price |-> price]

(* Mutant: both parties of a trade are told that they bought. *)
FillBothBuy(order_id, owner_id, side, remaining, traded, price) ==
  [type |-> IF remaining > 0 THEN "OrderPartialFilled" ELSE "OrderFilled",
   side |-> "Buy", order_id |-> order_id, owner_id |-> owner_id,
   quantity |-> traded, price |-> price]

(* Book::Fill: the report one party of a trade receives. *)
Fill(order_id, owner_id, side, remaining, traded, price) ==
  [type |-> IF remaining > 0 THEN "OrderPartialFilled" ELSE "OrderFilled",
   side |-> side, order_id |-> order_id, owner_id |-> owner_id,
   quantity |-> traded, price |-> price]

IsFill(r) == r.type \in {"OrderFilled", "OrderPartialFilled"}

(* Price p comes before price q in the order side `side' is matched. *)
Better(side, p, q) == IF side = "Buy" THEN p > q ELSE p < q

(* Mutant: an equal price does not trade. *)
CrossesStrictly(o, p) ==
  \/ o.order_type = "Market"
  \/ o.side = "Buy"  /\ p < o.price
  \/ o.side = "Sell" /\ p > o.price

(* The outer loop's condition: may order o trade against a level at p? *)
Crosses(o, p) ==
  \/ o.order_type = "Market"
  \/ o.side = "Buy"  /\ p <= o.price
  \/ o.side = "Sell" /\ p >= o.price

Smaller(a, b) == IF a < b THEN a ELSE b

EmptyMap == [x \in {} |-> x]

(* The function f without the key k: erase() on a map. *)
Without(f, k) == [x \in DOMAIN f \ {k} |-> f[x]]

(* The function f with key k bound to v: operator[] or emplace on a map. *)
With(f, k, v) == [x \in DOMAIN f \cup {k} |-> IF x = k THEN v ELSE f[x]]
=============================================================================
