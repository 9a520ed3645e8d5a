-------------------------- MODULE MCBookDestructor --------------------------
EXTENDS BookDestructor, TLC

CONSTANTS Prices, Quantities   \* the bounds: Int in Book, small sets here

MCEvents ==
  {e \in [order_type : OrderTypes, side : Sides, order_id : Ids,
          owner_id : Owners, quantity : Quantities, price : Prices] :
     e.order_type = "Cancel" => e.quantity = 0 /\ e.price = 0}

Symmetric == Permutations(Ids)

(* The responses of a call that has returned are read by nothing.          *)
Latest == <<IF taker = Null THEN bookVars ELSE vars, phase, left, node>>
=============================================================================
