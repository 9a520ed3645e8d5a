------------------------------- MODULE MCBook -------------------------------
EXTENDS Book, TLC

CONSTANTS Prices, Quantities   \* the bounds: Int in Book, small sets here

(* Every order event over the bounds; as in the data files, a CANCEL       *)
(* carries no quantity and no price.                                       *)
MCEvents ==
  {e \in [order_type : OrderTypes, side : Sides, order_id : Ids,
          owner_id : Owners, quantity : Quantities, price : Prices] :
     e.order_type = "Cancel" => e.quantity = 0 /\ e.price = 0}

Symmetric == Permutations(Ids) \cup Permutations(Owners)
(* Between two calls nothing reads the responses of the last one.          *)
Latest == IF taker = Null THEN bookVars ELSE vars
=============================================================================
